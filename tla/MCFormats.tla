----------------------------- MODULE MCFormats -----------------------------
(***************************************************************************)
(* What is written and what is read back, for the two formats the code     *)
(* builds octet by octet: a recording, or a feedback message (the file is  *)
(* written while there is no message).                                     *)
(***************************************************************************)
EXTENDS TsWriter, Feedback

(* Packing is made of shifts and unions, so that a format is right if it   *)
(* is right for one bit at a time and for all ones.                        *)
AllOnes(words) ==
    LET fields == UNION {w.fields : w \in Range(words)}
    IN  [f \in FieldsOf(words) |-> Ones((CHOOSE p \in fields : p.f = f).w)]

Items(words) ==
    {AllOnes(words)}
    \cup UNION {{[f \in FieldsOf(words) |-> IF f = p.f THEN {b} ELSE {}] : b \in Ones(p.w)}
                  : p \in UNION {w.fields : w \in Range(words)}}

Msg(kind, items, room) == [kind |-> kind, items |-> items, room |-> room]

(* Lists of one and two items, with room for all, for one, for none. *)
ListMessages ==
    UNION {LET format == ListFormats[k]
           IN  {Msg(k, <<x>>, 12 + format.size + r) : x \in Items(format.words), r \in {0, 3}}
               \cup {Msg(k, <<x>>, 12 + format.size - 1) : x \in {AllOnes(format.words)}}
               \cup (IF k = "sli" THEN {}
                     ELSE {Msg(k, <<AllOnes(format.words), x>>, 12 + s) :
                             x \in Items(format.words), s \in {format.size, 2 * format.size}})
           : k \in DOMAIN ListFormats}

BlockMessages ==
    UNION {LET format == BlockFormats[k]
           IN  {Msg(k, <<x>>, 12 + s) : x \in Items(format.words), s \in {format.size - 1, format.size}}
           : k \in DOMAIN BlockFormats}
    \cup {Msg("dlrr", <<AllOnes(dlrr.words), x>>, 36) : x \in Items(dlrr.words)}

WithPayload(x, p) == [f \in (DOMAIN x \ {"len"}) \cup {"payload"} |-> IF f = "payload" THEN p ELSE x[f]]

PayloadMessages ==
    {Msg("ps", <<WithPayload(x, p)>>, 12 + r) :
        x \in Items(ps.words), p \in {<<>>, <<{31}>>, <<{0}, Ones(32)>>}, r \in {7, 8, 16}}
    \cup {Msg("vbcm", <<WithPayload(x, p)>>, 12 + r) :
        x \in Items(vbcm.words), p \in {<<{7}>>, <<{0}, Ones(8), {}, {1}>>, <<{}, {}, {3}, {}, {4}>>},
        r \in {11, 12, 16}}

OtherMessages ==
    {Msg("pli", <<>>, r) : r \in {11, 12}}
    \cup {Msg("ecn", <<x>>, 12 + r) : x \in Items(ecn.words), r \in {19, 20}}
    \cup {Msg("remb", [i \in 1 .. n |-> [ssrc |-> {i, b}, exp |-> {b % 6}, mantissa |-> {b % 18}]], 12 + r) :
            n \in 1 .. 3, b \in 0 .. 31, r \in {8, 12, 20}}
    \cup {Msg("rpsi", <<[pt |-> {0, 6}, len |-> BitsOf(n)]>>, 24) : n \in {1, 8, 17}}
    \cup {Msg("ccfb", <<[ssrc |-> {1}, begin |-> {0},
                         payload |-> [i \in 1 .. n |-> [received |-> TRUE, ecn |-> {}, ato |-> {i}]]]>>, 40) :
            n \in 1 .. 2}

(* Up to three runs of lost, on time, late and early packets. *)
Runs == {[i \in 1 .. n |-> r] : n \in {1, 6, 7, 8, 14, 15},
                                r \in {[received |-> FALSE, ato |-> 0], [received |-> TRUE, ato |-> 63],
                                       [received |-> TRUE, ato |-> 64], [received |-> TRUE, ato |-> -1]}}
TccMessages ==
    {Msg("tcc01", a, 0) : a \in Runs} \cup {Msg("tcc01", a \o b \o c, 0) : a, b, c \in Runs}

MCMessages == {NoMessage} \cup ListMessages \cup BlockMessages \cup PayloadMessages
              \cup OtherMessages \cup TccMessages

(* Frames at 25 Hz, past a table interval, past the longest frame, back. *)
MCPtsSteps == {40, 120, 400, -40}

Init == FbInit /\ TsInit

Next ==
    \/ FbNext /\ UNCHANGED tsVars
    \/ msg = NoMessage /\ TsNext /\ UNCHANGED fbVars

Spec == Init /\ [][Next]_<<fbVars, tsVars>>
=============================================================================
