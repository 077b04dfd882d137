----------------------------- MODULE MCDocuments -----------------------------
(***************************************************************************)
(* Documents for TLC: the agendas of two meetings, which may be the same   *)
(* file, and the transcripts of both, which may both be the empty stub.    *)
(* The second meeting is past its settling window.                         *)
(***************************************************************************)
EXTENDS Documents

CONSTANTS a1, a2, t1, t2, m1, m2, long, word, empty, captions, w1, w2

MCKind == [d \in Docs |-> IF d \in {a1, a2} THEN "agenda" ELSE "transcript"]
MCMeeting == [d \in Docs |-> IF d \in {a1, t1} THEN m1 ELSE m2]
MCMayServe == [d \in Docs |-> CASE d = a1 -> {long, word}
                                [] d = a2 -> {long}
                                [] d = t1 -> {empty, captions}
                                [] d = t2 -> {empty}]
MCReading == [c \in Contents |-> CASE c = empty -> "absent"
                                   [] c = captions -> "published"
                                   [] c = word -> "unreadable"
                                   [] OTHER -> "unavailable"]
MCItems == [c \in Contents |-> IF c = long THEN {1, 2} ELSE {}]
=============================================================================
