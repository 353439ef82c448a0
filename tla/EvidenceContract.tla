-------------------------- MODULE EvidenceContract --------------------------
(***************************************************************************)
(* What an evidence answer promises its client, with no database in sight: *)
(* an answer describes files of the checkout as the checkout is at the     *)
(* moment the answer is given.  It may describe fewer files than there are *)
(* (extraction can skip one), and it may be refused, which is a stutter.   *)
(***************************************************************************)
CONSTANTS File, Content, Absent, Reader, None

VARIABLES checkout, answer

Init ==
    /\ checkout \in [File -> Content \cup {Absent}]
    /\ answer = [r \in Reader |-> None]

Change(f) ==
    /\ \E c \in Content \cup {Absent} : checkout' = [checkout EXCEPT ![f] = c]
    /\ UNCHANGED answer

Answer(r) ==
    /\ answer[r] = None
    /\ \E K \in SUBSET File :
          answer' = [answer EXCEPT ![r] = [f \in K |-> checkout[f]]]
    /\ UNCHANGED checkout

\* Answers are consumed by their clients, all of them when the server dies.
Drop ==
    /\ \E R \in SUBSET Reader :
          answer' = [r \in Reader |-> IF r \in R THEN None ELSE answer[r]]
    /\ UNCHANGED checkout

Next == (\E f \in File : Change(f)) \/ (\E r \in Reader : Answer(r)) \/ Drop

Spec == Init /\ [][Next]_<<checkout, answer>>
=============================================================================
