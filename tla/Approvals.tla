------------------------------ MODULE Approvals ------------------------------
(***************************************************************************)
(* What an approval workflow promises, with no request handler in sight: a *)
(* change set is parked, somebody decides on it once, and changes are only *)
(* made under the consent that covers them.                                *)
(*                                                                         *)
(* status[i] is the row of the approvals table with id i ("none" before    *)
(* the INSERT) and asked[i] the change set that was parked in it;          *)
(* enacted[i] is what has been done on the strength of approval i: pairs   *)
(* of a request and a change that it has sent to a data platform.          *)
(*                                                                         *)
(* How far a consent reaches is a parameter: <<c, x>> \in Covers says that *)
(* whoever approves change set c has approved change x.                    *)
(***************************************************************************)
CONSTANTS Ids,         \* approval ids
          Appliers,    \* requests that may enact an approved change set
          ChangeSets,  \* what can be parked
          Changes,     \* what can be done to a platform
          Covers,      \* which change set is consent to which change
          NothingAsked \* asked[i] before anything is parked

VARIABLES status, asked, enacted

avars == <<status, asked, enacted>>

Status == {"none", "pending", "approved", "rejected", "executed"}

\* The statuses that can only be reached through an approver's consent.
Consented == {"approved", "executed"}

\* Requests that were parked before we start to look are still undecided.
ApprovalsInit ==
  /\ status \in [Ids -> {"none", "pending"}]
  /\ asked \in [Ids -> ChangeSets \cup {NothingAsked}]
  /\ enacted = [i \in Ids |-> {}]

\* create_request
ParkRequest(i, c) ==
  /\ status[i] = "none"
  /\ status' = [status EXCEPT ![i] = "pending"]
  /\ asked' = [asked EXCEPT ![i] = c]
  /\ UNCHANGED enacted

\* decide: a decision only ever falls on a pending request.
DecideRequest(i, verdict) ==
  /\ status[i] = "pending"
  /\ status' = [status EXCEPT ![i] = verdict]
  /\ UNCHANGED <<asked, enacted>>

\* Applier a makes change x under approval i.  Appliers that passed the gate
\* before the first of them finished may still write afterwards.
Enact(i, a, x) ==
  /\ status[i] \in Consented
  /\ <<asked[i], x>> \in Covers
  /\ enacted' = [enacted EXCEPT ![i] = @ \cup {<<a, x>>}]
  /\ UNCHANGED <<status, asked>>

\* mark_executed
CloseRequest(i) ==
  /\ status[i] \in Consented
  /\ status' = [status EXCEPT ![i] = "executed"]
  /\ UNCHANGED <<asked, enacted>>

ApprovalsNext ==
  \E i \in Ids :
    \/ \E c \in ChangeSets : ParkRequest(i, c)
    \/ \E verdict \in {"approved", "rejected"} : DecideRequest(i, verdict)
    \/ \E a \in Appliers, x \in Changes : Enact(i, a, x)
    \/ CloseRequest(i)

ApprovalsSpec == ApprovalsInit /\ [][ApprovalsNext]_avars
=============================================================================
