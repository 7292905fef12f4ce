----------------------------- MODULE MCHubPeople -----------------------------
EXTENDS HubPeople

MCSeats == [p \in Plans |-> IF p = "free" THEN 3 ELSE 0]

(* A hub in service.  Hosted, cid claimed it and ann registered a company;  *)
(* on a self-hosted one ann claimed it, and cid was a member once.  Bob is  *)
(* an owner too, two invitations are out for the last seat, and ann asked   *)
(* for a new password.  Two more requests are to come.                      *)
Sent(o, p) == [org |-> o, guest |-> p, role |-> "member", live |-> TRUE, expired |-> FALSE]

InService ==
  /\ \/ offering = "hosted" /\ database = "postgres"
     \/ offering = "selfhost" /\ database = "sqlite"
  /\ accounts = [p \in People |-> IF p = "dan" THEN None
                                  ELSE [admin |-> p = IF offering = "hosted" THEN "cid" ELSE "ann",
                                         password |-> "chosen"]]
  /\ orgs = [o \in Orgs |-> IF o = "org1" THEN [plan |-> "free", mode |-> "standard"] ELSE None]
  /\ roles = [o \in Orgs |-> [p \in People |->
                IF o = "org1" /\ p \in {"ann", "bob"} THEN "owner" ELSE None]]
  /\ invites = [i \in Invites |-> CASE i = "i1" -> Sent("org1", "dan") [] i = "i2" -> Sent("org1", "cid")
                                     [] OTHER -> None]
  /\ resets = [x \in Resets |-> IF x = "x1" THEN [account |-> "ann", live |-> TRUE, expired |-> FALSE]
                                ELSE None]
  /\ claimToken = FALSE
  /\ request = [r \in Requests |-> Idle]
  /\ uses = [x \in Invites \cup Resets |-> 0]
  /\ calls = MaxCalls - 2

MCInit == Init \/ InService
MCSpec == MCInit /\ [][Next]_vars

==============================================================================
