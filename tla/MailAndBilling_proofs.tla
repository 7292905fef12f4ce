----------------------- MODULE MailAndBilling_proofs -------------------------
(****************************************************************************)
(* Theorems about the mail and the billing of HubServices, for any number   *)
(* of mails and of hub processes that drain them, of payments and of        *)
(* deliveries of their events: no mail has two holders, a mail that is sent *)
(* or given up stays so, every mail settles in time although it waits for   *)
(* others, and a payment has one invoice but for calls whose outcome nobody *)
(* knows.                                                                   *)
(****************************************************************************)
EXTENDS HubServices, FiniteSetTheorems, WellFoundedInduction, TLAPS

----------------------------------------------------------------------------
(* Mail.                                                                    *)

(* The inductive invariant.                                                 *)

Sending == [at : {"send", "mark sent", "read attempts"}, mail : Mails, now : Nat]
Failing == [at : {"mark failed"}, mail : Mails, now : Nat, attempts : Nat \ {0}]

(* A process that is not one of this installation does nothing.             *)
WorkersOK ==
  /\ mail_worker \in [MailWorkers -> {Mail!Idle} \cup Sending \cup Failing]
  /\ \A w \in MailWorkers \ mail_drains : mail_worker[w] = Mail!Idle

(* A process that has claimed a mail is done with it in time.               *)
InTime(w) == mail_worker[w].now <= mail_clock /\ mail_clock <= mail_worker[w].now + SendWithin

(* The row it claimed is as the claim left it, or has been purged.          *)
AsClaimed(w) ==
  LET m == mail_worker[w].mail
  IN  /\ mail_outbox[m] # None
      /\ m \in Mail!Stored => /\ mail_outbox[m].status = "sending"
                              /\ mail_outbox[m].claimed = mail_worker[w].now
                              /\ Mail!At(w, "mark failed") =>
                                   mail_worker[w].attempts = mail_outbox[m].attempts + 1

ClaimsStand == \A w \in MailWorkers : ~Mail!At(w, "idle") => InTime(w) /\ AsClaimed(w)

MailInv == Mail!TypeOK /\ WorkersOK /\ ClaimsStand /\ Mail!MailHasOneHolder

----------------------------------------------------------------------------
(* A worker that is not idle works on a mail, since some time.              *)
LEMMA Busy ==
  ASSUME WorkersOK, NEW w \in MailWorkers, ~Mail!At(w, "idle")
  PROVE  /\ mail_worker[w] \in Sending \cup Failing
         /\ mail_worker[w].mail \in Mails /\ mail_worker[w].now \in Nat
<1>1. mail_worker[w] \in {Mail!Idle} \cup Sending \cup Failing
  BY DEF WorkersOK
<1>2. mail_worker[w] # Mail!Idle
  BY DEF Mail!At, Mail!Idle
<1>3. mail_worker[w] \in Sending \cup Failing
  BY <1>1, <1>2
<1> HIDE DEF Mail!Idle
<1> QED
  BY <1>3 DEF Sending, Failing

LEMMA StoredIsRow ==
  ASSUME Mail!TypeOK, NEW m \in Mail!Stored
  PROVE  m \in Mails /\ mail_outbox[m] \in Mail!Row
BY DEF Mail!TypeOK, Mail!Stored

LEMMA RowIsStored ==
  ASSUME Mail!NotRows, NEW m \in Mails, mail_outbox[m] \in Mail!Row
  PROVE  m \in Mail!Stored
BY DEF Mail!NotRows, Mail!Stored

LEMMA MailInitially == ASSUME Mail!Sizes, Mail!NotRows PROVE Mail!Init => MailInv
<1> SUFFICES ASSUME Mail!Init PROVE MailInv
  OBVIOUS
<1>1. Mail!Stored = {}
  BY DEF Mail!Init, Mail!Stored
<1>2. Mail!TypeOK
  BY <1>1 DEF Mail!Init, Mail!TypeOK, Mail!Sizes
<1>3. \A w \in MailWorkers : Mail!At(w, "idle")
  BY DEF Mail!Init, Mail!At, Mail!Idle
<1> QED
  BY <1>2, <1>3 DEF MailInv, Mail!Init, WorkersOK, ClaimsStand, Mail!MailHasOneHolder

----------------------------------------------------------------------------
(* New mail is nobody's.                                                    *)
LEMMA EnqueueKeeps ==
  ASSUME Mail!Sizes, Mail!NotRows, MailInv, NEW m \in Mails, Mail!EnqueueMail(m)
  PROVE  MailInv'
<1> DEFINE row == [status |-> "pending", attempts |-> 0, available |-> mail_clock,
                   claimed |-> 0, created |-> mail_clock]
<1>1. row \in Mail!Row /\ row.status = "pending" /\ row.attempts = 0
  BY DEF MailInv, Mail!TypeOK, Mail!Sizes, Mail!Row
<1> HIDE DEF row
<1>2. /\ mail_outbox' = [mail_outbox EXCEPT ![m] = row]
      /\ UNCHANGED <<mail_worker, mail_drains, mail_clock, mail_faults>>
  BY DEF Mail!EnqueueMail, row
<1>3. Mail!TypeOK'
  <2>1. mail_outbox' \in [Mails -> Mail!Row \cup {None, Gone}]
    BY <1>1, <1>2 DEF MailInv, Mail!TypeOK
  <2>2. \A n \in Mail!Stored' : n = m \/ (n \in Mail!Stored /\ mail_outbox'[n] = mail_outbox[n])
    BY <1>2 DEF MailInv, Mail!TypeOK, Mail!Stored
  <2>3. mail_outbox'[m] = row
    BY <1>2 DEF MailInv, Mail!TypeOK
  <2> QED
    BY <1>1, <1>2, <2>1, <2>2, <2>3 DEF MailInv, Mail!TypeOK, Mail!Sizes
<1>4. ClaimsStand'
  <2> SUFFICES ASSUME NEW w \in MailWorkers, ~Mail!At(w, "idle")
               PROVE  (InTime(w) /\ AsClaimed(w))'
    BY <1>2 DEF ClaimsStand, Mail!At
  <2>1. mail_worker[w].mail # m
    BY DEF MailInv, ClaimsStand, AsClaimed, Mail!EnqueueMail
  <2>2. mail_outbox'[mail_worker[w].mail] = mail_outbox[mail_worker[w].mail]
    BY <1>2, <2>1, Busy DEF MailInv, Mail!TypeOK
  <2> QED
    BY <1>2, <2>2, Busy DEF MailInv, ClaimsStand, AsClaimed, InTime, Mail!Stored, Mail!At
<1> QED
  BY <1>2, <1>3, <1>4 DEF MailInv, WorkersOK, Mail!MailHasOneHolder, Mail!At

(* A mail another process is sending is not due: its claim is not stale.    *)
LEMMA NotDue ==
  ASSUME Mail!Sizes, Mail!NotRows, MailInv, NEW w \in MailWorkers, ~Mail!At(w, "idle")
  PROVE  mail_worker[w].mail \notin Mail!Due
<1> DEFINE m == mail_worker[w].mail
<1> SUFFICES ASSUME m \in Mail!Stored PROVE m \notin Mail!Due
  BY DEF Mail!Due
<1>1. mail_outbox[m].status = "sending" /\ mail_outbox[m].claimed = mail_worker[w].now
  BY DEF MailInv, ClaimsStand, AsClaimed
<1>2. mail_clock <= mail_worker[w].now + SendWithin
  BY DEF MailInv, ClaimsStand, InTime
<1>3. mail_worker[w].now \in Nat /\ mail_clock \in Nat
  BY Busy DEF MailInv, Mail!TypeOK, Mail!Sizes
<1>4. ~(mail_outbox[m].claimed + StaleAfter <= mail_clock)
  BY <1>1, <1>2, <1>3 DEF Mail!Sizes
<1> QED
  BY <1>1, <1>4 DEF Mail!Due

LEMMA ClaimKeeps ==
  ASSUME Mail!Sizes, Mail!NotRows, MailInv, NEW w \in MailWorkers, NEW m \in Mails,
         w \in mail_drains, Mail!ClaimDueMail(w, m)
  PROVE  MailInv'
<1>1. m \in Mail!Due /\ m \in Mail!Stored /\ mail_outbox[m] \in Mail!Row /\ mail_clock \in Nat
  BY StoredIsRow DEF Mail!ClaimDueMail, Mail!Due, MailInv, Mail!TypeOK, Mail!Sizes
<1>2. mail_outbox[m].status \in {"pending", "sending"}
  BY <1>1 DEF Mail!Due
<1> DEFINE row == [mail_outbox[m] EXCEPT !.status = "sending", !.claimed = mail_clock]
           claim == [at |-> "send", mail |-> m, now |-> mail_clock]
<1>3. /\ row \in Mail!Row /\ row.status = "sending" /\ row.claimed = mail_clock
      /\ row.attempts = mail_outbox[m].attempts
  BY <1>1 DEF Mail!Row
<1>4. claim \in Sending /\ claim.at = "send" /\ claim.mail = m /\ claim.now = mail_clock
  BY <1>1 DEF Sending
<1>5. /\ mail_outbox' = [mail_outbox EXCEPT ![m] = row]
      /\ mail_worker' = [mail_worker EXCEPT ![w] = claim]
      /\ UNCHANGED <<mail_drains, mail_clock, mail_faults>>
  BY DEF Mail!ClaimDueMail
<1> HIDE DEF row, claim
<1>6. /\ mail_outbox'[m] = row /\ \A n \in Mails \ {m} : mail_outbox'[n] = mail_outbox[n]
      /\ mail_worker'[w] = claim /\ \A v \in MailWorkers \ {w} : mail_worker'[v] = mail_worker[v]
  BY <1>5 DEF MailInv, Mail!TypeOK, WorkersOK
<1>7. Mail!TypeOK'
  <2>1. mail_outbox' \in [Mails -> Mail!Row \cup {None, Gone}]
    BY <1>3, <1>5 DEF MailInv, Mail!TypeOK
  <2>2. \A n \in Mail!Stored' : n = m \/ (n \in Mail!Stored /\ mail_outbox'[n] = mail_outbox[n])
    BY <1>6 DEF Mail!Stored
  <2>3. mail_outbox[m].attempts # MaxAttempts
    BY <1>1, <1>2 DEF MailInv, Mail!TypeOK
  <2> QED
    BY <1>3, <1>5, <1>6, <2>1, <2>2, <2>3 DEF MailInv, Mail!TypeOK
<1>8. WorkersOK'
  BY <1>4, <1>5 DEF MailInv, WorkersOK
<1>9. ClaimsStand'
  <2> SUFFICES ASSUME NEW v \in MailWorkers, ~Mail!At(v, "idle")'
               PROVE  (InTime(v) /\ AsClaimed(v))'
    BY DEF ClaimsStand
  <2>1. CASE v = w
    <3>1. /\ mail_worker'[v].mail = m /\ mail_worker'[v].now = mail_clock
          /\ mail_worker'[v].at = "send"
      BY <1>4, <1>6, <2>1
    <3>2. InTime(v)'
      BY <1>1, <1>5, <3>1 DEF InTime, Mail!Sizes
    <3>3. mail_outbox'[m] = row /\ row # None
      BY <1>3, <1>6 DEF Mail!NotRows
    <3> QED
      BY <1>3, <3>1, <3>2, <3>3 DEF AsClaimed, Mail!At
  <2>2. CASE v # w
    <3>1. mail_worker'[v] = mail_worker[v] /\ ~Mail!At(v, "idle")
      BY <1>6, <2>2 DEF Mail!At
    <3>2. mail_worker[v].mail # m /\ mail_worker[v].mail \in Mails
      BY <1>1, <3>1, NotDue, Busy DEF MailInv
    <3>3. mail_outbox'[mail_worker[v].mail] = mail_outbox[mail_worker[v].mail]
      BY <1>6, <3>2
    <3> QED
      BY <1>5, <3>1, <3>2, <3>3 DEF MailInv, ClaimsStand, InTime, AsClaimed, Mail!Stored, Mail!At
  <2> QED
    BY <2>1, <2>2
<1>10. Mail!MailHasOneHolder'
  <2>1. \A v \in MailWorkers \ {w} : ~Mail!At(v, "idle") => mail_worker[v].mail # m
    BY <1>1, NotDue
  <2> QED
    BY <1>4, <1>6, <2>1 DEF MailInv, Mail!MailHasOneHolder, Mail!At
<1> QED
  BY <1>7, <1>8, <1>9, <1>10 DEF MailInv

----------------------------------------------------------------------------
(* A step of a process between its claim and its mark, which leaves the     *)
(* outbox alone.                                                            *)
LEMMA WorkKeeps ==
  ASSUME Mail!Sizes, Mail!NotRows, MailInv, NEW w \in MailWorkers, ~Mail!At(w, "idle"),
         NEW state \in {Mail!Idle} \cup Sending \cup Failing,
         state = Mail!Idle \/ /\ state.at # "idle" /\ state.mail = mail_worker[w].mail
                              /\ state.now = mail_worker[w].now
                              /\ state.at = "mark failed" =>
                                   state.attempts = mail_outbox[mail_worker[w].mail].attempts + 1,
         mail_worker' = [mail_worker EXCEPT ![w] = state], UNCHANGED <<mail_outbox, mail_drains, mail_clock>>,
         mail_faults' \in 0..MaxMailFaults
  PROVE  MailInv'
<1>0. Mail!Idle.at = "idle"
  BY DEF Mail!Idle
<1>1. mail_worker'[w] = state /\ \A v \in MailWorkers \ {w} : mail_worker'[v] = mail_worker[v]
  BY DEF MailInv, WorkersOK
<1>2. Mail!TypeOK' /\ WorkersOK'
  <2>1. Mail!TypeOK'
    BY DEF MailInv, Mail!TypeOK, Mail!Stored
  <2>2. w \in mail_drains
    BY <1>0 DEF MailInv, WorkersOK, Mail!At
  <2>3. mail_worker' \in [MailWorkers -> {Mail!Idle} \cup Sending \cup Failing]
    BY DEF MailInv, WorkersOK
  <2>4. \A v \in MailWorkers \ mail_drains : mail_worker'[v] = Mail!Idle
    BY <1>1, <2>2 DEF MailInv, WorkersOK
  <2> QED
    BY <2>1, <2>3, <2>4 DEF WorkersOK
<1>3. ClaimsStand'
  <2> SUFFICES ASSUME NEW v \in MailWorkers, ~Mail!At(v, "idle")'
               PROVE  (InTime(v) /\ AsClaimed(v))'
    BY DEF ClaimsStand
  <2>1. InTime(v) /\ AsClaimed(v)
    BY <1>1 DEF MailInv, ClaimsStand, Mail!At, Mail!Idle
  <2>2. CASE v = w
    <3>1. mail_worker'[v] = state /\ state # Mail!Idle
      BY <1>0, <1>1, <2>2 DEF Mail!At
    <3>2. /\ mail_worker'[v].mail = mail_worker[v].mail /\ mail_worker'[v].now = mail_worker[v].now
          /\ mail_worker'[v].at = "mark failed" =>
               mail_worker'[v].attempts = mail_outbox[mail_worker[v].mail].attempts + 1
      BY <2>2, <3>1
    <3> QED
      BY <2>1, <3>2 DEF InTime, AsClaimed, Mail!Stored, Mail!At
  <2>3. CASE v # w
    BY <1>1, <2>1, <2>3 DEF InTime, AsClaimed, Mail!Stored, Mail!At
  <2> QED
    BY <2>2, <2>3
<1>4. Mail!MailHasOneHolder'
  <2>1. \A v \in MailWorkers : ~Mail!At(v, "idle")' =>
          ~Mail!At(v, "idle") /\ mail_worker'[v].mail = mail_worker[v].mail
    <3> SUFFICES ASSUME NEW v \in MailWorkers, mail_worker'[v].at # "idle"
                 PROVE  mail_worker[v].at # "idle" /\ mail_worker'[v].mail = mail_worker[v].mail
      BY DEF Mail!At
    <3>1. CASE v = w
      BY <1>0, <1>1, <3>1 DEF Mail!At
    <3>2. CASE v # w
      BY <1>1, <3>2
    <3> QED
      BY <3>1, <3>2
  <2> QED
    BY <2>1 DEF MailInv, Mail!MailHasOneHolder
<1> QED
  BY <1>2, <1>3, <1>4 DEF MailInv

LEMMA SendKeeps ==
  ASSUME Mail!Sizes, Mail!NotRows, MailInv, NEW w \in MailWorkers, Mail!Send(w) PROVE MailInv'
<1>1. PICK stage \in {"mark sent", "read attempts"} :
        mail_worker' = [mail_worker EXCEPT ![w] = [mail_worker[w] EXCEPT !.at = stage]]
  BY DEF Mail!Send
<1> DEFINE state == [mail_worker[w] EXCEPT !.at = stage]
<1>2. ~Mail!At(w, "idle") /\ mail_worker[w] \in Sending
  BY Busy DEF Mail!Send, Mail!At, MailInv, Failing
<1>3. /\ state \in Sending /\ state.at = stage /\ state.mail = mail_worker[w].mail
      /\ state.now = mail_worker[w].now
  BY <1>1, <1>2 DEF Sending
<1> QED
  BY <1>1, <1>2, <1>3, WorkKeeps DEF Mail!Send, MailInv, Mail!TypeOK

LEMMA ReadKeeps ==
  ASSUME Mail!Sizes, Mail!NotRows, MailInv, NEW w \in MailWorkers, Mail!ReadAttempts(w)
  PROVE  MailInv'
<1> DEFINE m == mail_worker[w].mail
           failing == [at |-> "mark failed", mail |-> m, now |-> mail_worker[w].now,
                       attempts |-> mail_outbox[m].attempts + 1]
           state == IF m \in Mail!Stored THEN failing ELSE Mail!Idle
<1>1. ~Mail!At(w, "idle") /\ mail_worker' = [mail_worker EXCEPT ![w] = state]
  BY DEF Mail!ReadAttempts, Mail!At
<1>2. m \in Mail!Stored => failing \in Failing
  <2> SUFFICES ASSUME m \in Mail!Stored PROVE failing \in Failing
    OBVIOUS
  <2>1. m \in Mails /\ mail_worker[w].now \in Nat
    BY <1>1, Busy DEF MailInv
  <2>2. mail_outbox[m].attempts \in 0..MaxAttempts
    BY StoredIsRow DEF MailInv, Mail!Row
  <2>3. mail_outbox[m].attempts + 1 \in Nat \ {0}
    BY <2>2, SMTT(30) DEF Mail!Sizes
  <2> QED
    BY <2>1, <2>3 DEF Failing
<1>3. state \in {Mail!Idle} \cup Sending \cup Failing
  BY <1>2
<1>4. state = Mail!Idle \/ /\ state.at # "idle" /\ state.mail = mail_worker[w].mail
                           /\ state.now = mail_worker[w].now
                           /\ state.at = "mark failed" =>
                                state.attempts = mail_outbox[mail_worker[w].mail].attempts + 1
  OBVIOUS
<1> HIDE DEF state
<1> QED
  BY <1>1, <1>3, <1>4, WorkKeeps DEF Mail!ReadAttempts, MailInv, Mail!TypeOK

LEMMA MailFaultKeeps ==
  ASSUME Mail!Sizes, Mail!NotRows, MailInv, NEW w \in MailWorkers, Mail!Fault(w) PROVE MailInv'
<1>1. mail_faults' \in 0..MaxMailFaults
  BY DEF Mail!Fault, MailInv, Mail!TypeOK, Mail!Sizes
<1> QED
  BY <1>1, WorkKeeps DEF Mail!Fault, Mail!Release

(* A mark goes to the row of the process that makes it, or to none.         *)
LEMMA MarkKeeps ==
  ASSUME Mail!Sizes, Mail!NotRows, MailInv, NEW w \in MailWorkers, ~Mail!At(w, "idle"), NEW row,
         mail_worker[w].mail \in Mail!Stored =>
           row \in Mail!Row /\ (row.status = "dead" <=> row.attempts = MaxAttempts),
         Mail!Update(w, row), Mail!Release(w), UNCHANGED <<mail_drains, mail_clock, mail_faults>>
  PROVE  MailInv'
<1> DEFINE m == mail_worker[w].mail
<1>1. m \in Mails
  BY Busy DEF MailInv
<1>2. mail_worker'[w] = Mail!Idle /\ \A v \in MailWorkers \ {w} : mail_worker'[v] = mail_worker[v]
  BY DEF MailInv, WorkersOK, Mail!Release
<1>3. \A n \in Mails \ {m} : mail_outbox'[n] = mail_outbox[n]
  BY DEF Mail!Update, MailInv, Mail!TypeOK
<1>4. IF m \in Mail!Stored THEN mail_outbox'[m] = row ELSE mail_outbox' = mail_outbox
  BY <1>1 DEF Mail!Update, MailInv, Mail!TypeOK
<1>5. Mail!TypeOK'
  <2>1. mail_outbox' \in [Mails -> Mail!Row \cup {None, Gone}]
    BY <1>1 DEF Mail!Update, MailInv, Mail!TypeOK
  <2>2. \A n \in Mail!Stored' : \/ n = m /\ m \in Mail!Stored /\ mail_outbox'[n] = row
                                \/ n \in Mail!Stored /\ mail_outbox'[n] = mail_outbox[n]
    BY <1>3, <1>4 DEF Mail!Stored
  <2> QED
    BY <2>1, <2>2 DEF MailInv, Mail!TypeOK
<1>6. WorkersOK'
  BY DEF MailInv, WorkersOK, Mail!Release
<1>7. ClaimsStand'
  <2> SUFFICES ASSUME NEW v \in MailWorkers, ~Mail!At(v, "idle")'
               PROVE  (InTime(v) /\ AsClaimed(v))'
    BY DEF ClaimsStand
  <2>1. v # w /\ ~Mail!At(v, "idle") /\ mail_worker'[v] = mail_worker[v]
    BY <1>2 DEF Mail!At, Mail!Idle
  <2>2. mail_worker[v].mail # m /\ mail_worker[v].mail \in Mails
    BY <2>1, Busy DEF MailInv, Mail!MailHasOneHolder
  <2>3. mail_outbox'[mail_worker[v].mail] = mail_outbox[mail_worker[v].mail]
    BY <1>3, <2>2
  <2> QED
    BY <2>1, <2>2, <2>3 DEF MailInv, ClaimsStand, InTime, AsClaimed, Mail!Stored, Mail!At
<1>8. Mail!MailHasOneHolder'
  BY <1>2 DEF MailInv, Mail!MailHasOneHolder, Mail!At, Mail!Idle
<1> QED
  BY <1>5, <1>6, <1>7, <1>8 DEF MailInv

LEMMA SentKeeps ==
  ASSUME Mail!Sizes, Mail!NotRows, MailInv, NEW w \in MailWorkers, Mail!MarkMailSent(w)
  PROVE  MailInv'
<1> DEFINE m == mail_worker[w].mail
           row == [mail_outbox[m] EXCEPT !.status = "sent"]
<1>1. ~Mail!At(w, "idle")
  BY DEF Mail!MarkMailSent, Mail!At
<1>2. ASSUME m \in Mail!Stored
      PROVE  row \in Mail!Row /\ (row.status = "dead" <=> row.attempts = MaxAttempts)
  <2>1. mail_outbox[m].status = "sending"
    BY <1>1, <1>2 DEF MailInv, ClaimsStand, AsClaimed
  <2>2. mail_outbox[m] \in Mail!Row
    BY <1>2, StoredIsRow DEF MailInv
  <2>3. mail_outbox[m].attempts # MaxAttempts
    BY <1>2, <2>1 DEF MailInv, Mail!TypeOK
  <2> QED
    BY <2>2, <2>3 DEF Mail!Row
<1> QED
  BY <1>1, <1>2, MarkKeeps DEF Mail!MarkMailSent

(* The row of a mail whose sending failed: due again, or dead.              *)
LEMMA FailedRow ==
  ASSUME Mail!Sizes, Mail!NotRows, MailInv, NEW w \in MailWorkers, Mail!MarkMailFailed(w),
         mail_worker[w].mail \in Mail!Stored
  PROVE  LET m == mail_worker[w].mail
             row == Mail!Failed(mail_outbox[m], mail_worker[w].attempts, mail_worker[w].now)
         IN  /\ row \in Mail!Row /\ (row.status = "dead" <=> row.attempts = MaxAttempts)
             /\ row.attempts = mail_outbox[m].attempts + 1 /\ row.status # "sent"
<1> DEFINE m == mail_worker[w].mail
           k == mail_worker[w].attempts
           row == Mail!Failed(mail_outbox[m], k, mail_worker[w].now)
<1>0. ~Mail!At(w, "idle") /\ mail_worker[w] \in Failing
  BY Busy DEF Mail!MarkMailFailed, Mail!At, MailInv, Sending
<1>1. mail_outbox[m].status = "sending" /\ k = mail_outbox[m].attempts + 1
  BY <1>0 DEF MailInv, ClaimsStand, AsClaimed, Mail!MarkMailFailed
<1>2. mail_outbox[m] \in Mail!Row /\ mail_outbox[m].attempts # MaxAttempts
  BY <1>1, StoredIsRow DEF MailInv, Mail!TypeOK
<1>3. k \in 1..MaxAttempts /\ mail_worker[w].now \in Nat
  <2>1. mail_outbox[m].attempts \in 0..MaxAttempts
    BY <1>2 DEF Mail!Row
  <2>2. mail_worker[w].now \in Nat
    BY <1>0 DEF Failing
  <2> QED
    BY <1>1, <1>2, <2>1, <2>2 DEF Mail!Sizes
<1> DEFINE Good == /\ row \in Mail!Row /\ (row.status = "dead" <=> row.attempts = MaxAttempts)
                   /\ row.attempts = k /\ row.status # "sent"
<1>4. ASSUME k >= MaxAttempts PROVE Good
  <2>1. row = [mail_outbox[m] EXCEPT !.status = "dead", !.attempts = k,
               !.available = mail_worker[w].now]
    BY <1>4 DEF Mail!Failed
  <2>2. k = MaxAttempts /\ k \in 0..MaxAttempts
    BY <1>3, <1>4 DEF Mail!Sizes
  <2> HIDE DEF k, row
  <2>3. row \in Mail!Row
    BY <1>2, <1>3, <2>1, <2>2 DEF Mail!Row
  <2>4. row.status = "dead" /\ row.attempts = k
    BY <1>2, <2>1 DEF Mail!Row
  <2> QED
    BY <2>2, <2>3, <2>4
<1>5. ASSUME ~(k >= MaxAttempts) PROVE Good
  <2>1. row = [mail_outbox[m] EXCEPT !.status = "pending", !.attempts = k,
                                !.available = mail_worker[w].now + Backoff[k], !.claimed = 0]
    BY <1>5 DEF Mail!Failed
  <2>2. k \in 1..MaxAttempts - 1 /\ mail_worker[w].now + Backoff[k] \in Nat
    BY <1>3, <1>5 DEF Mail!Sizes
  <2>3. k \in 0..MaxAttempts /\ k # MaxAttempts
    BY <2>2 DEF Mail!Sizes
  <2> HIDE DEF k, row
  <2>4. row \in Mail!Row
    BY <1>2, <2>1, <2>2, <2>3 DEF Mail!Row
  <2>5. row.status = "pending" /\ row.attempts = k
    BY <1>2, <2>1 DEF Mail!Row
  <2> QED
    BY <2>3, <2>4, <2>5
<1>6. Good
  <2> HIDE DEF Good
  <2> QED
    BY <1>4, <1>5
<1> QED
  BY <1>1, <1>6

LEMMA FailedKeeps ==
  ASSUME Mail!Sizes, Mail!NotRows, MailInv, NEW w \in MailWorkers, Mail!MarkMailFailed(w)
  PROVE  MailInv'
<1> DEFINE row == Mail!Failed(mail_outbox[mail_worker[w].mail], mail_worker[w].attempts,
                              mail_worker[w].now)
<1>1. ~Mail!At(w, "idle")
  BY DEF Mail!MarkMailFailed, Mail!At
<1>2. mail_worker[w].mail \in Mail!Stored =>
        row \in Mail!Row /\ (row.status = "dead" <=> row.attempts = MaxAttempts)
  BY FailedRow
<1> HIDE DEF row
<1>3. Mail!Update(w, row) /\ Mail!Release(w) /\ UNCHANGED <<mail_drains, mail_clock, mail_faults>>
  BY DEF Mail!MarkMailFailed, row
<1> QED
  BY <1>1, <1>2, <1>3, MarkKeeps

----------------------------------------------------------------------------
LEMMA PurgeKeeps ==
  ASSUME Mail!Sizes, Mail!NotRows, MailInv, Mail!PurgeMailOutbox PROVE MailInv'
<1>1. /\ mail_outbox' \in [Mails -> Mail!Row \cup {None, Gone}]
      /\ \A m \in Mails : mail_outbox'[m] = mail_outbox[m] \/ mail_outbox'[m] = Gone
      /\ UNCHANGED <<mail_worker, mail_drains, mail_clock, mail_faults>>
  BY DEF Mail!PurgeMailOutbox, MailInv, Mail!TypeOK
<1>2. \A m \in Mail!Stored' : m \in Mail!Stored /\ mail_outbox'[m] = mail_outbox[m]
  BY <1>1 DEF Mail!Stored
<1>3. Mail!TypeOK'
  BY <1>1, <1>2 DEF MailInv, Mail!TypeOK
<1>4. ClaimsStand'
  <2> SUFFICES ASSUME NEW w \in MailWorkers, ~Mail!At(w, "idle")
               PROVE  (InTime(w) /\ AsClaimed(w))'
    BY <1>1 DEF ClaimsStand, Mail!At
  <2>1. mail_worker[w].mail \in Mails /\ InTime(w) /\ AsClaimed(w)
    BY Busy DEF MailInv, ClaimsStand
  <2>2. mail_outbox'[mail_worker[w].mail] # None
    BY <1>1, <2>1 DEF AsClaimed, Mail!NotRows
  <2>3. mail_worker[w].mail \in Mail!Stored' => /\ mail_worker[w].mail \in Mail!Stored
                                                /\ mail_outbox'[mail_worker[w].mail] =
                                                       mail_outbox[mail_worker[w].mail]
    BY <1>2
  <2> QED
    BY <1>1, <2>1, <2>2, <2>3 DEF InTime, AsClaimed, Mail!At
<1> QED
  BY <1>1, <1>3, <1>4 DEF MailInv, WorkersOK, Mail!MailHasOneHolder, Mail!At

(* Time passes only while every send is within its limit.                   *)
LEMMA TickKeeps ==
  ASSUME Mail!Sizes, Mail!NotRows, MailInv, Mail!Tick PROVE MailInv'
<1>1. /\ mail_clock \in Nat /\ mail_clock' = mail_clock + 1
      /\ UNCHANGED <<mail_outbox, mail_worker, mail_drains, mail_faults>>
  BY DEF Mail!Tick, MailInv, Mail!TypeOK
<1>2. Mail!TypeOK'
  BY <1>1 DEF Mail!Tick, MailInv, Mail!TypeOK, Mail!Stored, Mail!Sizes
<1>3. ClaimsStand'
  <2> SUFFICES ASSUME NEW w \in MailWorkers, ~Mail!At(w, "idle")
               PROVE  (InTime(w) /\ AsClaimed(w))'
    BY <1>1 DEF ClaimsStand, Mail!At
  <2>1. InTime(w) /\ AsClaimed(w) /\ mail_worker[w].now \in Nat
    BY Busy DEF MailInv, ClaimsStand
  <2>2. mail_clock < mail_worker[w].now + SendWithin
    <3>1. w \in mail_drains
      BY DEF MailInv, WorkersOK, Mail!At, Mail!Idle
    <3> QED
      BY <3>1 DEF Mail!Tick
  <2>3. InTime(w)'
    BY <1>1, <2>1, <2>2 DEF InTime, Mail!Sizes
  <2> QED
    BY <1>1, <2>1, <2>3 DEF AsClaimed, Mail!Stored, Mail!At
<1> QED
  BY <1>1, <1>2, <1>3 DEF MailInv, WorkersOK, Mail!MailHasOneHolder, Mail!At

LEMMA MailStepKeeps ==
  ASSUME Mail!Sizes, Mail!NotRows
  PROVE  MailInv /\ [Mail!Next]_(Mail!vars) => MailInv'
<1> SUFFICES ASSUME MailInv, [Mail!Next]_(Mail!vars) PROVE MailInv'
  OBVIOUS
<1>1. ASSUME NEW m \in Mails, Mail!EnqueueMail(m) PROVE MailInv'
  BY <1>1, EnqueueKeeps
<1>0. mail_drains \subseteq MailWorkers
  BY DEF MailInv, Mail!TypeOK
<1>2. ASSUME NEW w \in mail_drains, Mail!Drain(w) PROVE MailInv'
  BY <1>0, <1>2, ClaimKeeps, SendKeeps, SentKeeps, ReadKeeps, FailedKeeps DEF Mail!Drain
<1>3. ASSUME NEW w \in mail_drains, Mail!Fault(w) PROVE MailInv'
  BY <1>0, <1>3, MailFaultKeeps
<1>4. CASE Mail!PurgeMailOutbox
  BY <1>4, PurgeKeeps
<1>5. CASE Mail!Tick
  BY <1>5, TickKeeps
<1>6. CASE UNCHANGED Mail!vars
  BY <1>6 DEF Mail!vars, MailInv, Mail!TypeOK, WorkersOK, ClaimsStand, InTime, AsClaimed,
              Mail!MailHasOneHolder, Mail!Stored, Mail!At
<1> QED
  BY <1>1, <1>2, <1>3, <1>4, <1>5, <1>6 DEF Mail!Next

LEMMA MailInvariant == ASSUME Mail!Sizes, Mail!NotRows PROVE Mail!Spec => []MailInv
BY MailInitially, MailStepKeeps, PTL DEF Mail!Spec

----------------------------------------------------------------------------
(* The outbox keeps its types, and a row is dead exactly when its attempts  *)
(* are used up (MarkMailFailed).                                            *)
THEOREM OutboxTyped == Mail!Spec => []Mail!TypeOK
<1> USE MailAssumption
<1>1. MailInv => Mail!TypeOK
  BY DEF MailInv
<1> QED
  BY <1>1, MailInvariant, PTL

(* No two processes are sending one mail: a claim goes stale only after the *)
(* send it was made for has ended (ClaimDueMail).                           *)
THEOREM OneHolder == Mail!Spec => []MailHasOneHolder
<1> USE MailAssumption
<1>1. MailInv => MailHasOneHolder
  BY DEF MailHasOneHolder, Mail!MailHasOneHolder, MailInv
<1> QED
  BY <1>1, MailInvariant, PTL

(* The marks name a row by its id alone, and yet none hits a row that was   *)
(* sent or given up (MarkMailSent, MarkMailFailed).                         *)
THEOREM SettledStays == Mail!Spec => SettledIsFinal
<1> USE MailAssumption
<1> DEFINE Settled(m) == m \in Mail!Stored /\ mail_outbox[m].status \in {"sent", "dead"}
           Kept == \A m \in Mails : Settled(m) => mail_outbox'[m] \in {mail_outbox[m], Gone}
<1>1. MailInv /\ [Mail!Next]_(Mail!vars) => [Kept]_(Mail!vars)
  <2> SUFFICES ASSUME MailInv, Mail!Next, NEW m \in Mails, Settled(m)
               PROVE  mail_outbox'[m] \in {mail_outbox[m], Gone}
    OBVIOUS
  <2>1. ASSUME NEW n \in Mails, Mail!EnqueueMail(n) PROVE mail_outbox'[m] = mail_outbox[m]
    BY <2>1 DEF Mail!EnqueueMail, Mail!Stored, MailInv, Mail!TypeOK
  <2>2. ASSUME NEW w \in MailWorkers, NEW n \in Mails, Mail!ClaimDueMail(w, n)
        PROVE  mail_outbox'[m] = mail_outbox[m]
    BY <2>2 DEF Mail!ClaimDueMail, Mail!Due, MailInv, Mail!TypeOK
  <2>3. ASSUME NEW w \in MailWorkers, ~Mail!At(w, "idle"), NEW row, Mail!Update(w, row)
        PROVE  mail_outbox'[m] = mail_outbox[m]
    <3>1. mail_worker[w].mail # m
      BY <2>3 DEF MailInv, ClaimsStand, AsClaimed
    <3> QED
      BY <2>3, <3>1 DEF Mail!Update, MailInv, Mail!TypeOK
  <2>4. ASSUME NEW w \in MailWorkers, Mail!MarkMailSent(w) \/ Mail!MarkMailFailed(w)
        PROVE  mail_outbox'[m] = mail_outbox[m]
    BY <2>3, <2>4 DEF Mail!MarkMailSent, Mail!MarkMailFailed, Mail!At
  <2>5. ASSUME NEW w \in MailWorkers, Mail!Send(w) \/ Mail!ReadAttempts(w) \/ Mail!Fault(w)
        PROVE  mail_outbox'[m] = mail_outbox[m]
    BY <2>5 DEF Mail!Send, Mail!ReadAttempts, Mail!Fault
  <2>6. CASE Mail!PurgeMailOutbox
    BY <2>6 DEF Mail!PurgeMailOutbox
  <2>7. CASE Mail!Tick
    BY <2>7 DEF Mail!Tick
  <2> QED
    BY <2>1, <2>2, <2>4, <2>5, <2>6, <2>7 DEF Mail!Next, Mail!Drain, MailInv, Mail!TypeOK
<1> QED
  BY <1>1, MailInvariant, PTL DEF Mail!Spec, SettledIsFinal, Mail!SettledIsFinal

----------------------------------------------------------------------------
(* How long a mail may wait.  A set of numbers has a least one, which       *)
(* stands for induction: a table of numbers has a greatest.                 *)
LEMMA LeastNumber ==
  ASSUME NEW T \in SUBSET Nat, T # {}
  PROVE  \E x \in T : \A y \in T : x <= y
<1> DEFINE R == {ss \in Nat \X Nat : ss[1] < ss[2]}
<1>1. IsWellFoundedOn(R, Nat)
  BY NatLessThanWellFounded DEF OpToRel
<1> HIDE DEF R
<1>2. PICK x \in T : \A y \in T : ~(<<y, x>> \in R)
  BY <1>1, WFMin
<1>3. \A y \in T : y < x => <<y, x>> \in R
  BY DEF R
<1>4. \A y \in T : ~(y < x) /\ y \in Nat /\ x \in Nat
  BY <1>2, <1>3
<1> QED
  BY <1>4

LEMMA TableIsBounded ==
  ASSUME NEW K \in Nat, NEW f \in [1..K -> Nat]
  PROVE  \E b \in Nat : \A i \in 1..K : f[i] <= b
<1> DEFINE Bounded(k) == \E b \in Nat : \A i \in 1..k : f[i] <= b
           Bad == {k \in Nat : k <= K /\ ~Bounded(k)}
<1>1. CASE Bad = {}
  <2>1. K <= K
    OBVIOUS
  <2>2. K \notin Bad
    BY <1>1
  <2>3. Bounded(K)
    BY <2>1, <2>2
  <2> QED
    BY <2>3
<1>2. CASE Bad # {}
  <2>1. Bad \in SUBSET Nat
    OBVIOUS
  <2>2. PICK k \in Bad : \A j \in Bad : k <= j
    <3> HIDE DEF Bad
    <3> QED
      BY <1>2, <2>1, LeastNumber
  <2>3. k # 0
    <3>1. \A i \in 1..0 : f[i] <= 0
      OBVIOUS
    <3>2. Bounded(0)
      BY <3>1
    <3> QED
      BY <2>2, <3>2
  <2>4. k - 1 \in Nat /\ k - 1 <= K /\ k - 1 \notin Bad /\ k \in Nat /\ k <= K
    <3>1. k \in Nat /\ k <= K /\ k - 1 < k
      BY <2>2
    <3>2. k - 1 \notin Bad
      <4> HIDE DEF Bad
      <4>1. k - 1 \in Bad => k <= k - 1
        BY <2>2
      <4> QED
        BY <3>1, <4>1
    <3> QED
      BY <2>3, <3>1, <3>2
  <2>5. PICK b \in Nat : \A i \in 1..(k - 1) : f[i] <= b
    BY <2>4
  <2>6. f[k] \in Nat /\ k \in 1..K
    BY <2>2, <2>3
  <2>7. \A i \in 1..k : f[i] <= b + f[k]
    BY <2>2, <2>4, <2>5, <2>6
  <2>8. b + f[k] \in Nat
    BY <2>5, <2>6
  <2>9. Bounded(k)
    BY <2>7, <2>8
  <2> QED
    BY <2>2, <2>9
<1> QED
  BY <1>1, <1>2

LEMMA GreatestNumber ==
  ASSUME NEW S \in SUBSET Nat, S # {}, NEW b \in Nat, \A s \in S : s <= b
  PROVE  \E n \in S : \A k \in S : k <= n
<1> DEFINE T == {b - s : s \in S}
<1>1. T \in SUBSET Nat /\ T # {}
  <2>1. ASSUME NEW s \in S PROVE b - s \in Nat
    <3>1. s \in Nat /\ s <= b
      OBVIOUS
    <3> QED
      BY <3>1
  <2> QED
    BY <2>1, Zenon
<1>2. PICK x \in T : \A y \in T : x <= y
  <2> HIDE DEF T
  <2> QED
    BY <1>1, LeastNumber
<1>3. PICK n \in S : x = b - n
  BY <1>2
<1>4. \A k \in S : b - n <= b - k
  BY <1>2, <1>3
<1> QED
  BY <1>4

(* The longest wait bounds a send and the time after each failure.          *)
LEMMA LongestWaits ==
  ASSUME Mail!Sizes
  PROVE  /\ Mail!LongestWait \in Nat /\ SendWithin <= Mail!LongestWait
         /\ \A i \in 1..(MaxAttempts - 1) : Backoff[i] <= Mail!LongestWait
<1> DEFINE Waits == {SendWithin} \cup Mail!Range(Backoff)
<1>1. /\ MaxAttempts - 1 \in Nat /\ Backoff \in [1..(MaxAttempts - 1) -> Nat]
      /\ SendWithin \in Nat
  BY DEF Mail!Sizes
<1>2. PICK b \in Nat : \A i \in 1..(MaxAttempts - 1) : Backoff[i] <= b
  BY <1>1, TableIsBounded
<1>3. Mail!Range(Backoff) = {Backoff[i] : i \in 1..(MaxAttempts - 1)}
  BY <1>1 DEF Mail!Range
<1>4. Waits \in SUBSET Nat /\ Waits # {} /\ \A s \in Waits : s <= b + SendWithin
  BY <1>1, <1>2, <1>3
<1>5. b + SendWithin \in Nat
  BY <1>1
<1>6. \E n \in Waits : \A k \in Waits : k <= n
  <2> HIDE DEF Waits
  <2> QED
    BY <1>4, <1>5, GreatestNumber
<1>7. Mail!LongestWait \in Waits /\ \A k \in Waits : k <= Mail!LongestWait
  BY <1>6 DEF Mail!LongestWait
<1>8. SendWithin \in Waits /\ \A i \in 1..(MaxAttempts - 1) : Backoff[i] \in Waits
  BY <1>3
<1> HIDE DEF Waits
<1> QED
  BY <1>4, <1>7, <1>8

(* What the attempts of a mail may last, and the time lost to faults.       *)
Attempts(n) == n * Mail!LongestWait
Lost(n) == n * StaleAfter

LEMMA Products ==
  ASSUME NEW l \in Nat
  PROVE  /\ \A n \in Nat : n * l \in Nat /\ (n + 1) * l = n * l + l
         /\ \A n, k \in Nat : n <= k => n * l <= k * l
<1>1. ASSUME NEW n \in Nat PROVE n * l \in Nat /\ (n + 1) * l = n * l + l
  OBVIOUS
<1>2. ASSUME NEW n \in Nat, NEW k \in Nat, n <= k PROVE n * l <= k * l
  <2>1. (k - n) * l \in Nat
    BY <1>1, <1>2
  <2>2. k * l = n * l + (k - n) * l
    BY <1>2
  <2>3. n * l \in Nat /\ k * l \in Nat
    BY <1>1
  <2> QED
    BY <2>1, <2>2, <2>3
<1> QED
  BY <1>1, <1>2

LEMMA Times ==
  ASSUME Mail!Sizes
  PROVE  /\ \A n \in Nat : Attempts(n) \in Nat /\ Attempts(n + 1) = Attempts(n) + Mail!LongestWait
         /\ \A n, k \in Nat : n <= k => Attempts(n) <= Attempts(k)
         /\ \A n \in Nat : Lost(n) \in Nat /\ Lost(n + 1) = Lost(n) + StaleAfter
         /\ \A n, k \in Nat : n <= k => Lost(n) <= Lost(k)
<1>1. Mail!LongestWait \in Nat /\ StaleAfter \in Nat
  BY LongestWaits DEF Mail!Sizes
<1> QED
  BY <1>1, Products DEF Attempts, Lost

(* Mails wait for a process.  The argument follows one of the processes of  *)
(* the installation: while a mail is due, that process is busy with others. *)
First == CHOOSE w \in mail_drains : TRUE

Held(m) == \E w \in MailWorkers : ~Mail!At(w, "idle") /\ mail_worker[w].mail = m

(* How often a mail has been tried: each time takes SendWithin at most.     *)
Turns(n) ==
  IF n \in Mail!Stored
    THEN mail_outbox[n].attempts + (IF mail_outbox[n].status = "sent" THEN 1 ELSE 0)
    ELSE IF mail_outbox[n] = None THEN 0 ELSE IF Held(n) THEN MaxAttempts - 1 ELSE MaxAttempts

Others(m) == (Mails \ {m}) \X (1..MaxAttempts)
Past(m) == {t \in Others(m) : t[2] <= Turns(t[1])}

(* How long the process has been busy with its mail, unless that is m.      *)
Running(m) ==
  IF Mail!At(First, "idle") \/ mail_worker[First].mail = m
    THEN 0 ELSE mail_clock - mail_worker[First].now

(* The time m may have lost to mails before it, and to faults.              *)
Queued(m) == Cardinality(Past(m)) * SendWithin + Running(m)
Late(m) == Lost(mail_faults) + Queued(m)

(* A mail somebody holds has an attempt left.                               *)
LEMMA TurnsTyped ==
  ASSUME Mail!Sizes, MailInv, NEW n \in Mails
  PROVE  Turns(n) \in 0..MaxAttempts /\ (Held(n) => Turns(n) <= MaxAttempts - 1)
<1>1. MaxAttempts \in Nat /\ MaxAttempts - 1 \in Nat
  BY DEF Mail!Sizes
<1>2. CASE n \in Mail!Stored
  <2>1. mail_outbox[n] \in Mail!Row
    BY <1>2, StoredIsRow DEF MailInv
  <2>2. /\ mail_outbox[n].attempts \in 0..MaxAttempts
        /\ (mail_outbox[n].status = "dead" <=> mail_outbox[n].attempts = MaxAttempts)
    BY <1>2, <2>1 DEF MailInv, Mail!TypeOK, Mail!Row
  <2>3. Turns(n) = mail_outbox[n].attempts + (IF mail_outbox[n].status = "sent" THEN 1 ELSE 0)
    BY <1>2 DEF Turns
  <2>4. ASSUME Held(n) PROVE mail_outbox[n].status = "sending"
    BY <1>2, <2>4 DEF Held, MailInv, ClaimsStand, AsClaimed
  <2> HIDE DEF Turns
  <2> QED
    BY <1>1, <2>2, <2>3, <2>4
<1>3. CASE n \notin Mail!Stored
  <2>1. Held(n) => mail_outbox[n] # None
    BY DEF Held, MailInv, ClaimsStand, AsClaimed
  <2> QED
    BY <1>1, <1>3, <2>1 DEF Turns
<1> QED
  BY <1>2, <1>3

LEMMA FirstOK ==
  ASSUME MailInv PROVE First \in mail_drains /\ First \in MailWorkers
<1>1. mail_drains \subseteq MailWorkers /\ \E w \in mail_drains : TRUE
  <2>1. mail_drains \in (SUBSET MailWorkers) \ {{}}
    BY DEF MailInv, Mail!TypeOK
  <2>2. mail_drains \subseteq MailWorkers /\ mail_drains # {}
    BY <2>1
  <2> QED
    BY <2>2
<1>2. First \in mail_drains
  BY <1>1, Zenon DEF First
<1> QED
  BY <1>1, <1>2

(* There are only so many turns.                                            *)
LEMMA PastIsFinite ==
  ASSUME Mail!Sizes, IsFiniteSet(Mails), NEW m \in Mails
  PROVE  /\ IsFiniteSet(Others(m)) /\ Cardinality(Others(m)) = (Cardinality(Mails) - 1) * MaxAttempts
         /\ IsFiniteSet(Past(m)) /\ Cardinality(Past(m)) \in Nat
         /\ Cardinality(Past(m)) <= Cardinality(Others(m))
         /\ Cardinality(Others(m)) \in Nat
         /\ Past(m) # Others(m) => Cardinality(Past(m)) + 1 <= Cardinality(Others(m))
<1>1. IsFiniteSet(Mails \ {m}) /\ Cardinality(Mails \ {m}) = Cardinality(Mails) - 1
  BY FS_RemoveElement
<1>2. IsFiniteSet(1..MaxAttempts) /\ Cardinality(1..MaxAttempts) = MaxAttempts
  <2>1. 1 \in Int /\ MaxAttempts \in Int /\ MaxAttempts >= 1
    BY DEF Mail!Sizes
  <2>2. Cardinality(1..MaxAttempts) = MaxAttempts - 1 + 1
    BY <2>1, FS_Interval
  <2> QED
    BY <2>1, <2>2, FS_Interval
<1>3. /\ IsFiniteSet(Others(m))
      /\ Cardinality(Others(m)) = (Cardinality(Mails) - 1) * MaxAttempts
  <2>1. /\ IsFiniteSet((Mails \ {m}) \X (1..MaxAttempts))
        /\ Cardinality((Mails \ {m}) \X (1..MaxAttempts))
             = Cardinality(Mails \ {m}) * Cardinality(1..MaxAttempts)
    BY <1>1, <1>2, FS_Product, Zenon
  <2> QED
    BY <1>1, <1>2, <2>1 DEF Others
<1>4. Past(m) \subseteq Others(m)
  BY DEF Past
<1>5. /\ IsFiniteSet(Past(m)) /\ Cardinality(Past(m)) <= Cardinality(Others(m))
      /\ Cardinality(Others(m)) = Cardinality(Past(m)) => Others(m) = Past(m)
  BY <1>3, <1>4, FS_Subset
<1>6. Cardinality(Past(m)) \in Nat /\ Cardinality(Others(m)) \in Nat
  BY <1>3, <1>5, FS_CardinalityType
<1>7. Past(m) # Others(m) => Cardinality(Past(m)) + 1 <= Cardinality(Others(m))
  BY <1>5, <1>6
<1> QED
  BY <1>3, <1>5, <1>6, <1>7

LEMMA RunningBounded ==
  ASSUME Mail!Sizes, MailInv, NEW m \in Mails
  PROVE  /\ Running(m) \in Nat /\ Running(m) <= SendWithin
         /\ Running(m) # 0 => ~Mail!At(First, "idle") /\ mail_worker[First].mail # m
<1>1. First \in MailWorkers /\ SendWithin \in Nat
  BY FirstOK DEF Mail!Sizes
<1>2. CASE Mail!At(First, "idle") \/ mail_worker[First].mail = m
  BY <1>1, <1>2 DEF Running
<1>3. CASE ~(Mail!At(First, "idle") \/ mail_worker[First].mail = m)
  <2>1. InTime(First) /\ mail_worker[First].now \in Nat /\ mail_clock \in Nat
    BY <1>1, <1>3, Busy DEF MailInv, ClaimsStand, Mail!TypeOK
  <2>2. Running(m) = mail_clock - mail_worker[First].now
    BY <1>3 DEF Running
  <2> HIDE DEF Running
  <2> QED
    BY <1>1, <1>3, <2>1, <2>2 DEF InTime
<1> QED
  BY <1>2, <1>3

(* The queue before a mail is never longer than all turns of all others.    *)
LEMMA QueuedBounded ==
  ASSUME Mail!Sizes, IsFiniteSet(Mails), MailInv, NEW m \in Mails
  PROVE  /\ Queued(m) \in Nat
         /\ Queued(m) <= (Cardinality(Mails) - 1) * MaxAttempts * SendWithin
<1>1. /\ Cardinality(Past(m)) \in Nat /\ Cardinality(Others(m)) \in Nat
      /\ Cardinality(Others(m)) = (Cardinality(Mails) - 1) * MaxAttempts
      /\ Cardinality(Past(m)) <= Cardinality(Others(m))
      /\ SendWithin \in Nat
  BY PastIsFinite DEF Mail!Sizes
<1>2. Running(m) \in Nat /\ Running(m) <= SendWithin
  BY RunningBounded
<1>3. /\ Cardinality(Past(m)) * SendWithin \in Nat
      /\ (Cardinality(Past(m)) + 1) * SendWithin = Cardinality(Past(m)) * SendWithin + SendWithin
      /\ Cardinality(Past(m)) * SendWithin <= Cardinality(Others(m)) * SendWithin
  BY <1>1, Products
<1>4. CASE Running(m) = 0
  <2>1. Queued(m) = Cardinality(Past(m)) * SendWithin
    BY <1>3, <1>4 DEF Queued
  <2> QED
    BY <1>1, <1>3, <2>1
<1>5. CASE Running(m) # 0
  <2> DEFINE n == mail_worker[First].mail
  <2>1. First \in MailWorkers /\ ~Mail!At(First, "idle") /\ n # m
    BY <1>5, RunningBounded, FirstOK
  <2>2. n \in Mails /\ Held(n)
    BY <2>1, Busy DEF Held, MailInv
  <2> HIDE DEF n
  <2>3. Turns(n) \in 0..MaxAttempts /\ Turns(n) <= MaxAttempts - 1 /\ MaxAttempts \in Nat \ {0}
    BY <2>2, TurnsTyped DEF Mail!Sizes
  <2>4. <<n, MaxAttempts>> \in Others(m) /\ <<n, MaxAttempts>> \notin Past(m)
    BY <2>1, <2>2, <2>3 DEF Others, Past, n
  <2>5. Cardinality(Past(m)) + 1 <= Cardinality(Others(m))
    BY <2>4, PastIsFinite
  <2>6. (Cardinality(Past(m)) + 1) * SendWithin <= Cardinality(Others(m)) * SendWithin
    BY <1>1, <2>5, Products
  <2>7. Queued(m) = Cardinality(Past(m)) * SendWithin + Running(m)
    BY DEF Queued
  <2> QED
    BY <1>1, <1>2, <1>3, <2>6, <2>7
<1> QED
  BY <1>4, <1>5

(* Turns are not given back: not for a row that nothing happens to, ...     *)
LEMMA TurnsKept ==
  ASSUME Mail!Sizes, MailInv, NEW n \in Mails, mail_outbox'[n] = mail_outbox[n],
         Held(n)' => Held(n)
  PROVE  Turns(n) <= Turns(n)'
<1>1. n \in Mail!Stored' <=> n \in Mail!Stored
  BY DEF Mail!Stored
<1>2. MaxAttempts \in Nat /\ Turns(n) \in Nat
  BY TurnsTyped DEF Mail!Sizes
<1>3. CASE n \in Mail!Stored
  <2>1. Turns(n)' = Turns(n)
    BY <1>1, <1>3 DEF Turns
  <2> QED
    BY <1>2, <2>1
<1>4. CASE n \notin Mail!Stored
  <2>1. CASE mail_outbox[n] = None
    BY <1>1, <1>4, <2>1 DEF Turns
  <2>2. CASE mail_outbox[n] # None
    <3>1. /\ Turns(n) = IF Held(n) THEN MaxAttempts - 1 ELSE MaxAttempts
          /\ Turns(n)' = IF Held(n)' THEN MaxAttempts - 1 ELSE MaxAttempts
      BY <1>1, <1>4, <2>2 DEF Turns
    <3> HIDE DEF Turns, Held
    <3> QED
      BY <1>2, <3>1
  <2> QED
    BY <2>1, <2>2
<1> QED
  BY <1>3, <1>4

(* The holder of a mail, while it sends it.                                 *)
LEMMA Holding ==
  ASSUME MailInv, NEW w \in MailWorkers, ~Mail!At(w, "idle"), mail_worker[w].mail \in Mail!Stored
  PROVE  LET m == mail_worker[w].mail
         IN  /\ Held(m) /\ mail_outbox[m].status = "sending"
             /\ mail_outbox[m].claimed = mail_worker[w].now
             /\ mail_clock <= mail_worker[w].now + SendWithin
             /\ Mail!At(w, "mark failed") => mail_worker[w].attempts = mail_outbox[m].attempts + 1
BY DEF MailInv, ClaimsStand, AsClaimed, InTime, Held

LEMMA RowStays ==
  ASSUME Mail!NotRows, NEW m \in Mails, mail_outbox'[m] \in Mail!Row PROVE m \in Mail!Stored'
BY DEF Mail!NotRows, Mail!Stored

(* ... not by a claim, a purge or new mail, ...                             *)
LEMMA TurnsOfClaimed ==
  ASSUME Mail!Sizes, Mail!NotRows, MailInv, NEW w \in MailWorkers, NEW m \in Mails,
         Mail!ClaimDueMail(w, m), NEW n \in Mails
  PROVE  Turns(n) <= Turns(n)'
<1>1. /\ mail_outbox' = [mail_outbox EXCEPT ![m].status = "sending", ![m].claimed = mail_clock]
      /\ mail_worker' = [mail_worker EXCEPT ![w] = [at |-> "send", mail |-> m, now |-> mail_clock]]
      /\ m \in Mail!Stored /\ m \in Mail!Due /\ mail_outbox[m] \in Mail!Row
      /\ mail_outbox \in [Mails -> Mail!Row \cup {None, Gone}] /\ WorkersOK
  BY StoredIsRow DEF Mail!ClaimDueMail, Mail!Due, MailInv, Mail!TypeOK
<1>2. CASE n = m
  <2>1. mail_outbox'[m] = [mail_outbox[m] EXCEPT !.status = "sending", !.claimed = mail_clock]
    BY <1>1
  <2>2. /\ mail_outbox'[m].attempts = mail_outbox[m].attempts /\ mail_outbox'[m].status = "sending"
        /\ mail_outbox[m].attempts \in Nat /\ mail_outbox[m].status # "sent"
    BY <1>1, <2>1 DEF Mail!Row, Mail!Due
  <2>3. mail_clock \in Nat
    BY DEF MailInv, Mail!TypeOK, Mail!Sizes
  <2>4. mail_outbox'[m] \in Mail!Row
    BY <1>1, <2>1, <2>3 DEF Mail!Row
  <2>5. m \in Mail!Stored'
    BY <2>4 DEF Mail!Stored, Mail!NotRows
  <2>6. Turns(m) = mail_outbox[m].attempts + 0 /\ Turns(m)' = mail_outbox[m].attempts + 0
    BY <1>1, <2>2, <2>5 DEF Turns
  <2> QED
    BY <1>2, <2>2, <2>6
<1>3. CASE n # m
  <2>1. mail_outbox'[n] = mail_outbox[n]
    BY <1>1, <1>3
  <2>2. Held(n)' => Held(n)
    BY <1>1, <1>3 DEF Held, Mail!At, WorkersOK
  <2> QED
    BY <2>1, <2>2, TurnsKept
<1> QED
  BY <1>2, <1>3

LEMMA TurnsOfPurged ==
  ASSUME Mail!Sizes, Mail!NotRows, MailInv, Mail!PurgeMailOutbox, NEW n \in Mails
  PROVE  Turns(n) <= Turns(n)'
<1>1. mail_outbox'[n] \in {mail_outbox[n], Gone} /\ UNCHANGED mail_worker
  BY DEF Mail!PurgeMailOutbox, MailInv, Mail!TypeOK
<1>2. Held(n)' <=> Held(n)
  BY <1>1 DEF Held, Mail!At
<1>3. CASE mail_outbox'[n] = mail_outbox[n]
  BY <1>2, <1>3, TurnsKept
<1>4. CASE mail_outbox'[n] = Gone
  <2>1. n \notin Mail!Stored' /\ mail_outbox'[n] # None
    BY <1>4 DEF Mail!Stored, Mail!NotRows
  <2>2. Turns(n)' = IF Held(n) THEN MaxAttempts - 1 ELSE MaxAttempts
    BY <1>2, <2>1 DEF Turns
  <2>3. Turns(n) \in 0..MaxAttempts /\ (Held(n) => Turns(n) <= MaxAttempts - 1)
    BY TurnsTyped
  <2>4. MaxAttempts \in Nat
    BY DEF Mail!Sizes
  <2> HIDE DEF Turns, Held
  <2> QED
    BY <2>2, <2>3, <2>4
<1> QED
  BY <1>1, <1>3, <1>4

LEMMA TurnsOfNew ==
  ASSUME Mail!Sizes, Mail!NotRows, MailInv, NEW m \in Mails, Mail!EnqueueMail(m), NEW n \in Mails
  PROVE  Turns(n) <= Turns(n)'
<1> DEFINE row == [status |-> "pending", attempts |-> 0, available |-> mail_clock,
                   claimed |-> 0, created |-> mail_clock]
<1>1. /\ mail_outbox' = [mail_outbox EXCEPT ![m] = row] /\ UNCHANGED mail_worker
      /\ mail_outbox \in [Mails -> Mail!Row \cup {None, Gone}] /\ mail_outbox[m] = None
      /\ mail_clock \in Nat
  BY DEF Mail!EnqueueMail, MailInv, Mail!TypeOK, Mail!Sizes
<1>2. CASE n = m
  <2>1. Turns(m) = 0
    BY <1>1 DEF Turns, Mail!Stored
  <2>2. row \in Mail!Row /\ mail_outbox'[m] = row
    BY <1>1 DEF Mail!Row, Mail!Sizes
  <2>3. m \in Mail!Stored'
    BY <2>2 DEF Mail!Stored, Mail!NotRows
  <2>4. Turns(m)' = 0
    BY <2>2, <2>3 DEF Turns
  <2> QED
    BY <1>2, <2>1, <2>4
<1>3. CASE n # m
  <2>1. mail_outbox'[n] = mail_outbox[n] /\ (Held(n)' => Held(n))
    BY <1>1, <1>3 DEF Held, Mail!At
  <2> QED
    BY <2>1, TurnsKept
<1> QED
  BY <1>2, <1>3

(* A process that is released holds nothing, and nobody else holds its mail.*)
LEMMA Released ==
  ASSUME MailInv, NEW w \in MailWorkers, ~Mail!At(w, "idle"), Mail!Release(w),
         NEW m \in Mails, m = mail_worker[w].mail
  PROVE  /\ ~Held(m)'
         /\ \A n \in Mails : Held(n)' => Held(n)
         /\ \A v \in MailWorkers : v # w => mail_worker'[v] = mail_worker[v]
         /\ Mail!At(w, "idle")'
<1>1. /\ mail_worker'[w] = Mail!Idle
      /\ \A v \in MailWorkers : v # w => mail_worker'[v] = mail_worker[v]
  BY DEF Mail!Release, MailInv, WorkersOK
<1>2. ~Held(m)'
  BY <1>1 DEF Held, MailInv, Mail!MailHasOneHolder, Mail!At, Mail!Idle
<1>3. \A n \in Mails : Held(n)' => Held(n)
  BY <1>1 DEF Held, Mail!At, Mail!Idle
<1> QED
  BY <1>1, <1>2, <1>3 DEF Mail!At, Mail!Idle

(* ... and each time a process is done with a mail, it has had one more.    *)
LEMMA TurnOfMissing ==
  ASSUME Mail!Sizes, MailInv, NEW w \in MailWorkers, ~Mail!At(w, "idle"), Mail!Release(w),
         NEW m \in Mails, m = mail_worker[w].mail, m \notin Mail!Stored, UNCHANGED mail_outbox
  PROVE  Turns(m) < Turns(m)'
<1>1. Held(m) /\ ~Held(m)' /\ mail_outbox[m] # None
  BY Released DEF Held, MailInv, ClaimsStand, AsClaimed
<1>2. m \notin Mail!Stored /\ m \notin Mail!Stored' /\ mail_outbox'[m] # None
  BY <1>1 DEF Mail!Stored
<1>3. Turns(m) = MaxAttempts - 1
  BY <1>1, <1>2 DEF Turns
<1>4. Turns(m)' = MaxAttempts
  BY <1>1, <1>2 DEF Turns
<1>5. MaxAttempts \in Nat
  BY DEF Mail!Sizes
<1> QED
  BY <1>3, <1>4, <1>5

LEMMA TurnTaken ==
  ASSUME Mail!Sizes, Mail!NotRows, MailInv, NEW w \in MailWorkers,
         Mail!MarkMailSent(w) \/ Mail!MarkMailFailed(w),
         NEW m \in Mails, m = mail_worker[w].mail
  PROVE  (\A n \in Mails : n # m => Turns(n) <= Turns(n)') /\ Turns(m) < Turns(m)'
<1>1. ~Mail!At(w, "idle") /\ Mail!Release(w) /\ \E row : Mail!Update(w, row)
  BY DEF Mail!MarkMailSent, Mail!MarkMailFailed, Mail!At
<1>2. ASSUME NEW n \in Mails, n # m PROVE Turns(n) <= Turns(n)'
  <2>1. mail_outbox'[n] = mail_outbox[n]
    BY <1>1, <1>2 DEF Mail!Update, MailInv, Mail!TypeOK
  <2> QED
    BY <1>1, <2>1, Released, TurnsKept
<1>3. CASE m \notin Mail!Stored
  <2>1. UNCHANGED mail_outbox
    BY <1>1, <1>3 DEF Mail!Update
  <2> QED
    BY <1>1, <1>2, <1>3, <2>1, TurnOfMissing
<1>4. CASE m \in Mail!Stored
  <2>1. /\ mail_outbox[m] \in Mail!Row /\ mail_outbox[m].status = "sending"
        /\ mail_outbox \in [Mails -> Mail!Row \cup {None, Gone}]
    BY <1>1, <1>4, Holding, StoredIsRow DEF MailInv, Mail!TypeOK
  <2>2. mail_outbox[m].attempts \in Nat /\ Turns(m) = mail_outbox[m].attempts + 0
    BY <1>4, <2>1 DEF Turns, Mail!Row
  <2>3. /\ mail_outbox'[m] \in Mail!Row
        /\ mail_outbox'[m].attempts + (IF mail_outbox'[m].status = "sent" THEN 1 ELSE 0)
             = mail_outbox[m].attempts + 1
    <3>1. CASE Mail!MarkMailSent(w)
      <4>1. mail_outbox'[m] = [mail_outbox[m] EXCEPT !.status = "sent"]
        BY <1>4, <2>1, <3>1 DEF Mail!MarkMailSent, Mail!Update
      <4>2. /\ mail_outbox'[m].status = "sent" /\ mail_outbox'[m].attempts = mail_outbox[m].attempts
            /\ mail_outbox'[m] \in Mail!Row
        BY <2>1, <4>1 DEF Mail!Row
      <4> QED
        BY <4>2
    <3>2. CASE Mail!MarkMailFailed(w)
      <4> DEFINE row == Mail!Failed(mail_outbox[m], mail_worker[w].attempts, mail_worker[w].now)
      <4>1. /\ row \in Mail!Row /\ row.attempts = mail_outbox[m].attempts + 1
            /\ row.status # "sent"
        BY <1>4, <3>2, FailedRow
      <4> HIDE DEF row
      <4>2. mail_outbox'[m] = row
        BY <1>4, <2>1, <3>2 DEF Mail!MarkMailFailed, Mail!Update, row
      <4> QED
        BY <2>2, <4>1, <4>2
    <3> QED
      BY <3>1, <3>2
  <2>4. Turns(m)' = mail_outbox[m].attempts + 1
    BY <2>3, RowStays DEF Turns
  <2>5. Turns(m) < Turns(m)'
    BY <2>2, <2>4
  <2> QED
    BY <1>1, <1>2, <2>5
<1> QED
  BY <1>3, <1>4

(* What a process does with the mail it holds, short of a mark.             *)
LEMMA AtWork ==
  ASSUME MailInv, NEW w \in MailWorkers, Mail!Send(w) \/ Mail!ReadAttempts(w)
  PROVE  /\ UNCHANGED <<mail_outbox, mail_drains, mail_clock, mail_faults>> /\ ~Mail!At(w, "idle")
         /\ \A v \in MailWorkers : v # w => mail_worker'[v] = mail_worker[v]
         /\ \/ /\ mail_worker'[w].mail = mail_worker[w].mail
               /\ mail_worker'[w].now = mail_worker[w].now /\ mail_worker'[w].at # "idle"
            \/ mail_worker[w].mail \notin Mail!Stored /\ Mail!Release(w)
<1>1. UNCHANGED <<mail_outbox, mail_drains, mail_clock, mail_faults>> /\ ~Mail!At(w, "idle")
  BY DEF Mail!Send, Mail!ReadAttempts, Mail!At
<1>2. \A v \in MailWorkers : v # w => mail_worker'[v] = mail_worker[v]
  BY DEF Mail!Send, Mail!ReadAttempts, MailInv, WorkersOK
<1>3. CASE Mail!Send(w)
  <2>1. PICK stage \in {"mark sent", "read attempts"} :
          mail_worker' = [mail_worker EXCEPT ![w] = [mail_worker[w] EXCEPT !.at = stage]]
    BY <1>3 DEF Mail!Send
  <2>2. mail_worker'[w] = [mail_worker[w] EXCEPT !.at = stage]
    BY <2>1 DEF MailInv, WorkersOK
  <2>3. mail_worker[w] \in Sending \cup Failing
    BY <1>1, Busy DEF MailInv
  <2>4. /\ mail_worker'[w].mail = mail_worker[w].mail
        /\ mail_worker'[w].now = mail_worker[w].now /\ mail_worker'[w].at # "idle"
    BY <2>2, <2>3 DEF Sending, Failing
  <2> QED
    BY <1>1, <1>2, <2>4
<1>4. CASE Mail!ReadAttempts(w)
  <2>1. CASE mail_worker[w].mail \in Mail!Stored
    <3> DEFINE failing == [at |-> "mark failed", mail |-> mail_worker[w].mail,
                           now |-> mail_worker[w].now,
                           attempts |-> mail_outbox[mail_worker[w].mail].attempts + 1]
    <3>1. /\ failing.mail = mail_worker[w].mail /\ failing.now = mail_worker[w].now
          /\ failing.at = "mark failed"
      OBVIOUS
    <3>2. mail_worker'[w] = failing
      BY <1>4, <2>1 DEF Mail!ReadAttempts, MailInv, WorkersOK
    <3> HIDE DEF failing
    <3>3. /\ mail_worker'[w].mail = mail_worker[w].mail
          /\ mail_worker'[w].now = mail_worker[w].now /\ mail_worker'[w].at # "idle"
      BY <3>1, <3>2
    <3> QED
      BY <1>1, <1>2, <3>3
  <2>2. CASE mail_worker[w].mail \notin Mail!Stored
    <3>1. Mail!Release(w)
      BY <1>4, <2>2 DEF Mail!ReadAttempts, Mail!Release
    <3> QED
      BY <1>1, <1>2, <2>2, <3>1
  <2> QED
    BY <2>1, <2>2
<1> QED
  BY <1>3, <1>4

(* The measures, before and after a step.                                   *)
Measured == \A m \in Mails : Running(m) \in 0..SendWithin /\ Turns(m) \in 0..MaxAttempts

LEMMA Measures == ASSUME Mail!Sizes PROVE MailInv => Measured
<1> SUFFICES ASSUME MailInv, NEW m \in Mails
             PROVE  Running(m) \in 0..SendWithin /\ Turns(m) \in 0..MaxAttempts
  BY DEF Measured
<1>1. Running(m) \in Nat /\ Running(m) <= SendWithin /\ SendWithin \in Nat
  BY RunningBounded DEF Mail!Sizes
<1> QED
  BY <1>1, TurnsTyped

LEMMA MeasuresAfter == ASSUME Mail!Sizes PROVE MailInv' => Measured'
<1>1. MailInv => Measured
  BY Measures
<1> QED
  BY <1>1, PTL

(* A process that is busy with another mail than m goes on, ...             *)
LEMMA RunsOn ==
  ASSUME Mail!Sizes, MailInv, MailInv', NEW m \in Mails, mail_drains' = mail_drains,
         mail_clock' \in Nat, mail_clock <= mail_clock',
         ~Mail!At(First, "idle") /\ mail_worker[First].mail # m =>
           /\ mail_worker'[First].mail = mail_worker[First].mail
           /\ mail_worker'[First].now = mail_worker[First].now
           /\ mail_worker'[First].at # "idle"
  PROVE  /\ Running(m) <= Running(m)'
         /\ ~Mail!At(First, "idle") /\ mail_worker[First].mail # m =>
              Running(m)' = Running(m) + (mail_clock' - mail_clock)
<1>1. First' = First /\ First \in MailWorkers
  BY FirstOK DEF First
<1>2. Running(m)' \in Nat /\ Running(m) \in Nat
  <2>1. Running(m)' \in 0..SendWithin /\ Running(m) \in 0..SendWithin
    BY Measures, MeasuresAfter DEF Measured
  <2> QED
    BY <2>1
<1>3. CASE Mail!At(First, "idle") \/ mail_worker[First].mail = m
  <2>1. Running(m) = 0
    BY <1>3 DEF Running
  <2> QED
    BY <1>2, <1>3, <2>1
<1>4. CASE ~Mail!At(First, "idle") /\ mail_worker[First].mail # m
  <2>1. Running(m) = mail_clock - mail_worker[First].now
    BY <1>4 DEF Running
  <2>2. ~Mail!At(First, "idle")' /\ mail_worker'[First'].mail # m
    BY <1>1, <1>4 DEF Mail!At
  <2>3. Running(m)' = mail_clock' - mail_worker'[First'].now
    BY <2>2 DEF Running
  <2>4. mail_worker'[First'].now = mail_worker[First].now
    BY <1>1, <1>4
  <2>5. mail_worker[First].now \in Nat /\ mail_clock \in Nat
    BY <1>1, <1>4, Busy DEF MailInv, Mail!TypeOK
  <2> HIDE DEF Running, First
  <2> QED
    BY <2>1, <2>3, <2>4, <2>5
<1> QED
  BY <1>3, <1>4

(* ... or is done with it, and that mail has had a turn.                    *)
LEMMA QueueGrows ==
  ASSUME Mail!Sizes, IsFiniteSet(Mails), MailInv, MailInv', NEW m \in Mails,
         \A n \in Mails : Turns(n) <= Turns(n)',
         Running(m) <= Running(m)' \/ \E n \in Mails \ {m} : Turns(n) < Turns(n)'
  PROVE  /\ Queued(m) \in Nat /\ Queued(m)' \in Nat /\ Queued(m) <= Queued(m)'
         /\ Running(m)' - Running(m) <= Queued(m)' - Queued(m)
<1> DEFINE before == Cardinality(Past(m))
           after == Cardinality(Past(m)')
<1>0. Measured /\ Measured' /\ SendWithin \in Nat /\ MaxAttempts \in Nat
  BY Measures, MeasuresAfter DEF Mail!Sizes
<1>1. Past(m) \subseteq Past(m)' /\ Past(m)' \subseteq Others(m)
  <2>1. Others(m)' = Others(m)
    BY DEF Others
  <2>2. ASSUME NEW t \in Past(m) PROVE t \in Past(m)'
    <3>1. t \in Others(m) /\ t[1] \in Mails /\ t[2] \in 1..MaxAttempts /\ t[2] <= Turns(t[1])
      BY <2>2 DEF Past, Others
    <3>2. PICK n \in Mails : n = t[1]
      BY <3>1
    <3>3. Turns(n) \in 0..MaxAttempts /\ Turns(n)' \in 0..MaxAttempts /\ Turns(n) <= Turns(n)'
      BY <1>0 DEF Measured
    <3>4. t[2] <= Turns(n)'
      BY <3>1, <3>2, <3>3
    <3> QED
      BY <2>1, <3>1, <3>2, <3>4 DEF Past
  <2> QED
    BY <2>1, <2>2 DEF Past
<1>2. IsFiniteSet(Past(m)')
  BY <1>1, PastIsFinite, FS_Subset
<1>3. before \in Nat /\ after \in Nat /\ before <= after /\ (before = after => Past(m) = Past(m)')
  BY <1>1, <1>2, FS_Subset, FS_CardinalityType, PastIsFinite
<1>4. /\ Running(m) \in Nat /\ Running(m)' \in Nat
      /\ Running(m) <= SendWithin /\ Running(m)' <= SendWithin
  <2>1. Running(m) \in 0..SendWithin /\ Running(m)' \in 0..SendWithin
    BY <1>0 DEF Measured
  <2> QED
    BY <1>0, <2>1
<1>5. /\ Queued(m) = before * SendWithin + Running(m)
      /\ Queued(m)' = after * SendWithin + Running(m)'
  BY DEF Queued
<1>6. ASSUME NEW n \in Mails \ {m}, Turns(n) < Turns(n)' PROVE before + 1 <= after
  <2>1. Turns(n) \in 0..MaxAttempts /\ Turns(n)' \in 0..MaxAttempts
    BY <1>0 DEF Measured
  <2>2. PICK k \in 1..MaxAttempts : ~(k <= Turns(n)) /\ k <= Turns(n)'
    <3>1. Turns(n) + 1 \in 1..MaxAttempts /\ ~(Turns(n) + 1 <= Turns(n)) /\ Turns(n) + 1 <= Turns(n)'
      BY <1>0, <1>6, <2>1
    <3> QED
      BY <3>1
  <2>3. <<n, k>> \notin Past(m) /\ <<n, k>> \in Past(m)'
    BY <2>2 DEF Past, Others
  <2>4. before # after
    BY <1>3, <2>3
  <2> HIDE DEF before, after
  <2> QED
    BY <1>3, <2>4
<1> HIDE DEF before, after
<1>7. /\ before * SendWithin \in Nat /\ after * SendWithin \in Nat
      /\ before * SendWithin <= after * SendWithin
      /\ (before + 1) * SendWithin = before * SendWithin + SendWithin
      /\ before + 1 <= after => (before + 1) * SendWithin <= after * SendWithin
  BY <1>0, <1>3, Products
<1>8. CASE Running(m) <= Running(m)'
  BY <1>4, <1>5, <1>7, <1>8
<1>9. CASE \E n \in Mails \ {m} : Turns(n) < Turns(n)'
  <2>1. before + 1 <= after
    BY <1>6, <1>9
  <2> QED
    BY <1>0, <1>4, <1>5, <1>7, <2>1
<1> QED
  BY <1>8, <1>9

(* What m may have lost never shrinks, ...                                  *)
Later(m) == /\ Late(m) \in Nat /\ Late(m)' \in Nat /\ Late(m) <= Late(m)'
            /\ mail_faults = mail_faults' => Running(m)' - Running(m) <= Late(m)' - Late(m)

LEMMA QueueIsLate ==
  ASSUME Mail!Sizes, MailInv, NEW m \in Mails, mail_faults' = mail_faults,
         Queued(m) \in Nat, Queued(m)' \in Nat, Queued(m) <= Queued(m)',
         Running(m)' - Running(m) <= Queued(m)' - Queued(m)
  PROVE  Later(m)
<1>0. mail_faults \in Nat
  BY DEF MailInv, Mail!TypeOK, Mail!Sizes
<1>1. Lost(mail_faults) \in Nat
  BY <1>0, Times
<1>2. Late(m) = Lost(mail_faults) + Queued(m) /\ Late(m)' = Lost(mail_faults) + Queued(m)'
  BY DEF Late, Lost
<1>3. Measured /\ Measured' => Running(m) \in Int /\ Running(m)' \in Int
  BY DEF Measured
<1> HIDE DEF Late, Queued
<1>4. Late(m) \in Nat /\ Late(m)' \in Nat /\ Late(m) <= Late(m)'
  BY <1>1, <1>2
<1>5. Late(m)' - Late(m) = Queued(m)' - Queued(m)
  BY <1>1, <1>2
<1> QED
  BY <1>4, <1>5 DEF Later

(* ... whether a mail is claimed, added, or removed, or time passes, ...    *)
LEMMA LaterByOthers ==
  ASSUME Mail!Sizes, Mail!NotRows, IsFiniteSet(Mails), MailInv, MailInv', NEW m \in Mails,
         \/ \E n \in Mails : Mail!EnqueueMail(n)
         \/ \E w \in mail_drains, n \in Mails : Mail!ClaimDueMail(w, n)
         \/ Mail!PurgeMailOutbox \/ Mail!Tick
  PROVE  Later(m)
<1>0. mail_drains \subseteq MailWorkers /\ mail_clock \in Nat /\ First \in MailWorkers
  BY FirstOK DEF MailInv, Mail!TypeOK, Mail!Sizes
<1>1. \A n \in Mails : Turns(n) <= Turns(n)'
  <2>1. CASE Mail!Tick
    <3>1. \A n \in Mails : mail_outbox'[n] = mail_outbox[n] /\ (Held(n)' => Held(n))
      BY <2>1 DEF Mail!Tick, Held, Mail!At
    <3> QED
      BY <3>1, TurnsKept
  <2>2. CASE \E w \in mail_drains, n \in Mails : Mail!ClaimDueMail(w, n)
    BY <1>0, <2>2, TurnsOfClaimed
  <2> QED
    BY <2>1, <2>2, TurnsOfNew, TurnsOfPurged
<1>2. /\ UNCHANGED <<mail_drains, mail_faults>>
      /\ mail_clock' \in Nat /\ mail_clock <= mail_clock'
  <2>1. UNCHANGED <<mail_drains, mail_faults>> /\ mail_clock' \in {mail_clock, mail_clock + 1}
    BY DEF Mail!EnqueueMail, Mail!ClaimDueMail, Mail!PurgeMailOutbox, Mail!Tick
  <2> QED
    BY <1>0, <2>1
<1>3. ~Mail!At(First, "idle") => mail_worker'[First] = mail_worker[First]
  <2>1. CASE UNCHANGED mail_worker
    BY <2>1
  <2>2. ASSUME NEW w \in mail_drains, NEW n \in Mails, Mail!ClaimDueMail(w, n)
        PROVE  ~Mail!At(First, "idle") => mail_worker'[First] = mail_worker[First]
    BY <1>0, <2>2 DEF Mail!ClaimDueMail, MailInv, WorkersOK
  <2> QED
    BY <2>1, <2>2 DEF Mail!EnqueueMail, Mail!PurgeMailOutbox, Mail!Tick
<1>4. Running(m) <= Running(m)'
  BY <1>2, <1>3, RunsOn DEF Mail!At
<1>5. /\ Queued(m) \in Nat /\ Queued(m)' \in Nat /\ Queued(m) <= Queued(m)'
      /\ Running(m)' - Running(m) <= Queued(m)' - Queued(m)
  BY <1>1, <1>4, QueueGrows
<1> QED
  BY <1>2, <1>5, QueueIsLate

(* ... or a process works on a mail and is done with it, ...                *)
LEMMA LaterByWork ==
  ASSUME Mail!Sizes, Mail!NotRows, IsFiniteSet(Mails), MailInv, MailInv', NEW m \in Mails,
         NEW w \in MailWorkers, Mail!Send(w) \/ Mail!ReadAttempts(w)
  PROVE  Later(m)
<1>0. First \in MailWorkers /\ mail_clock \in Nat
  BY FirstOK DEF MailInv, Mail!TypeOK, Mail!Sizes
<1>1. /\ UNCHANGED <<mail_outbox, mail_drains, mail_clock, mail_faults>> /\ ~Mail!At(w, "idle")
      /\ \A v \in MailWorkers : v # w => mail_worker'[v] = mail_worker[v]
      /\ \/ /\ mail_worker'[w].mail = mail_worker[w].mail
            /\ mail_worker'[w].now = mail_worker[w].now /\ mail_worker'[w].at # "idle"
         \/ mail_worker[w].mail \notin Mail!Stored /\ Mail!Release(w)
  BY AtWork
<1>2. PICK k \in Mails : k = mail_worker[w].mail
  BY <1>1, Busy DEF MailInv
<1>3. ASSUME NEW n \in Mails PROVE Turns(n) <= Turns(n)'
  <2>1. Held(n)' => Held(n)
    <3>1. CASE Mail!Release(w)
      BY <1>1, <1>2, <3>1, Released
    <3>2. CASE /\ mail_worker'[w].mail = mail_worker[w].mail /\ mail_worker'[w].at # "idle"
      BY <1>1, <3>2 DEF Held, Mail!At
    <3> QED
      BY <1>1, <3>1, <3>2
  <2>2. mail_outbox'[n] = mail_outbox[n]
    BY <1>1
  <2> QED
    BY <2>1, <2>2, TurnsKept
<1>4. Running(m) <= Running(m)' \/ \E n \in Mails \ {m} : Turns(n) < Turns(n)'
  <2>1. CASE First # w \/ mail_worker[w].mail = m \/ ~Mail!Release(w)
    <3>1. ~Mail!At(First, "idle") /\ mail_worker[First].mail # m =>
            /\ mail_worker'[First].mail = mail_worker[First].mail
            /\ mail_worker'[First].now = mail_worker[First].now
            /\ mail_worker'[First].at # "idle"
      BY <1>0, <1>1, <2>1 DEF Mail!At
    <3>2. mail_drains' = mail_drains /\ mail_clock' \in Nat /\ mail_clock <= mail_clock'
      BY <1>0, <1>1
    <3> QED
      BY <3>1, <3>2, RunsOn
  <2>2. CASE mail_worker[w].mail # m /\ Mail!Release(w) /\ First = w
    <3>1. CASE mail_worker[w].mail \notin Mail!Stored
      BY <1>1, <1>2, <2>2, <3>1, TurnOfMissing
    <3>2. CASE mail_worker[w].mail \in Mail!Stored
      <4>1. ~Mail!At(w, "idle")' \/ ~Mail!Release(w)
        BY <1>1, <3>2 DEF Mail!At
      <4>2. Mail!At(w, "idle")'
        BY <1>1, <1>2, <2>2, Released
      <4> QED
        BY <2>2, <4>1, <4>2
    <3> QED
      BY <3>1, <3>2
  <2> QED
    BY <2>1, <2>2
<1>5. /\ Queued(m) \in Nat /\ Queued(m)' \in Nat /\ Queued(m) <= Queued(m)'
      /\ Running(m)' - Running(m) <= Queued(m)' - Queued(m)
  BY <1>3, <1>4, QueueGrows
<1> QED
  BY <1>1, <1>5, QueueIsLate

LEMMA LaterByMark ==
  ASSUME Mail!Sizes, Mail!NotRows, IsFiniteSet(Mails), MailInv, MailInv', NEW m \in Mails,
         NEW w \in MailWorkers, Mail!MarkMailSent(w) \/ Mail!MarkMailFailed(w)
  PROVE  Later(m)
<1>0. First \in MailWorkers /\ mail_clock \in Nat
  BY FirstOK DEF MailInv, Mail!TypeOK, Mail!Sizes
<1>1. /\ UNCHANGED <<mail_drains, mail_clock, mail_faults>> /\ ~Mail!At(w, "idle")
      /\ Mail!Release(w)
  BY DEF Mail!MarkMailSent, Mail!MarkMailFailed, Mail!At
<1>2. PICK k \in Mails : k = mail_worker[w].mail
  BY <1>1, Busy DEF MailInv
<1>3. (\A n \in Mails : n # k => Turns(n) <= Turns(n)') /\ Turns(k) < Turns(k)'
  BY <1>2, TurnTaken
<1>4. Turns(k) <= Turns(k)'
  <2>1. Turns(k) \in 0..MaxAttempts /\ Turns(k)' \in 0..MaxAttempts
    BY Measures, MeasuresAfter DEF Measured
  <2> QED
    BY <1>3, <2>1
<1>5. \A n \in Mails : Turns(n) <= Turns(n)'
  BY <1>3, <1>4
<1>6. Running(m) <= Running(m)' \/ \E n \in Mails \ {m} : Turns(n) < Turns(n)'
  <2>1. CASE First # w \/ k = m
    <3>1. ~Mail!At(First, "idle") /\ mail_worker[First].mail # m =>
            mail_worker'[First] = mail_worker[First]
      BY <1>0, <1>1, <1>2, <2>1, Released
    <3>2. mail_drains' = mail_drains /\ mail_clock' \in Nat /\ mail_clock <= mail_clock'
      BY <1>0, <1>1
    <3> QED
      BY <3>1, <3>2, RunsOn DEF Mail!At
  <2>2. CASE k # m
    BY <1>3, <2>2
  <2> QED
    BY <2>1, <2>2
<1>7. /\ Queued(m) \in Nat /\ Queued(m)' \in Nat /\ Queued(m) <= Queued(m)'
      /\ Running(m)' - Running(m) <= Queued(m)' - Queued(m)
  BY <1>5, <1>6, QueueGrows
<1> QED
  BY <1>1, <1>7, QueueIsLate

(* ... or dies, which costs the mail it held a stale claim.                 *)
LEMMA LaterByFault ==
  ASSUME Mail!Sizes, Mail!NotRows, IsFiniteSet(Mails), MailInv, MailInv', NEW m \in Mails,
         NEW w \in MailWorkers, Mail!Fault(w)
  PROVE  Later(m) /\ (mail_worker[w].mail = m => Late(m) + StaleAfter <= Late(m)')
<1>0. /\ First \in MailWorkers /\ mail_clock \in Nat /\ mail_faults \in Nat
      /\ SendWithin \in Nat /\ StaleAfter \in Nat /\ SendWithin < StaleAfter
  BY FirstOK DEF MailInv, Mail!TypeOK, Mail!Sizes
<1>1. /\ UNCHANGED <<mail_outbox, mail_drains, mail_clock>> /\ ~Mail!At(w, "idle")
      /\ Mail!Release(w) /\ mail_faults' = mail_faults + 1
  BY DEF Mail!Fault
<1>2. PICK k \in Mails : k = mail_worker[w].mail
  BY <1>1, Busy DEF MailInv
<1>3. ASSUME NEW n \in Mails PROVE Turns(n) <= Turns(n)'
  BY <1>1, <1>2, Released, TurnsKept
<1>4. First' = First /\ Others(m)' = Others(m)
  BY <1>1 DEF First, Others
<1>5. Cardinality(Past(m)) \in Nat /\ Cardinality(Past(m)') \in Nat
      /\ Cardinality(Past(m)) <= Cardinality(Past(m)')
  <2>1. ASSUME NEW t \in Past(m) PROVE t \in Past(m)'
    <3>1. t \in Others(m) /\ t[1] \in Mails /\ t[2] \in 1..MaxAttempts /\ t[2] <= Turns(t[1])
      BY DEF Past, Others
    <3>2. PICK n \in Mails : n = t[1]
      BY <3>1
    <3>3. Turns(n) \in 0..MaxAttempts /\ Turns(n)' \in 0..MaxAttempts /\ Turns(n) <= Turns(n)'
      BY <1>3, Measures, MeasuresAfter DEF Measured
    <3>4. t[2] <= Turns(n)'
      BY <3>1, <3>2, <3>3
    <3> QED
      BY <1>4, <3>1, <3>2, <3>4 DEF Past
  <2>2. Past(m) \subseteq Past(m)' /\ Past(m)' \subseteq Others(m)
    BY <1>4, <2>1 DEF Past
  <2>3. IsFiniteSet(Past(m)')
    BY <2>2, PastIsFinite, FS_Subset
  <2> QED
    BY <2>2, <2>3, FS_Subset, FS_CardinalityType, PastIsFinite
<1>6. /\ Running(m) \in Nat /\ Running(m)' \in Nat
      /\ Running(m) <= SendWithin
      /\ k = m => Running(m) <= Running(m)'
  <2>1. Running(m) \in 0..SendWithin /\ Running(m)' \in 0..SendWithin
    BY Measures, MeasuresAfter DEF Measured
  <2>2. ASSUME k = m PROVE Running(m) <= Running(m)'
    <3>1. ~Mail!At(First, "idle") /\ mail_worker[First].mail # m =>
            mail_worker'[First] = mail_worker[First]
      BY <1>0, <1>1, <1>2, <2>2, Released
    <3>2. mail_drains' = mail_drains /\ mail_clock' \in Nat /\ mail_clock <= mail_clock'
      BY <1>0, <1>1
    <3> QED
      BY <3>1, <3>2, RunsOn DEF Mail!At
  <2> QED
    BY <1>0, <2>1, <2>2
<1> DEFINE before == Cardinality(Past(m)) * SendWithin
           after == Cardinality(Past(m)') * SendWithin
<1>7. before \in Nat /\ after \in Nat /\ before <= after
  BY <1>0, <1>5, Products
<1>8. /\ Lost(mail_faults) \in Nat
      /\ Lost(mail_faults + 1) = Lost(mail_faults) + StaleAfter
  BY <1>0, Times
<1>9. /\ Late(m) = Lost(mail_faults) + (before + Running(m))
      /\ Late(m)' = Lost(mail_faults + 1) + (after + Running(m)')
  BY <1>1 DEF Late, Queued, Lost
<1> HIDE DEF before, after
<1>10. /\ Late(m) \in Nat /\ Late(m)' \in Nat /\ Late(m) <= Late(m)'
       /\ k = m => Late(m) + StaleAfter <= Late(m)'
  BY <1>0, <1>6, <1>7, <1>8, <1>9
<1>11. mail_faults # mail_faults'
  BY <1>0, <1>1
<1> QED
  BY <1>2, <1>10, <1>11 DEF Later

LEMMA AllLater ==
  ASSUME Mail!Sizes, Mail!NotRows, IsFiniteSet(Mails), MailInv, Mail!Next, NEW m \in Mails
  PROVE  Later(m)
<1>1. MailInv' /\ mail_drains \subseteq MailWorkers
  BY MailStepKeeps DEF MailInv, Mail!TypeOK
<1> QED
  BY <1>1, LaterByOthers, LaterByWork, LaterByMark, LaterByFault DEF Mail!Next, Mail!Drain

(* As long as a mail is due, time passes only while others have their turns.*)
LEMMA WaitsForOthers ==
  ASSUME Mail!Sizes, Mail!NotRows, IsFiniteSet(Mails), MailInv, Mail!Tick, NEW m \in Mail!Due
  PROVE  Late(m) + 1 <= Late(m)'
<1>1. MailInv' /\ m \in Mails /\ mail_clock \in Nat /\ First \in mail_drains /\ First \in MailWorkers
  BY MailStepKeeps, FirstOK DEF MailInv, Mail!TypeOK, Mail!Sizes, Mail!Next, Mail!Due, Mail!Stored
<1>2. /\ ~Mail!At(First, "idle") /\ mail_clock' = mail_clock + 1
      /\ UNCHANGED <<mail_outbox, mail_worker, mail_drains, mail_faults>>
  BY <1>1 DEF Mail!Tick
<1>3. mail_worker[First].mail # m
  BY <1>1, <1>2, NotDue
<1>4. Running(m)' = Running(m) + (mail_clock' - mail_clock)
  <2>1. mail_clock' \in Nat /\ mail_clock <= mail_clock'
    BY <1>1, <1>2
  <2> QED
    BY <1>1, <1>2, <1>3, <2>1, RunsOn DEF Mail!At
<1>5. Later(m)
  BY <1>1, LaterByOthers
<1>6. Running(m) \in Nat
  BY <1>1, RunningBounded
<1>7. Running(m)' - Running(m) = 1
  BY <1>1, <1>2, <1>4, <1>6
<1>8. Late(m) \in Nat /\ Late(m)' \in Nat /\ 1 <= Late(m)' - Late(m)
  BY <1>2, <1>5, <1>7 DEF Later
<1> QED
  BY <1>8

(* The time by which a mail is in hand again: what its attempts so far may  *)
(* have lasted, and what it lost to faults and to the mails before it.      *)
DueBy(m) == mail_outbox[m].created + Attempts(mail_outbox[m].attempts) + Late(m)

(* A mail waits, is sent, or was being sent by a process that is no more.   *)
OnTime(m) ==
  /\ mail_outbox[m].status = "pending" =>
       mail_outbox[m].available <= DueBy(m) /\ mail_clock <= DueBy(m)
  /\ mail_outbox[m].status = "sending" /\ Held(m) => mail_outbox[m].claimed <= DueBy(m)
  /\ mail_outbox[m].status = "sending" /\ ~Held(m) =>
       /\ mail_outbox[m].claimed + StaleAfter <= DueBy(m)
       /\ mail_clock <= DueBy(m)

AllOnTime == \A m \in Mail!Stored : OnTime(m)

(* A mail that nothing happens to, whatever others meet.                    *)
LEMMA StaysOnTime ==
  ASSUME Mail!Sizes, MailInv, NEW m \in Mail!Stored, OnTime(m), mail_outbox'[m] = mail_outbox[m],
         mail_clock' = mail_clock, Later(m), Held(m)' <=> Held(m)
  PROVE  OnTime(m)'
<1>1. /\ mail_outbox[m] \in Mail!Row /\ mail_clock \in Nat /\ StaleAfter \in Nat
      /\ Late(m) \in Nat /\ Late(m)' \in Nat /\ Late(m) <= Late(m)'
  BY StoredIsRow DEF MailInv, Mail!TypeOK, Mail!Sizes, Later
<1>2. /\ mail_outbox[m].created \in Nat /\ mail_outbox[m].available \in Nat
      /\ mail_outbox[m].claimed \in Nat /\ mail_outbox[m].attempts \in Nat
  BY <1>1 DEF Mail!Row
<1>3. Attempts(mail_outbox[m].attempts) \in Nat
  BY <1>2, Times
<1>4. DueBy(m)' = mail_outbox[m].created + Attempts(mail_outbox[m].attempts) + Late(m)'
  BY DEF DueBy, Attempts
<1>5. DueBy(m) \in Nat /\ DueBy(m)' \in Nat /\ DueBy(m) <= DueBy(m)'
  BY <1>1, <1>2, <1>3, <1>4 DEF DueBy
<1> HIDE DEF DueBy, Held
<1> QED
  BY <1>1, <1>2, <1>5 DEF OnTime

LEMMA EnqueuedOnTime ==
  ASSUME Mail!Sizes, Mail!NotRows, MailInv, AllOnTime, NEW m \in Mails, Mail!EnqueueMail(m),
         \A n \in Mails : Later(n)
  PROVE  AllOnTime'
<1> DEFINE row == [status |-> "pending", attempts |-> 0, available |-> mail_clock,
                   claimed |-> 0, created |-> mail_clock]
<1>1. /\ mail_outbox' = [mail_outbox EXCEPT ![m] = row]
      /\ mail_outbox \in [Mails -> Mail!Row \cup {None, Gone}]
      /\ UNCHANGED <<mail_worker, mail_drains, mail_clock, mail_faults>> /\ mail_clock \in Nat
      /\ mail_faults \in Nat
  BY DEF Mail!EnqueueMail, MailInv, Mail!TypeOK, Mail!Sizes
<1> SUFFICES ASSUME NEW n \in Mail!Stored' PROVE OnTime(n)'
  BY DEF AllOnTime
<1>2. CASE n = m
  <2>1. mail_outbox'[m] = row
    BY <1>1
  <2>2. /\ mail_outbox'[m].status = "pending" /\ mail_outbox'[m].available = mail_clock
        /\ mail_outbox'[m].created = mail_clock /\ mail_outbox'[m].attempts = 0
    BY <2>1
  <2>3. Attempts(0) \in Nat /\ Late(m)' \in Nat
    BY Times DEF Later
  <2>4. DueBy(m)' = mail_clock + Attempts(0) + Late(m)'
    BY <1>1, <2>2 DEF DueBy, Attempts
  <2>5. mail_clock <= DueBy(m)'
    BY <1>1, <2>3, <2>4
  <2> QED
    BY <1>1, <1>2, <2>2, <2>5 DEF OnTime
<1>3. CASE n # m
  <2>1. n \in Mail!Stored /\ mail_outbox'[n] = mail_outbox[n]
    BY <1>1, <1>3 DEF Mail!Stored
  <2>2. (Held(n)' <=> Held(n)) /\ Later(n)
    BY <1>1, <2>1 DEF Held, Mail!At, Mail!Stored
  <2> QED
    BY <1>1, <2>1, <2>2, StaysOnTime DEF AllOnTime
<1> QED
  BY <1>2, <1>3

(* A claim of a mail that waits, or that a process left behind.             *)
LEMMA ClaimedOnTime ==
  ASSUME Mail!Sizes, Mail!NotRows, MailInv, AllOnTime, NEW w \in MailWorkers, NEW m \in Mails,
         Mail!ClaimDueMail(w, m), \A n \in Mails : Later(n)
  PROVE  AllOnTime'
<1>1. /\ mail_outbox' = [mail_outbox EXCEPT ![m].status = "sending", ![m].claimed = mail_clock]
      /\ mail_worker' = [mail_worker EXCEPT ![w] = [at |-> "send", mail |-> m, now |-> mail_clock]]
      /\ UNCHANGED <<mail_drains, mail_clock, mail_faults>> /\ mail_clock \in Nat /\ mail_faults \in Nat
      /\ Mail!At(w, "idle")
      /\ m \in Mail!Due /\ m \in Mail!Stored /\ mail_outbox[m] \in Mail!Row /\ StaleAfter \in Nat
      /\ mail_outbox \in [Mails -> Mail!Row \cup {None, Gone}] /\ WorkersOK
  BY StoredIsRow DEF Mail!ClaimDueMail, Mail!Due, MailInv, Mail!TypeOK, Mail!Sizes
<1>2. /\ mail_worker'[w] = [at |-> "send", mail |-> m, now |-> mail_clock]
      /\ \A v \in MailWorkers : v # w => mail_worker'[v] = mail_worker[v]
  BY <1>1 DEF WorkersOK
<1> SUFFICES ASSUME NEW n \in Mail!Stored' PROVE OnTime(n)'
  BY DEF AllOnTime
<1>3. CASE n = m
  <2>1. mail_outbox'[m] = [mail_outbox[m] EXCEPT !.status = "sending", !.claimed = mail_clock]
    BY <1>1
  <2>2. /\ mail_outbox'[m].status = "sending" /\ mail_outbox'[m].claimed = mail_clock
        /\ mail_outbox'[m].created = mail_outbox[m].created
        /\ mail_outbox'[m].attempts = mail_outbox[m].attempts
    BY <1>1, <2>1 DEF Mail!Row
  <2>3. ~Held(m)
    BY <1>1, NotDue DEF Held
  <2>4. mail_clock <= DueBy(m)
    <3>1. CASE mail_outbox[m].status = "pending"
      BY <1>1, <3>1 DEF AllOnTime, OnTime
    <3>2. CASE mail_outbox[m].status = "sending"
      BY <1>1, <2>3, <3>2 DEF AllOnTime, OnTime
    <3> QED
      BY <1>1, <3>1, <3>2 DEF Mail!Due
  <2>5. mail_clock <= DueBy(m)'
    <3>1. /\ DueBy(m)' = mail_outbox[m].created + Attempts(mail_outbox[m].attempts) + Late(m)'
          /\ DueBy(m) = mail_outbox[m].created + Attempts(mail_outbox[m].attempts) + Late(m)
      BY <2>2 DEF DueBy, Attempts
    <3>2. Late(m) \in Nat /\ Late(m)' \in Nat /\ Late(m) <= Late(m)'
      BY DEF Later
    <3>3. mail_outbox[m].created \in Nat /\ Attempts(mail_outbox[m].attempts) \in Nat
      BY <1>1, Times DEF Mail!Row
    <3> HIDE DEF DueBy
    <3> QED
      BY <1>1, <2>4, <3>1, <3>2, <3>3
  <2>6. Held(m)'
    BY <1>2 DEF Held, Mail!At
  <2> QED
    BY <1>3, <2>2, <2>5, <2>6 DEF OnTime
<1>4. CASE n # m
  <2>1. n \in Mail!Stored /\ mail_outbox'[n] = mail_outbox[n]
    BY <1>1, <1>4 DEF Mail!Stored
  <2>2. Held(n)' <=> Held(n)
    BY <1>1, <1>2, <1>4 DEF Held, Mail!At
  <2>3. OnTime(n) /\ mail_clock' = mail_clock /\ Later(n)
    BY <1>1, <2>1 DEF AllOnTime, Mail!Stored
  <2> QED
    BY <2>1, <2>2, <2>3, StaysOnTime
<1> QED
  BY <1>3, <1>4

(* What a holder does that leaves the mail in its hands, or a row that is   *)
(* no more.                                                                 *)
LEMMA WorkedOnTime ==
  ASSUME Mail!Sizes, MailInv, AllOnTime, NEW w \in MailWorkers, Mail!Send(w) \/ Mail!ReadAttempts(w),
         \A n \in Mails : Later(n)
  PROVE  AllOnTime'
<1>1. /\ UNCHANGED <<mail_outbox, mail_drains, mail_clock, mail_faults>> /\ ~Mail!At(w, "idle")
      /\ \A v \in MailWorkers : v # w => mail_worker'[v] = mail_worker[v]
      /\ \/ mail_worker'[w].mail = mail_worker[w].mail /\ mail_worker'[w].at # "idle"
         \/ mail_worker[w].mail \notin Mail!Stored /\ Mail!Release(w)
  BY AtWork
<1> SUFFICES ASSUME NEW n \in Mail!Stored' PROVE OnTime(n)'
  BY DEF AllOnTime
<1>2. n \in Mail!Stored /\ mail_outbox'[n] = mail_outbox[n]
  BY <1>1 DEF Mail!Stored
<1>3. Held(n)' <=> Held(n)
  <2>1. CASE mail_worker'[w].mail = mail_worker[w].mail /\ mail_worker'[w].at # "idle"
    BY <1>1, <2>1 DEF Held, Mail!At
  <2>2. CASE mail_worker[w].mail \notin Mail!Stored /\ Mail!Release(w)
    <3>1. mail_worker'[w].at = "idle" /\ mail_worker[w].mail # n
      BY <1>2, <2>2 DEF Mail!Release, Mail!Idle, MailInv, WorkersOK
    <3> QED
      BY <1>1, <3>1 DEF Held, Mail!At
  <2> QED
    BY <1>1, <2>1, <2>2
<1>4. Later(n)
  BY DEF Mail!Stored
<1> QED
  BY <1>1, <1>2, <1>3, <1>4, StaysOnTime DEF AllOnTime

(* The mail of a worker that is released may be late, and no other is.      *)
LEMMA OthersOnTime ==
  ASSUME Mail!Sizes, MailInv, AllOnTime, NEW w \in MailWorkers, ~Mail!At(w, "idle"),
         Mail!Release(w),
         \A n \in Mail!Stored' : n # mail_worker[w].mail =>
           n \in Mail!Stored /\ mail_outbox'[n] = mail_outbox[n],
         mail_clock' = mail_clock, \A n \in Mails : Later(n),
         \A m \in Mail!Stored' : m = mail_worker[w].mail => OnTime(m)'
  PROVE  AllOnTime'
<1>1. /\ mail_worker'[w] = Mail!Idle
      /\ \A v \in MailWorkers : v # w => mail_worker'[v] = mail_worker[v]
  BY DEF Mail!Release, MailInv, WorkersOK
<1>2. ASSUME NEW n \in Mail!Stored', n # mail_worker[w].mail PROVE OnTime(n)'
  <2>1. Held(n)' <=> Held(n)
    BY <1>1, <1>2 DEF Held, Mail!At, Mail!Idle
  <2>2. Later(n)
    BY DEF Mail!Stored
  <2> QED
    BY <1>2, <2>1, <2>2, StaysOnTime DEF AllOnTime
<1> QED
  BY <1>2 DEF AllOnTime

LEMMA SentOnTime ==
  ASSUME Mail!Sizes, Mail!NotRows, MailInv, AllOnTime, NEW w \in MailWorkers, Mail!MarkMailSent(w),
         \A n \in Mails : Later(n)
  PROVE  AllOnTime'
<1>1. /\ ~Mail!At(w, "idle") /\ Mail!Release(w) /\ mail_clock' = mail_clock
      /\ Mail!Update(w, [mail_outbox[mail_worker[w].mail] EXCEPT !.status = "sent"])
      /\ mail_outbox \in [Mails -> Mail!Row \cup {None, Gone}]
  BY DEF Mail!MarkMailSent, Mail!At, MailInv, Mail!TypeOK
<1>2. \A n \in Mail!Stored' : n # mail_worker[w].mail =>
        n \in Mail!Stored /\ mail_outbox'[n] = mail_outbox[n]
  BY <1>1 DEF Mail!Update, Mail!Stored
<1>3. ASSUME NEW m \in Mail!Stored', m = mail_worker[w].mail PROVE OnTime(m)'
  <2>1. m \in Mail!Stored
    BY <1>1, <1>3 DEF Mail!Update, Mail!Stored
  <2>2. mail_outbox[m] \in Mail!Row /\ mail_outbox'[m] = [mail_outbox[m] EXCEPT !.status = "sent"]
    BY <1>1, <1>3, <2>1, StoredIsRow DEF Mail!Update, Mail!Stored, MailInv
  <2>3. mail_outbox'[m].status = "sent"
    BY <2>2 DEF Mail!Row
  <2> QED
    BY <2>3 DEF OnTime
<1> QED
  BY <1>1, <1>2, <1>3, OthersOnTime

(* A failure uses up an attempt, and the mail waits for the next.           *)
LEMMA FailedOnTime ==
  ASSUME Mail!Sizes, Mail!NotRows, MailInv, AllOnTime, NEW w \in MailWorkers, Mail!MarkMailFailed(w),
         \A n \in Mails : Later(n)
  PROVE  AllOnTime'
<1>1. /\ ~Mail!At(w, "idle") /\ Mail!Release(w) /\ mail_clock' = mail_clock
      /\ Mail!Update(w, Mail!Failed(mail_outbox[mail_worker[w].mail], mail_worker[w].attempts,
                                     mail_worker[w].now))
      /\ Mail!At(w, "mark failed")
  BY DEF Mail!MarkMailFailed, Mail!At
<1>0. mail_clock \in Nat /\ mail_outbox \in [Mails -> Mail!Row \cup {None, Gone}]
  BY DEF MailInv, Mail!TypeOK, Mail!Sizes
<1>2. \A n \in Mail!Stored' : n # mail_worker[w].mail =>
        n \in Mail!Stored /\ mail_outbox'[n] = mail_outbox[n]
  BY <1>0, <1>1 DEF Mail!Update, Mail!Stored
<1>3. ASSUME NEW m \in Mail!Stored', m = mail_worker[w].mail PROVE OnTime(m)'
  <2> DEFINE k == mail_worker[w].attempts
             row == Mail!Failed(mail_outbox[m], k, mail_worker[w].now)
  <2> HIDE DEF k, row
  <2>1. m \in Mail!Stored
    BY <1>0, <1>1, <1>3 DEF Mail!Update, Mail!Stored
  <2>2. mail_outbox[m] \in Mail!Row /\ mail_outbox'[m] = row
    BY <1>0, <1>1, <1>3, <2>1, StoredIsRow DEF Mail!Update, Mail!Stored, MailInv, row, k
  <2>3. /\ mail_outbox[m].status = "sending" /\ mail_outbox[m].claimed = mail_worker[w].now
        /\ Held(m)
        /\ mail_clock <= mail_worker[w].now + SendWithin /\ k = mail_outbox[m].attempts + 1
    BY <1>0, <1>1, <1>3, <2>1, Holding DEF k
  <2>4. mail_outbox[m].claimed <= DueBy(m)
    BY <2>1, <2>3 DEF AllOnTime, OnTime
  <2>5. /\ mail_outbox[m].created \in Nat /\ mail_outbox[m].claimed \in Nat
        /\ mail_outbox[m].attempts \in 0..MaxAttempts /\ MaxAttempts \in Nat
    BY <2>2 DEF Mail!Row, Mail!Sizes
  <2>6. CASE k >= MaxAttempts
    <3>1. mail_outbox'[m].status = "dead"
      BY <2>2, <2>6 DEF row, Mail!Failed, Mail!Row
    <3> QED
      BY <3>1 DEF OnTime
  <2>7. CASE ~(k >= MaxAttempts)
    <3>1. /\ mail_outbox'[m].status = "pending" /\ mail_outbox'[m].attempts = k
          /\ mail_outbox'[m].available = mail_worker[w].now + Backoff[k]
          /\ mail_outbox'[m].created = mail_outbox[m].created
      BY <2>2, <2>7 DEF row, Mail!Failed, Mail!Row
    <3>2. k \in 1..(MaxAttempts - 1) /\ mail_outbox[m].attempts \in Nat
      BY <2>3, <2>5, <2>7
    <3>3. /\ Backoff[k] \in Nat /\ Backoff[k] <= Mail!LongestWait
          /\ Mail!LongestWait \in Nat /\ SendWithin \in Nat /\ SendWithin <= Mail!LongestWait
      BY <3>2, LongestWaits DEF Mail!Sizes
    <3>4. /\ Attempts(k) = Attempts(mail_outbox[m].attempts) + Mail!LongestWait
          /\ Attempts(mail_outbox[m].attempts) \in Nat
      BY <2>3, <3>2, Times
    <3>5. /\ DueBy(m) = mail_outbox[m].created + Attempts(mail_outbox[m].attempts) + Late(m)
          /\ DueBy(m)' = mail_outbox[m].created + Attempts(k) + Late(m)'
      BY <3>1 DEF DueBy, Attempts
    <3>6. Late(m) \in Nat /\ Late(m)' \in Nat /\ Late(m) <= Late(m)'
      BY <2>1 DEF Later, Mail!Stored
    <3>7. /\ DueBy(m) \in Nat /\ DueBy(m)' \in Nat
          /\ DueBy(m) + Mail!LongestWait <= DueBy(m)'
      <4> HIDE DEF DueBy
      <4> QED
        BY <2>5, <3>3, <3>4, <3>5, <3>6
    <3>8. mail_outbox'[m].available <= DueBy(m)' /\ mail_clock' <= DueBy(m)'
      <4>1. mail_outbox'[m].available = mail_outbox[m].claimed + Backoff[k]
        BY <2>3, <3>1
      <4>2. mail_clock' \in Nat /\ mail_clock' <= mail_outbox[m].claimed + SendWithin
        BY <1>0, <1>1, <2>3
      <4> HIDE DEF DueBy
      <4> QED
        BY <2>4, <2>5, <3>3, <3>7, <4>1, <4>2
    <3> QED
      BY <3>1, <3>8 DEF OnTime
  <2> QED
    BY <2>6, <2>7
<1> QED
  BY <1>1, <1>2, <1>3, OthersOnTime

(* A fault costs the mail the time after which its claim is stale.          *)
LEMMA FaultedOnTime ==
  ASSUME Mail!Sizes, Mail!NotRows, IsFiniteSet(Mails), MailInv, MailInv', AllOnTime,
         NEW w \in MailWorkers, Mail!Fault(w), \A n \in Mails : Later(n)
  PROVE  AllOnTime'
<1>1. /\ ~Mail!At(w, "idle") /\ Mail!Release(w) /\ mail_clock' = mail_clock
      /\ mail_outbox' = mail_outbox /\ mail_clock \in Nat
      /\ StaleAfter \in Nat /\ SendWithin \in Nat /\ SendWithin < StaleAfter
  BY DEF Mail!Fault, MailInv, Mail!TypeOK, Mail!Sizes
<1>2. \A n \in Mail!Stored' : n \in Mail!Stored /\ mail_outbox'[n] = mail_outbox[n]
  BY <1>1 DEF Mail!Stored
<1>3. ASSUME NEW m \in Mail!Stored', m = mail_worker[w].mail PROVE OnTime(m)'
  <2>0. m \in Mail!Stored /\ m \in Mails
    BY <1>2 DEF Mail!Stored
  <2>1. /\ mail_outbox[m].status = "sending" /\ mail_outbox[m].claimed = mail_worker[w].now
        /\ Held(m) /\ mail_clock <= mail_worker[w].now + SendWithin
    BY <1>1, <1>3, <2>0, Holding
  <2>2. mail_outbox[m].claimed <= DueBy(m)
    BY <2>0, <2>1 DEF AllOnTime, OnTime
  <2>3. /\ mail_outbox[m].created \in Nat /\ mail_outbox[m].claimed \in Nat
        /\ mail_outbox[m].attempts \in Nat
    BY <2>0, StoredIsRow DEF MailInv, Mail!Row
  <2>4. /\ Late(m) \in Nat /\ Late(m)' \in Nat /\ Late(m) + StaleAfter <= Late(m)'
        /\ Attempts(mail_outbox[m].attempts) \in Nat
    BY <1>3, <2>0, <2>3, LaterByFault, Times DEF Later
  <2>5. /\ DueBy(m) = mail_outbox[m].created + Attempts(mail_outbox[m].attempts) + Late(m)
        /\ DueBy(m)' = mail_outbox[m].created + Attempts(mail_outbox[m].attempts) + Late(m)'
    BY <1>1 DEF DueBy, Attempts
  <2>6. /\ mail_outbox[m].claimed + StaleAfter <= DueBy(m)' /\ mail_clock <= DueBy(m)'
    <3> HIDE DEF DueBy
    <3> QED
      BY <1>1, <2>1, <2>2, <2>3, <2>4, <2>5
  <2>7. ~Held(m)' /\ mail_outbox'[m] = mail_outbox[m]
    BY <1>1, <1>3, <2>0, Released
  <2> QED
    BY <1>1, <2>1, <2>6, <2>7 DEF OnTime
<1> QED
  BY <1>1, <1>2, <1>3, OthersOnTime

LEMMA PurgedOnTime ==
  ASSUME Mail!Sizes, MailInv, AllOnTime, Mail!PurgeMailOutbox, \A n \in Mails : Later(n)
  PROVE  AllOnTime'
<1>1. UNCHANGED <<mail_worker, mail_drains, mail_clock, mail_faults>>
  BY DEF Mail!PurgeMailOutbox
<1> SUFFICES ASSUME NEW n \in Mail!Stored' PROVE OnTime(n)'
  BY DEF AllOnTime
<1>2. n \in Mail!Stored /\ mail_outbox'[n] = mail_outbox[n] /\ Later(n)
  BY DEF Mail!PurgeMailOutbox, Mail!Stored
<1>3. Held(n)' <=> Held(n)
  BY <1>1 DEF Held, Mail!At
<1> QED
  BY <1>1, <1>2, <1>3, StaysOnTime DEF AllOnTime

(* A mail that is not due may wait until it is; one that is waits for other *)
(* mails, and that is counted.                                              *)
LEMMA TickOnTime ==
  ASSUME Mail!Sizes, Mail!NotRows, IsFiniteSet(Mails), MailInv, AllOnTime, Mail!Tick,
         \A n \in Mails : Later(n)
  PROVE  AllOnTime'
<1>1. /\ UNCHANGED <<mail_outbox, mail_worker, mail_drains, mail_faults>> /\ mail_clock' = mail_clock + 1
      /\ mail_clock \in Nat /\ StaleAfter \in Nat
  BY DEF Mail!Tick, MailInv, Mail!TypeOK, Mail!Sizes
<1> SUFFICES ASSUME NEW m \in Mail!Stored' PROVE OnTime(m)'
  BY DEF AllOnTime
<1>2. m \in Mails /\ m \in Mail!Stored /\ mail_outbox'[m] = mail_outbox[m] /\ OnTime(m)
  BY <1>1 DEF Mail!Stored, AllOnTime
<1>3. /\ mail_outbox[m].created \in Nat /\ mail_outbox[m].available \in Nat
      /\ mail_outbox[m].claimed \in Nat /\ mail_outbox[m].attempts \in Nat
  BY <1>2, StoredIsRow DEF MailInv, Mail!Row
<1>4. /\ Attempts(mail_outbox[m].attempts) \in Nat
      /\ Late(m) \in Nat /\ Late(m)' \in Nat /\ Late(m) <= Late(m)'
      /\ m \in Mail!Due => Late(m) + 1 <= Late(m)'
  BY <1>2, <1>3, Times, WaitsForOthers DEF Later
<1>5. /\ DueBy(m) = mail_outbox[m].created + Attempts(mail_outbox[m].attempts) + Late(m)
      /\ DueBy(m)' = mail_outbox[m].created + Attempts(mail_outbox[m].attempts) + Late(m)'
  BY <1>1 DEF DueBy, Attempts
<1> HIDE DEF DueBy
<1>6. /\ DueBy(m) \in Nat /\ DueBy(m)' \in Nat /\ DueBy(m) <= DueBy(m)'
      /\ m \in Mail!Due => DueBy(m) + 1 <= DueBy(m)'
  BY <1>3, <1>4, <1>5
<1>7. Held(m)' <=> Held(m)
  BY <1>1 DEF Held, Mail!At
<1> HIDE DEF Held
<1>8. mail_outbox[m].status = "pending" =>
        mail_outbox[m].available <= DueBy(m)' /\ mail_clock' <= DueBy(m)'
  <2>1. SUFFICES ASSUME mail_outbox[m].status = "pending"
                 PROVE  mail_outbox[m].available <= DueBy(m)' /\ mail_clock' <= DueBy(m)'
    OBVIOUS
  <2>2. mail_outbox[m].available <= DueBy(m) /\ mail_clock <= DueBy(m)
    BY <1>2, <2>1 DEF OnTime
  <2>3. m \in Mail!Due \/ mail_clock + 1 <= mail_outbox[m].available
    BY <1>1, <1>2, <1>3, <2>1 DEF Mail!Due
  <2> QED
    BY <1>1, <1>3, <1>6, <2>2, <2>3
<1>9. mail_outbox[m].status = "sending" /\ ~Held(m) =>
        mail_outbox[m].claimed + StaleAfter <= DueBy(m)' /\ mail_clock' <= DueBy(m)'
  <2>1. SUFFICES ASSUME mail_outbox[m].status = "sending", ~Held(m)
                 PROVE  mail_outbox[m].claimed + StaleAfter <= DueBy(m)' /\ mail_clock' <= DueBy(m)'
    OBVIOUS
  <2>2. mail_outbox[m].claimed + StaleAfter <= DueBy(m) /\ mail_clock <= DueBy(m)
    BY <1>2, <2>1 DEF OnTime
  <2>3. m \in Mail!Due \/ mail_clock + 1 <= mail_outbox[m].claimed + StaleAfter
    BY <1>1, <1>2, <1>3, <2>1 DEF Mail!Due
  <2> QED
    BY <1>1, <1>3, <1>6, <2>2, <2>3
<1>10. mail_outbox[m].status = "sending" /\ Held(m) => mail_outbox[m].claimed <= DueBy(m)'
  <2>1. SUFFICES ASSUME mail_outbox[m].status = "sending", Held(m)
                 PROVE  mail_outbox[m].claimed <= DueBy(m)'
    OBVIOUS
  <2>2. mail_outbox[m].claimed <= DueBy(m)
    BY <1>2, <2>1 DEF OnTime
  <2> QED
    BY <1>3, <1>6, <2>2
<1> QED
  BY <1>1, <1>2, <1>7, <1>8, <1>9, <1>10 DEF OnTime

LEMMA OnTimeKeeps ==
  ASSUME Mail!Sizes, Mail!NotRows, IsFiniteSet(Mails)
  PROVE  MailInv /\ AllOnTime /\ [Mail!Next]_(Mail!vars) => AllOnTime'
<1> SUFFICES ASSUME MailInv, AllOnTime, [Mail!Next]_(Mail!vars) PROVE AllOnTime'
  OBVIOUS
<1>0. MailInv' /\ mail_drains \subseteq MailWorkers
  BY MailStepKeeps DEF MailInv, Mail!TypeOK
<1>1. CASE Mail!Next
  <2>0. \A n \in Mails : Later(n)
    BY <1>1, AllLater
  <2>1. ASSUME NEW m \in Mails, Mail!EnqueueMail(m) PROVE AllOnTime'
    BY <2>0, <2>1, EnqueuedOnTime
  <2>2. ASSUME NEW w \in mail_drains, Mail!Drain(w) PROVE AllOnTime'
    BY <1>0, <2>0, <2>2, ClaimedOnTime, WorkedOnTime, SentOnTime, FailedOnTime DEF Mail!Drain
  <2>3. ASSUME NEW w \in mail_drains, Mail!Fault(w) PROVE AllOnTime'
    BY <1>0, <2>0, <2>3, FaultedOnTime
  <2>4. CASE Mail!PurgeMailOutbox
    BY <2>0, <2>4, PurgedOnTime
  <2>5. CASE Mail!Tick
    BY <2>0, <2>5, TickOnTime
  <2> QED
    BY <1>1, <2>1, <2>2, <2>3, <2>4, <2>5 DEF Mail!Next
<1>2. CASE UNCHANGED Mail!vars
  <2>1. UNCHANGED <<mail_outbox, mail_worker, mail_drains, mail_clock, mail_faults>>
    BY <1>2 DEF Mail!vars
  <2>2. \A m \in Mails : Late(m)' = Late(m)
    BY <2>1 DEF Late, Queued, Past, Others, Turns, Running, First, Held, Lost, Mail!At, Mail!Stored
  <2>3. \A m \in Mail!Stored : DueBy(m)' = DueBy(m)
    BY <2>1, <2>2 DEF DueBy, Attempts, Mail!Stored
  <2>4. \A m \in Mails : Held(m)' <=> Held(m)
    BY <2>1 DEF Held, Mail!At
  <2>5. Mail!Stored' = Mail!Stored
    BY <2>1 DEF Mail!Stored
  <2> HIDE DEF DueBy, Held
  <2> QED
    BY <2>1, <2>3, <2>4, <2>5 DEF AllOnTime, OnTime, Mail!Stored
<1> QED
  BY <1>1, <1>2

(* The instance has a definition of its own of what a cardinality is.       *)
LEMMA MailsCounted == ASSUME NEW S PROVE Mail!Cardinality(S) = Cardinality(S)
BY DEF Mail!Cardinality, Cardinality

(* Every mail is sent or given up in time, however many processes drain the *)
(* outbox: what its attempts may last, a stale claim for every fault, and   *)
(* for every other mail all its turns (ClaimDueMail, MarkMailFailed).       *)
THEOREM SettledInTime == Mail!Spec => []EveryMailSettles
<1> USE MailAssumption
<1>1. Mail!Init => AllOnTime
  BY DEF Mail!Init, AllOnTime, Mail!Stored
<1>2. ASSUME MailInv, AllOnTime PROVE EveryMailSettles
  <2> SUFFICES ASSUME NEW m \in Mail!Stored, mail_outbox[m].status \in {"pending", "sending"}
               PROVE  mail_clock <= mail_outbox[m].created + Attempts(MaxAttempts) + Lost(mail_faults)
                                      + (Cardinality(Mails) - 1) * MaxAttempts * SendWithin
    BY MailsCounted DEF EveryMailSettles, Mail!EveryMailSettles, Attempts, Lost
  <2>1. /\ mail_outbox[m] \in Mail!Row /\ OnTime(m) /\ mail_clock \in Nat /\ mail_faults \in Nat
        /\ mail_outbox[m].attempts # MaxAttempts /\ MaxAttempts \in Nat
        /\ SendWithin \in Nat /\ StaleAfter \in Nat
    BY <1>2, StoredIsRow DEF AllOnTime, MailInv, Mail!TypeOK, Mail!Sizes
  <2>2. /\ mail_outbox[m].created \in Nat /\ mail_outbox[m].claimed \in Nat
        /\ mail_outbox[m].attempts \in Nat
        /\ mail_outbox[m].attempts + 1 <= MaxAttempts
    BY <2>1 DEF Mail!Row
  <2>3. /\ Attempts(mail_outbox[m].attempts) \in Nat /\ Attempts(MaxAttempts) \in Nat
        /\ Lost(mail_faults) \in Nat
    BY <2>1, <2>2, Times
  <2>8. /\ Late(m) = Lost(mail_faults) + Queued(m) /\ Queued(m) \in Nat
        /\ Queued(m) <= (Cardinality(Mails) - 1) * MaxAttempts * SendWithin
    BY <1>2, QueuedBounded DEF Late, Mail!Stored
  <2>9. Late(m) \in Nat
    <3> HIDE DEF Late, Queued
    <3> QED
      BY <2>3, <2>8
  <2>4. Attempts(mail_outbox[m].attempts) + Mail!LongestWait <= Attempts(MaxAttempts)
    <3>1. Attempts(mail_outbox[m].attempts + 1) =
              Attempts(mail_outbox[m].attempts) + Mail!LongestWait
      BY <2>2, Times
    <3>2. Attempts(mail_outbox[m].attempts + 1) <= Attempts(MaxAttempts)
      <4>1. mail_outbox[m].attempts + 1 \in Nat
        BY <2>2
      <4> QED
        BY <2>1, <2>2, <4>1, Times
    <3> QED
      BY <3>1, <3>2
  <2>5. Mail!LongestWait \in Nat /\ SendWithin <= Mail!LongestWait
    BY LongestWaits
  <2>6. DueBy(m) = mail_outbox[m].created + Attempts(mail_outbox[m].attempts) + Late(m)
    BY DEF DueBy
  <2> HIDE DEF DueBy, Late, Queued, Held
  <2>7. mail_clock <= DueBy(m) + Mail!LongestWait
    <3>1. CASE mail_outbox[m].status = "pending"
      BY <2>1, <2>2, <2>3, <2>5, <2>6, <2>9, <3>1 DEF OnTime
    <3>2. CASE mail_outbox[m].status = "sending" /\ Held(m)
      <4>1. PICK w \in MailWorkers : ~Mail!At(w, "idle") /\ mail_worker[w].mail = m
        BY <3>2 DEF Held
      <4>2. mail_clock <= mail_outbox[m].claimed + SendWithin
        BY <1>2, <4>1, Holding
      <4>3. mail_outbox[m].claimed <= DueBy(m)
        BY <2>1, <3>2 DEF OnTime
      <4> QED
        BY <2>1, <2>2, <2>3, <2>5, <2>6, <2>9, <4>2, <4>3
    <3>3. CASE mail_outbox[m].status = "sending" /\ ~Held(m)
      BY <2>1, <2>2, <2>3, <2>5, <2>6, <2>9, <3>3 DEF OnTime
    <3> QED
      BY <3>1, <3>2, <3>3
  <2> QED
    <3>1. (Cardinality(Mails) - 1) * MaxAttempts * SendWithin \in Int
      <4>1. Cardinality(Mails) \in Nat
        BY FS_CardinalityType
      <4> QED
        BY <2>1, <4>1
    <3> QED
      BY <2>1, <2>2, <2>3, <2>4, <2>5, <2>6, <2>7, <2>8, <2>9, <3>1
<1>3. MailInv /\ AllOnTime => EveryMailSettles
  BY <1>2
<1> QED
  BY <1>1, <1>3, MailInvariant, OnTimeKeeps, PTL DEF Mail!Spec

----------------------------------------------------------------------------
(* Billing.                                                                 *)

FewDeliveries == IsFiniteSet(Deliveries)

----------------------------------------------------------------------------
(* The stages a delivery may be at. Only what concerns an invoice goes      *)
(* past the answer.                                                         *)
Unsure == [at : {"apply", "answer"}, event : Bill!Events]
Invoicing == [at : {"mode", "seen", "buyer", "issue", "record"}, event : Invoices]

Typed ==
  /\ billing_delivery \in [Deliveries -> {Bill!Idle} \cup Unsure \cup Invoicing]
  /\ billing_issued \in [Invoices -> Nat] /\ billing_doubts \in [Bill!Events -> Nat]

(* The stages from which a fiscal invoice may yet be made.                  *)
Ahead(e) == IF e \in billing_recorded THEN {"buyer", "issue"}
            ELSE {"apply", "mode", "seen", "buyer", "issue"}
(* The deliveries that may yet have an invoice made, and those that have    *)
(* or may.                                                                  *)
Open(e) == {d \in Bill!Running(e) : billing_delivery[d].at \in Ahead(e)}
Making(e) == {d \in Bill!Running(e) : billing_delivery[d].at \in Ahead(e) \cup {"record"}}

(* Every fiscal invoice that was made, or may still be, stands for a doubt  *)
(* or for the one that is recorded or under way.                            *)
Accounted(e) ==
  billing_issued[e] + Cardinality(Open(e))
    <= billing_doubts[e] + (IF e \in billing_recorded \/ Making(e) # {} THEN 1 ELSE 0)

Booked == \A e \in Invoices : Accounted(e)

(* The inductive invariant.                                                 *)
BillingInv == Bill!TypeOK /\ Typed /\ Booked

----------------------------------------------------------------------------
(* A set of deliveries and one of them.                                     *)
LEMMA Counted ==
  ASSUME FewDeliveries, NEW S \in SUBSET Deliveries, NEW d \in Deliveries
  PROVE  /\ Cardinality(S) \in Nat /\ Cardinality(S \ {d}) \in Nat
         /\ Cardinality(S) = Cardinality(S \ {d}) + (IF d \in S THEN 1 ELSE 0)
<1>1. IsFiniteSet(S) /\ IsFiniteSet(S \ {d})
  BY FS_Subset DEF FewDeliveries
<1>2. Cardinality(S) \in Nat /\ Cardinality(S \ {d}) \in Nat
  BY <1>1, FS_CardinalityType
<1>3. Cardinality(S \ {d}) = IF d \in S THEN Cardinality(S) - 1 ELSE Cardinality(S)
  BY <1>1, FS_RemoveElement
<1> QED
  BY <1>2, <1>3

(* A step of one delivery: the books of an invoice stay in order when its   *)
(* own share of them does.                                                  *)
LEMMA Balance ==
  ASSUME FewDeliveries, BillingInv, NEW d \in Deliveries, NEW e \in Invoices,
         \A c \in Deliveries \ {d} : billing_delivery'[c] = billing_delivery[c],
         e \in billing_recorded' <=> e \in billing_recorded,
         billing_issued'[e] \in Nat, billing_doubts'[e] \in Nat, e \in Bill!Events,
         NEW was, was = IF d \in Open(e) THEN 1 ELSE 0,
         NEW is, is = IF d \in Open(e)' THEN 1 ELSE 0,
         billing_issued'[e] + is + billing_doubts[e]
           <= billing_issued[e] + was + billing_doubts'[e] +
            (IF e \in billing_recorded \/ Making(e) \ {d} # {} THEN 0
             ELSE (IF d \in Making(e)' THEN 1 ELSE 0) - (IF d \in Making(e) THEN 1 ELSE 0))
  PROVE  Accounted(e)'
<1> DEFINE n == Cardinality(Open(e) \ {d})
<1>1. Ahead(e)' = Ahead(e)
  BY DEF Ahead
<1>2. Open(e)' \ {d} = Open(e) \ {d} /\ Making(e)' \ {d} = Making(e) \ {d}
  BY <1>1 DEF Open, Making, Bill!Running, Bill!At
<1>3. Open(e) \in SUBSET Deliveries /\ Open(e)' \in SUBSET Deliveries
  BY DEF Open, Bill!Running
<1>4. n \in Nat /\ Cardinality(Open(e)) = n + was
  BY <1>3, Counted
<1>5. Cardinality(Open(e)') = n + is
  BY <1>2, <1>3, Counted
<1>6. Open(e) \subseteq Making(e) /\ Open(e)' \subseteq Making(e)'
  BY DEF Open, Making
<1>7. billing_issued[e] \in Nat /\ billing_doubts[e] \in Nat /\ was \in {0, 1} /\ is \in {0, 1}
  BY DEF BillingInv, Typed
<1>8. billing_issued[e] + n + was
        <= billing_doubts[e] + (IF e \in billing_recorded \/ Making(e) # {} THEN 1 ELSE 0)
  <2>1. billing_issued[e] + Cardinality(Open(e))
          <= billing_doubts[e] + (IF e \in billing_recorded \/ Making(e) # {} THEN 1 ELSE 0)
    BY DEF BillingInv, Booked, Accounted
  <2> HIDE DEF n
  <2> QED
    BY <1>4, <1>7, <2>1
<1>9. billing_issued'[e] + n + is
        <= billing_doubts'[e] + (IF e \in billing_recorded' \/ Making(e)' # {} THEN 1 ELSE 0)
  <2>1. CASE e \in billing_recorded \/ Making(e) \ {d} # {}
    <3>1. Making(e) # {} \/ e \in billing_recorded
      BY <2>1
    <3>2. Making(e)' # {} \/ e \in billing_recorded'
      BY <1>2, <2>1
    <3> HIDE DEF n
    <3> QED
      BY <1>4, <1>7, <1>8, <2>1, <3>1, <3>2
  <2>2. CASE e \notin billing_recorded /\ Making(e) \ {d} = {}
    <3>1. (d \in Making(e)) <=> Making(e) # {}
      BY <2>2
    <3>2. (d \in Making(e)') <=> Making(e)' # {}
      BY <1>2, <2>2
    <3> HIDE DEF n
    <3> QED
      BY <1>4, <1>7, <1>8, <2>2, <3>1, <3>2
  <2> QED
    BY <2>1, <2>2
<1>10. billing_issued'[e] + Cardinality(Open(e)')
         <= billing_doubts'[e] + (IF e \in billing_recorded' \/ Making(e)' # {} THEN 1 ELSE 0)
  <2> HIDE DEF n
  <2> QED
    BY <1>4, <1>5, <1>7, <1>9
<1> QED
  BY <1>10 DEF Accounted

(* What a delivery does with one invoice leaves the books of the others.    *)
LEMMA Elsewhere ==
  ASSUME FewDeliveries, BillingInv, NEW d \in Deliveries, NEW e \in Invoices,
         \A c \in Deliveries \ {d} : billing_delivery'[c] = billing_delivery[c],
         d \notin Bill!Running(e), d \notin Bill!Running(e)',
         e \in billing_recorded' <=> e \in billing_recorded,
         billing_issued'[e] = billing_issued[e], billing_doubts'[e] = billing_doubts[e]
  PROVE  Accounted(e)'
<1>1. /\ d \notin Open(e) /\ d \notin Open(e)' /\ d \notin Making(e) /\ d \notin Making(e)'
      /\ e \in Bill!Events
  BY DEF Open, Making, Bill!Events
<1>2. billing_issued[e] \in Nat /\ billing_doubts[e] \in Nat
  BY <1>1 DEF BillingInv, Typed
<1>3. billing_issued'[e] + 0 + billing_doubts[e] <= billing_issued[e] + 0 + billing_doubts'[e] +
        (IF e \in billing_recorded \/ Making(e) \ {d} # {} THEN 0
         ELSE (IF d \in Making(e)' THEN 1 ELSE 0) - (IF d \in Making(e) THEN 1 ELSE 0))
  BY <1>1, <1>2
<1>4. 0 = (IF d \in Open(e) THEN 1 ELSE 0) /\ 0 = (IF d \in Open(e)' THEN 1 ELSE 0)
  BY <1>1
<1> QED
  BY <1>1, <1>2, <1>3, <1>4, Balance

(* A running delivery of an invoice, as its stage says.                     *)
LEMMA Stage ==
  ASSUME NEW d \in Deliveries, NEW e \in Invoices, d \in Bill!Running(e)
  PROVE  /\ (d \in Open(e)) <=> (billing_delivery[d].at \in Ahead(e))
         /\ (d \in Making(e)) <=> (billing_delivery[d].at \in Ahead(e) \cup {"record"})
BY DEF Open, Making

(* A stage more, or the end, without a call of the invoice service.         *)
LEMMA Proceeds ==
  ASSUME FewDeliveries, BillingInv, NEW d \in Deliveries,
         ~Bill!At(d, "idle"), ~Bill!At(d, "record"), NEW x,
         x \in {Bill!Idle} \cup Unsure \cup Invoicing,
         x.at # "idle" => x.event = billing_delivery[d].event,
         billing_delivery[d].event \in Invoices /\ x.at \in Ahead(billing_delivery[d].event)
           => billing_delivery[d].at \in Ahead(billing_delivery[d].event),
         billing_delivery' = [billing_delivery EXCEPT ![d] = x],
         UNCHANGED <<billing_issued, billing_doubts, billing_recorded>>
  PROVE  Typed' /\ Booked'
<1>1. /\ billing_delivery'[d] = x
      /\ \A c \in Deliveries \ {d} : billing_delivery'[c] = billing_delivery[c]
  BY DEF BillingInv, Typed
<1>2. Typed'
  BY DEF BillingInv, Typed
<1>3. ASSUME NEW e \in Invoices PROVE Accounted(e)'
  <2>1. CASE d \notin Bill!Running(e)
    <3>1. d \notin Bill!Running(e)'
      BY <1>1, <2>1 DEF Bill!Running, Bill!At
    <3> QED
      BY <1>1, <2>1, <3>1, Elsewhere
  <2>2. CASE d \in Bill!Running(e)
    <3>1. billing_delivery[d].event = e /\ Ahead(e)' = Ahead(e) /\ e \in Bill!Events
      BY <2>2 DEF Bill!Running, Ahead, Bill!Events
    <3>2. d \in Open(e)' => d \in Open(e)
      BY <1>1, <2>2, <3>1, Stage DEF Open, Bill!Running
    <3>3. (d \in Making(e)) <=> (d \in Open(e))
      BY <2>2, Stage DEF Bill!At
    <3>4. d \in Open(e)' => d \in Making(e)'
      BY DEF Open, Making
    <3>5. /\ billing_issued[e] \in Nat /\ billing_doubts[e] \in Nat
          /\ billing_issued'[e] = billing_issued[e] /\ billing_doubts'[e] = billing_doubts[e]
      BY <3>1 DEF BillingInv, Typed
    <3> DEFINE was == IF d \in Open(e) THEN 1 ELSE 0
               is == IF d \in Open(e)' THEN 1 ELSE 0
    <3>6. billing_issued'[e] + is + billing_doubts[e]
            <= billing_issued[e] + was + billing_doubts'[e] +
            (IF e \in billing_recorded \/ Making(e) \ {d} # {} THEN 0
             ELSE (IF d \in Making(e)' THEN 1 ELSE 0) - (IF d \in Making(e) THEN 1 ELSE 0))
      BY <3>2, <3>3, <3>4, <3>5
    <3> HIDE DEF was, is
    <3>7. was = (IF d \in Open(e) THEN 1 ELSE 0) /\ is = (IF d \in Open(e)' THEN 1 ELSE 0)
      BY DEF was, is
    <3> QED
      BY <1>1, <3>1, <3>5, <3>6, <3>7, Balance
  <2> QED
    BY <2>1, <2>2
<1> QED
  BY <1>2, <1>3 DEF Booked

(* What a delivery under way is about.                                      *)
LEMMA StageOf ==
  ASSUME BillingInv, NEW d \in Deliveries, ~Bill!At(d, "idle")
  PROVE  /\ billing_delivery[d] \in Unsure \cup Invoicing
         /\ billing_delivery[d].event \in Bill!Events
         /\ billing_delivery[d].at \notin {"idle", "apply", "answer"} =>
              billing_delivery[d] \in Invoicing
<1>1. /\ billing_delivery[d] \in {Bill!Idle} \cup Unsure \cup Invoicing
      /\ billing_delivery[d].at # "idle"
  BY DEF BillingInv, Typed, Bill!At
<1> QED
  BY <1>1 DEF Bill!Idle, Unsure, Invoicing, Bill!Events

(* The step to another stage of the same event.                             *)
LEMMA Goes ==
  ASSUME FewDeliveries, BillingInv, NEW d \in Deliveries, ~Bill!At(d, "idle"),
         ~Bill!At(d, "record"),
         NEW y, \/ /\ y \in {"mode", "seen", "buyer", "issue"}
                   /\ billing_delivery[d].event \in Invoices
                \/ y = "answer",
         billing_delivery[d].event \in Invoices /\ y \in Ahead(billing_delivery[d].event)
           => billing_delivery[d].at \in Ahead(billing_delivery[d].event),
         Bill!To(d, y), UNCHANGED <<billing_issued, billing_doubts, billing_recorded>>
  PROVE  Typed' /\ Booked'
<1> DEFINE x == [billing_delivery[d] EXCEPT !.at = y]
<1>1. x \in Unsure \cup Invoicing /\ x.at = y /\ x.event = billing_delivery[d].event
  <2>1. CASE billing_delivery[d] \in Unsure
    BY <2>1 DEF Unsure, Invoicing
  <2>2. CASE billing_delivery[d] \in Invoicing
    BY <2>2 DEF Unsure, Invoicing, Bill!Events
  <2> QED
    BY <2>1, <2>2, StageOf
<1>2. billing_delivery' = [billing_delivery EXCEPT ![d] = x]
  BY DEF Bill!To, BillingInv, Typed
<1> HIDE DEF x
<1> QED
  BY <1>1, <1>2, Proceeds

(* A delivery that ends has nothing made any more.                          *)
LEMMA Ends ==
  ASSUME FewDeliveries, BillingInv, NEW d \in Deliveries, ~Bill!At(d, "idle"),
         ~Bill!At(d, "record"),
         Bill!Drop(d), UNCHANGED <<billing_issued, billing_doubts, billing_recorded>>
  PROVE  Typed' /\ Booked'
<1>1. Bill!Idle.at = "idle"
  BY DEF Bill!Idle
<1>2. \A e \in Bill!Events : Bill!Idle.at \notin Ahead(e)
  BY <1>1 DEF Ahead
<1>3. billing_delivery[d].event \in Bill!Events
  BY StageOf
<1> QED
  BY <1>1, <1>2, <1>3, Proceeds DEF Bill!Drop

(* The row of an organization.                                              *)
LEMMA OrgTyped ==
  ASSUME BillingInv, Bill!Bounds, NEW o \in BillingOrgs
  PROVE  billing_orgs[o] \in Bill!Org
BY DEF BillingInv, Bill!TypeOK

(* The plan is written; a payment goes on to its invoice.                   *)
LEMMA ApplyKeeps ==
  ASSUME FewDeliveries, Bill!Bounds, BillingInv, NEW d \in Deliveries, Bill!ApplyPaidPlan(d)
  PROVE  BillingInv'
<1> DEFINE e == billing_delivery[d].event
<1>1. /\ ~Bill!At(d, "idle") /\ ~Bill!At(d, "record") /\ billing_delivery[d].at = "apply"
      /\ e \in Bill!Events
  BY StageOf DEF Bill!ApplyPaidPlan, Bill!At
<1>2. /\ Bill!To(d, IF e \in Charged THEN "mode" ELSE "answer")
      /\ UNCHANGED <<billing_issued, billing_doubts, billing_recorded>>
  BY DEF Bill!ApplyPaidPlan
<1>3. Bill!TypeOK'
  <2>1. /\ BuyerOf[e] \in BillingOrgs
        /\ BoughtPlan[e] \in {BillingFree} \cup {BoughtPlan[f] : f \in Bill!Events}
    BY <1>1 DEF Bill!Bounds
  <2>2. billing_orgs' = [billing_orgs EXCEPT ![BuyerOf[e]].plan = BoughtPlan[e],
                         ![BuyerOf[e]].subscribed = TRUE]
    BY DEF Bill!ApplyPaidPlan
  <2>3. billing_orgs' \in [BillingOrgs -> Bill!Org]
    BY <2>1, <2>2, SMTT(30) DEF BillingInv, Bill!TypeOK, Bill!Org
  <2> QED
    BY <2>3 DEF Bill!ApplyPaidPlan, BillingInv, Bill!TypeOK
<1>4. CASE e \in Charged
  <2>1. e \in Invoices
    BY <1>4 DEF Bill!Bounds
  <2>2. "mode" \in Ahead(e) => billing_delivery[d].at \in Ahead(e)
    BY <1>1 DEF Ahead
  <2>3. Bill!To(d, "mode")
    BY <1>2, <1>4
  <2> QED
    BY <1>1, <1>2, <1>3, <2>1, <2>2, <2>3, Goes DEF BillingInv
<1>5. CASE e \notin Charged
  <2>1. Bill!To(d, "answer") /\ "answer" \notin Ahead(e)
    BY <1>2, <1>5 DEF Ahead
  <2> QED
    BY <1>1, <1>2, <1>3, <2>1, Goes DEF BillingInv
<1> QED
  BY <1>4, <1>5

(* Nobody gets one without the service, and a develop organization never.   *)
LEMMA ModeKeeps ==
  ASSUME FewDeliveries, Bill!Bounds, BillingInv, NEW d \in Deliveries, Bill!issueFiscalInvoice(d)
  PROVE  BillingInv'
<1> DEFINE e == billing_delivery[d].event
<1>1. /\ ~Bill!At(d, "idle") /\ ~Bill!At(d, "record") /\ billing_delivery[d].at = "mode"
      /\ billing_delivery[d] \in Invoicing
  BY StageOf DEF Bill!issueFiscalInvoice, Bill!At
<1>2. e \in Invoices
  BY <1>1 DEF Invoicing
<1>3. /\ "seen" \in Ahead(e) => billing_delivery[d].at \in Ahead(e)
      /\ "answer" \notin Ahead(e)
  BY <1>1 DEF Ahead
<1>4. \E y \in {"answer", "seen"} : Bill!To(d, y)
  BY DEF Bill!issueFiscalInvoice
<1>5. UNCHANGED <<billing_issued, billing_doubts, billing_recorded>> /\ Bill!TypeOK'
  BY DEF Bill!issueFiscalInvoice, BillingInv, Bill!TypeOK
<1> QED
  BY <1>1, <1>2, <1>3, <1>4, <1>5, Goes DEF BillingInv

(* One that is recorded is not issued again.                                *)
LEMMA SeenKeeps ==
  ASSUME FewDeliveries, Bill!Bounds, BillingInv, NEW d \in Deliveries, Bill!HasBillingInvoice(d)
  PROVE  BillingInv'
<1> DEFINE e == billing_delivery[d].event
<1>1. /\ ~Bill!At(d, "idle") /\ ~Bill!At(d, "record") /\ billing_delivery[d].at = "seen"
      /\ billing_delivery[d] \in Invoicing
  BY StageOf DEF Bill!HasBillingInvoice, Bill!At
<1>2. e \in Invoices
  BY <1>1 DEF Invoicing
<1>3. "answer" \notin Ahead(e) /\ e \notin billing_recorded => billing_delivery[d].at \in Ahead(e)
  BY <1>1 DEF Ahead
<1>4. Bill!To(d, "answer") \/ (Bill!To(d, "buyer") /\ e \notin billing_recorded)
  BY DEF Bill!HasBillingInvoice, Bill!To
<1>5. UNCHANGED <<billing_issued, billing_doubts, billing_recorded>> /\ Bill!TypeOK'
  BY DEF Bill!HasBillingInvoice, BillingInv, Bill!TypeOK
<1>6. "answer" \notin Ahead(e)
  BY DEF Ahead
<1> QED
  BY <1>1, <1>2, <1>3, <1>4, <1>5, <1>6, Goes DEF BillingInv

(* The buyer is read, or there is none.                                     *)
LEMMA BuyerKeeps ==
  ASSUME FewDeliveries, Bill!Bounds, BillingInv, NEW d \in Deliveries, Bill!ReadBuyer(d)
  PROVE  BillingInv'
<1> DEFINE e == billing_delivery[d].event
<1>1. /\ ~Bill!At(d, "idle") /\ ~Bill!At(d, "record") /\ billing_delivery[d].at = "buyer"
      /\ billing_delivery[d] \in Invoicing
  BY StageOf DEF Bill!ReadBuyer, Bill!At
<1>2. e \in Invoices
  BY <1>1 DEF Invoicing
<1>3. "answer" \notin Ahead(e) /\ billing_delivery[d].at \in Ahead(e)
  BY <1>1 DEF Ahead
<1>4. \E y \in {"answer", "issue"} : Bill!To(d, y)
  BY DEF Bill!ReadBuyer
<1>5. UNCHANGED <<billing_issued, billing_doubts, billing_recorded>> /\ Bill!TypeOK'
  BY DEF Bill!ReadBuyer, BillingInv, Bill!TypeOK
<1> QED
  BY <1>1, <1>2, <1>3, <1>4, <1>5, Goes DEF BillingInv

(* The provider is answered, with success or to try again.                  *)
LEMMA AnswerKeeps ==
  ASSUME FewDeliveries, Bill!Bounds, BillingInv, NEW d \in Deliveries, Bill!Answer(d)
  PROVE  BillingInv'
<1>1. ~Bill!At(d, "idle") /\ ~Bill!At(d, "record") /\ billing_delivery[d].event \in Bill!Events
  BY StageOf DEF Bill!Answer, Bill!At
<1>2. Bill!TypeOK'
  BY <1>1 DEF Bill!Answer, BillingInv, Bill!TypeOK
<1>3. Bill!Drop(d) /\ UNCHANGED <<billing_issued, billing_doubts, billing_recorded>>
  BY DEF Bill!Answer
<1> QED
  BY <1>1, <1>2, <1>3, Ends DEF BillingInv

(* A call that goes wrong is counted, and a doubt with it when nobody       *)
(* knows whether it was served.                                             *)
LEMMA FaultyTyped ==
  ASSUME Bill!Bounds, BillingInv, NEW e \in Bill!Events, NEW unknown \in BOOLEAN,
         Bill!Faulty(e, unknown)
  PROVE  /\ billing_faults' \in [Bill!Events -> 0..MaxBillingFaults]
         /\ billing_doubts' \in [Bill!Events -> Nat]
         /\ billing_doubts'[e] = billing_doubts[e] + (IF unknown THEN 1 ELSE 0)
         /\ \A f \in Bill!Events \ {e} : billing_doubts'[f] = billing_doubts[f]
BY DEF Bill!Faulty, BillingInv, Bill!TypeOK, Typed, Bill!Bounds

(* A step of the running delivery that changes the books of its invoice:    *)
(* what is made or may be grows no faster than the doubts.                  *)
LEMMA Changes ==
  ASSUME FewDeliveries, BillingInv, NEW d \in Deliveries, billing_delivery[d] \in Invoicing,
         NEW x, x \in {Bill!Idle} \cup Invoicing,
         x.at # "idle" => x.event = billing_delivery[d].event,
         x.at = "idle" \/ x.at = "record",
         billing_delivery' = [billing_delivery EXCEPT ![d] = x],
         billing_recorded' = billing_recorded,
         billing_issued' \in [Invoices -> Nat], billing_doubts' \in [Bill!Events -> Nat],
         \A f \in Invoices \ {billing_delivery[d].event} :
             billing_issued'[f] = billing_issued[f] /\ billing_doubts'[f] = billing_doubts[f],
         NEW was,
         was = IF billing_delivery[d].at \in Ahead(billing_delivery[d].event) THEN 1 ELSE 0,
         NEW making,
         making = IF billing_delivery[d].at \in Ahead(billing_delivery[d].event) \cup {"record"}
             THEN 1 ELSE 0,
         LET e == billing_delivery[d].event
         IN  /\ billing_issued'[e] + billing_doubts[e]
                  <= billing_issued[e] + was + billing_doubts'[e]
             /\ billing_issued'[e] + billing_doubts[e] + making <=
                  billing_issued[e] + was + billing_doubts'[e] + (IF x.at = "record" THEN 1 ELSE 0)
  PROVE  Typed' /\ Booked'
<1>1. /\ billing_delivery'[d] = x
      /\ \A c \in Deliveries \ {d} : billing_delivery'[c] = billing_delivery[c]
  BY DEF BillingInv, Typed
<1>2. Typed'
  BY DEF BillingInv, Typed
<1>3. ASSUME NEW e \in Invoices PROVE Accounted(e)'
  <2>0. e \in Bill!Events
    BY DEF Bill!Events
  <2>1. CASE d \notin Bill!Running(e)
    <3>1. d \notin Bill!Running(e)'
      BY <1>1, <2>1 DEF Bill!Running, Bill!At, Invoicing
    <3>2. e # billing_delivery[d].event
      BY <2>1 DEF Bill!Running, Bill!At, Invoicing
    <3> QED
      BY <1>1, <2>1, <3>1, <3>2, Elsewhere
  <2>2. CASE d \in Bill!Running(e)
    <3>1. /\ billing_delivery[d].event = e /\ Ahead(e)' = Ahead(e) /\ was \in {0, 1}
          /\ making \in {0, 1}
      BY <2>2 DEF Bill!Running, Ahead
    <3>2. d \notin Open(e)'
      BY <1>1, <3>1 DEF Open, Ahead
    <3>3. was = (IF d \in Open(e) THEN 1 ELSE 0) /\ making = (IF d \in Making(e) THEN 1 ELSE 0)
      BY <2>2, <3>1, Stage
    <3>4. (IF d \in Making(e)' THEN 1 ELSE 0) = (IF x.at = "record" THEN 1 ELSE 0)
      <4>1. d \in Making(e)' <=> d \in Bill!Running(e)' /\ x.at \in Ahead(e)' \cup {"record"}
        BY <1>1 DEF Making
      <4>2. d \in Bill!Running(e)' <=> x.at # "idle"
        BY <1>1, <3>1 DEF Bill!Running, Bill!At
      <4>3. x.at \in Ahead(e)' \cup {"record"} <=> x.at = "record"
        BY DEF Ahead
      <4> QED
        BY <4>1, <4>2, <4>3
    <3>5. /\ billing_issued[e] \in Nat /\ billing_doubts[e] \in Nat
          /\ billing_issued'[e] \in Nat /\ billing_doubts'[e] \in Nat
      BY <2>0 DEF BillingInv, Typed
    <3> DEFINE is == IF d \in Open(e)' THEN 1 ELSE 0
    <3>6. is = 0
      BY <3>2
    <3>7. billing_issued'[e] + is + billing_doubts[e]
            <= billing_issued[e] + was + billing_doubts'[e] +
            (IF e \in billing_recorded \/ Making(e) \ {d} # {} THEN 0
             ELSE (IF d \in Making(e)' THEN 1 ELSE 0) - (IF d \in Making(e) THEN 1 ELSE 0))
      <4> HIDE DEF is
      <4>1. /\ billing_issued'[e] + billing_doubts[e]
                 <= billing_issued[e] + was + billing_doubts'[e]
            /\ billing_issued'[e] + billing_doubts[e] + making <=
                 billing_issued[e] + was + billing_doubts'[e] + (IF x.at = "record" THEN 1 ELSE 0)
        BY <3>1
      <4> QED
        BY <3>1, <3>3, <3>4, <3>5, <3>6, <4>1
    <3>8. is = (IF d \in Open(e)' THEN 1 ELSE 0)
      OBVIOUS
    <3> HIDE DEF is
    <3> QED
      BY <1>1, <2>0, <3>3, <3>5, <3>7, <3>8, Balance
  <2> QED
    BY <2>1, <2>2
<1> QED
  BY <1>2, <1>3 DEF Booked

(* A delivery that runs nothing.                                            *)
LEMMA IdleRow == Bill!Idle.at = "idle"
BY DEF Bill!Idle

(* The store, the process or the answer fails.                              *)
LEMMA DeliveryFaultKeeps ==
  ASSUME FewDeliveries, Bill!Bounds, BillingInv, NEW d \in Deliveries, Bill!Fault(d)
  PROVE  BillingInv'
<1> DEFINE e == billing_delivery[d].event
<1>1. /\ ~Bill!At(d, "idle") /\ e \in Bill!Events /\ Bill!Drop(d)
      /\ Bill!Faulty(e, Bill!At(d, "record"))
      /\ UNCHANGED <<billing_ready, billing_orgs, billing_opened, billing_event, billing_recorded, billing_issued,
                     billing_moves>>
      /\ Bill!At(d, "record") \in BOOLEAN
  BY StageOf DEF Bill!Fault, Bill!At
<1>2. Bill!TypeOK' /\ billing_doubts' \in [Bill!Events -> Nat]
  BY <1>1, FaultyTyped DEF BillingInv, Bill!TypeOK
<1>3. CASE ~Bill!At(d, "record")
  <2>1. billing_doubts' = billing_doubts
    BY <1>1, <1>3 DEF Bill!Faulty
  <2> QED
    BY <1>1, <1>2, <1>3, <2>1, Ends DEF BillingInv
<1>4. CASE Bill!At(d, "record")
  <2>1. billing_delivery[d] \in Invoicing /\ billing_delivery[d].at = "record" /\ e \in Invoices
    BY <1>1, <1>4, StageOf DEF Bill!At, Invoicing
  <2>2. /\ billing_doubts'[e] = billing_doubts[e] + 1
        /\ \A f \in Bill!Events \ {e} : billing_doubts'[f] = billing_doubts[f]
    BY <1>1, <1>4, FaultyTyped
  <2>3. /\ billing_issued[e] \in Nat /\ billing_doubts[e] \in Nat
        /\ billing_issued' \in [Invoices -> Nat]
        /\ billing_issued' = billing_issued /\ billing_recorded' = billing_recorded
        /\ Invoices \subseteq Bill!Events
    BY <1>1, <2>1 DEF BillingInv, Typed, Bill!Events
  <2>4. billing_delivery[d].at \notin Ahead(e)
    BY <2>1 DEF Ahead
  <2>5. /\ billing_issued'[e] + billing_doubts[e] <= billing_issued[e] + 0 + billing_doubts'[e]
        /\ billing_issued'[e] + billing_doubts[e] + 1
             <= billing_issued[e] + 0 + billing_doubts'[e] + (IF Bill!Idle.at = "record" THEN 1 ELSE 0)
    BY <2>2, <2>3, IdleRow
  <2>6. 0 = (IF billing_delivery[d].at \in Ahead(e) THEN 1 ELSE 0)
        /\ 1 = (IF billing_delivery[d].at \in Ahead(e) \cup {"record"} THEN 1 ELSE 0)
    BY <2>1, <2>4
  <2>7. billing_delivery' = [billing_delivery EXCEPT ![d] = Bill!Idle]
    BY <1>1 DEF Bill!Drop
  <2>8. \A f \in Invoices \ {e} :
            billing_issued'[f] = billing_issued[f] /\ billing_doubts'[f] = billing_doubts[f]
    BY <2>2, <2>3
  <2>9. Typed' /\ Booked'
    BY <1>2, <2>1, <2>3, <2>5, <2>6, <2>7, <2>8, IdleRow, Changes
  <2> QED
    BY <1>2, <2>9 DEF BillingInv
<1> QED
  BY <1>3, <1>4

(* One more invoice at most, for the delivery that now goes to record it;   *)
(* or a call that failed, before or after it made one.                      *)
LEMMA IssueKeeps ==
  ASSUME FewDeliveries, Bill!Bounds, BillingInv, NEW d \in Deliveries, Bill!IssueInvoice(d)
  PROVE  BillingInv'
<1> DEFINE e == billing_delivery[d].event
<1>1. billing_delivery[d] \in Invoicing /\ billing_delivery[d].at = "issue"
  BY StageOf DEF Bill!IssueInvoice, Bill!At
<1>2. e \in Invoices /\ e \in Bill!Events /\ Invoices \subseteq Bill!Events
  BY <1>1 DEF Invoicing, Bill!Events
<1>3. /\ billing_issued[e] \in Nat /\ billing_doubts[e] \in Nat
      /\ billing_issued \in [Invoices -> Nat]
      /\ billing_doubts \in [Bill!Events -> Nat]
  BY <1>2 DEF BillingInv, Typed
<1>4. billing_delivery[d].at \in Ahead(e)
  BY <1>1 DEF Ahead
<1>5. 1 = (IF billing_delivery[d].at \in Ahead(e) THEN 1 ELSE 0)
      /\ 1 = (IF billing_delivery[d].at \in Ahead(e) \cup {"record"} THEN 1 ELSE 0)
  BY <1>4
<1>6. UNCHANGED <<billing_ready, billing_orgs, billing_opened, billing_event, billing_recorded, billing_moves>>
  BY DEF Bill!IssueInvoice
<1>7. CASE /\ billing_issued' \in {billing_issued, [billing_issued EXCEPT ![e] = @ + 1]}
           /\ Bill!To(d, "record") /\ UNCHANGED <<billing_doubts, billing_faults>>
  <2> DEFINE x == [billing_delivery[d] EXCEPT !.at = "record"]
  <2>1. x \in Invoicing /\ x.at = "record" /\ x.event = e
    BY <1>1 DEF Invoicing
  <2>2. billing_delivery' = [billing_delivery EXCEPT ![d] = x]
    BY <1>7 DEF Bill!To, BillingInv, Typed
  <2>3. /\ billing_issued' \in [Invoices -> Nat] /\ billing_issued'[e] <= billing_issued[e] + 1
        /\ billing_issued'[e] \in Nat
        /\ \A f \in Invoices \ {e} :
               billing_issued'[f] = billing_issued[f] /\ billing_doubts'[f] = billing_doubts[f]
    BY <1>2, <1>3, <1>7
  <2> HIDE DEF x
  <2>4. /\ billing_issued'[e] + billing_doubts[e] <= billing_issued[e] + 1 + billing_doubts'[e]
        /\ billing_issued'[e] + billing_doubts[e] + 1
             <= billing_issued[e] + 1 + billing_doubts'[e] + (IF x.at = "record" THEN 1 ELSE 0)
    BY <1>3, <1>7, <2>1, <2>3
  <2>5. Typed' /\ Booked'
    BY <1>1, <1>3, <1>5, <1>6, <1>7, <2>1, <2>2, <2>3, <2>4, Changes
  <2> QED
    BY <1>6, <1>7, <2>5 DEF BillingInv, Bill!TypeOK
<1>8. CASE /\ Bill!Faulty(e, TRUE) /\ Bill!Drop(d)
           /\ billing_issued' \in {billing_issued, [billing_issued EXCEPT ![e] = @ + 1]}
  <2>1. /\ billing_doubts' \in [Bill!Events -> Nat]
        /\ billing_faults' \in [Bill!Events -> 0..MaxBillingFaults]
        /\ billing_doubts'[e] = billing_doubts[e] + 1
        /\ \A f \in Bill!Events \ {e} : billing_doubts'[f] = billing_doubts[f]
    BY <1>2, <1>8, FaultyTyped
  <2>2. /\ billing_issued' \in [Invoices -> Nat] /\ billing_issued'[e] <= billing_issued[e] + 1
        /\ billing_issued'[e] \in Nat
        /\ \A f \in Invoices \ {e} :
               billing_issued'[f] = billing_issued[f] /\ billing_doubts'[f] = billing_doubts[f]
    BY <1>2, <1>3, <1>8, <2>1
  <2>3. /\ billing_issued'[e] + billing_doubts[e] <= billing_issued[e] + 1 + billing_doubts'[e]
        /\ billing_issued'[e] + billing_doubts[e] + 1
             <= billing_issued[e] + 1 + billing_doubts'[e] + (IF Bill!Idle.at = "record" THEN 1 ELSE 0)
    BY <1>3, <2>1, <2>2, IdleRow
  <2>4. billing_delivery' = [billing_delivery EXCEPT ![d] = Bill!Idle]
    BY <1>8 DEF Bill!Drop
  <2>5. Typed' /\ Booked'
    BY <1>1, <1>5, <1>6, <2>1, <2>2, <2>3, <2>4, IdleRow, Changes
  <2> QED
    BY <1>6, <2>1, <2>5 DEF BillingInv, Bill!TypeOK
<1> QED
  BY <1>7, <1>8 DEF Bill!IssueInvoice

(* What is recorded needs no delivery to stand for it any more.             *)
LEMMA RecordKeeps ==
  ASSUME FewDeliveries, Bill!Bounds, BillingInv, NEW d \in Deliveries, Bill!RecordBillingInvoice(d)
  PROVE  BillingInv'
<1>1. billing_delivery[d] \in Invoicing /\ billing_delivery[d].at = "record"
  BY StageOf DEF Bill!RecordBillingInvoice, Bill!At
<1>0. PICK e : e = billing_delivery[d].event
  OBVIOUS
<1> DEFINE x == [billing_delivery[d] EXCEPT !.at = "answer"]
<1>2. e \in Invoices /\ e \in Bill!Events
  BY <1>0, <1>1 DEF Invoicing, Bill!Events
<1>3. x \in Unsure /\ x.at = "answer" /\ x.event = e
  BY <1>0, <1>1, <1>2 DEF Invoicing, Unsure
<1>4. /\ billing_delivery' = [billing_delivery EXCEPT ![d] = x]
      /\ billing_recorded' = billing_recorded \cup {e}
      /\ UNCHANGED <<billing_ready, billing_orgs, billing_opened, billing_event, billing_issued, billing_doubts,
                     billing_faults, billing_moves>>
  BY <1>0 DEF Bill!RecordBillingInvoice, Bill!To, BillingInv, Typed
<1> HIDE DEF x
<1>5. /\ billing_delivery'[d] = x
      /\ \A c \in Deliveries \ {d} : billing_delivery'[c] = billing_delivery[c]
  BY <1>4 DEF BillingInv, Typed
<1>6. Bill!TypeOK' /\ Typed'
  BY <1>2, <1>3, <1>4 DEF BillingInv, Bill!TypeOK, Typed
<1>7. ASSUME NEW f \in Invoices, f # e PROVE Accounted(f)'
  <2>1. d \notin Bill!Running(f) /\ d \notin Bill!Running(f)'
    BY <1>0, <1>3, <1>5, <1>7 DEF Bill!Running
  <2>2. f \in billing_recorded' <=> f \in billing_recorded
    BY <1>4, <1>7
  <2> QED
    BY <1>4, <1>5, <2>1, <2>2, Elsewhere
<1>8. Accounted(e)'
  <2>1. Open(e)' \subseteq Open(e)
    <3>1. Ahead(e)' = {"buyer", "issue"} /\ Ahead(e)' \subseteq Ahead(e)
      BY <1>4 DEF Ahead
    <3>2. d \notin Open(e)'
      BY <1>3, <1>5, <3>1 DEF Open
    <3> QED
      BY <1>5, <3>1, <3>2 DEF Open, Bill!Running, Bill!At
  <2>2. Open(e) \in SUBSET Deliveries
    BY DEF Open, Bill!Running
  <2>3. IsFiniteSet(Open(e)) /\ IsFiniteSet(Open(e)')
    BY <2>1, <2>2, FS_Subset DEF FewDeliveries
  <2>4. /\ Cardinality(Open(e)') <= Cardinality(Open(e))
        /\ Cardinality(Open(e)) \in Nat /\ Cardinality(Open(e)') \in Nat
    BY <2>1, <2>3, FS_Subset, FS_CardinalityType
  <2>5. /\ billing_issued[e] \in Nat /\ billing_doubts[e] \in Nat
        /\ billing_issued'[e] = billing_issued[e] /\ billing_doubts'[e] = billing_doubts[e]
    BY <1>2, <1>4 DEF BillingInv, Typed
  <2>6. billing_issued[e] + Cardinality(Open(e)) <= billing_doubts[e] + 1
    BY <1>2, <2>4, <2>5 DEF BillingInv, Booked, Accounted
  <2>7. e \in billing_recorded'
    BY <1>4
  <2>8. billing_issued'[e] + Cardinality(Open(e)') <= billing_doubts'[e] + 1
    BY <2>4, <2>5, <2>6
  <2> QED
    BY <2>7, <2>8 DEF Accounted
<1> QED
  BY <1>6, <1>7, <1>8 DEF BillingInv, Booked

(* A delivery that overlaps another of its event is a doubt.                *)
LEMMA DeliverKeeps ==
  ASSUME FewDeliveries, Bill!Bounds, BillingInv, NEW d \in Deliveries, NEW e \in Bill!Events,
         Bill!Deliver(d, e)
  PROVE  BillingInv'
<1> DEFINE x == [at |-> "apply", event |-> e]
<1>1. x \in Unsure /\ x.at = "apply" /\ x.event = e
  BY DEF Unsure
<1>2. /\ Bill!At(d, "idle") /\ billing_delivery' = [billing_delivery EXCEPT ![d] = x]
      /\ UNCHANGED <<billing_ready, billing_orgs, billing_opened, billing_event, billing_recorded, billing_issued,
                     billing_moves>>
  BY DEF Bill!Deliver
<1> HIDE DEF x
<1>3. /\ billing_delivery'[d] = x
      /\ \A c \in Deliveries \ {d} : billing_delivery'[c] = billing_delivery[c]
  BY <1>2 DEF BillingInv, Typed
<1>4. /\ billing_faults' \in [Bill!Events -> 0..MaxBillingFaults]
      /\ billing_doubts' \in [Bill!Events -> Nat]
      /\ billing_doubts'[e] = billing_doubts[e] + (IF Bill!Running(e) = {} THEN 0 ELSE 1)
      /\ \A f \in Bill!Events \ {e} : billing_doubts'[f] = billing_doubts[f]
  <2>1. CASE Bill!Running(e) = {}
    <3>1. UNCHANGED <<billing_doubts, billing_faults>>
      BY <2>1 DEF Bill!Deliver
    <3> QED
      BY <2>1, <3>1 DEF BillingInv, Bill!TypeOK, Typed
  <2>2. CASE Bill!Running(e) # {}
    <3>1. Bill!Faulty(e, TRUE)
      BY <2>2 DEF Bill!Deliver
    <3> QED
      BY <2>2, <3>1, FaultyTyped
  <2> QED
    BY <2>1, <2>2
<1>5. Bill!TypeOK' /\ Typed'
  BY <1>1, <1>2, <1>4 DEF BillingInv, Bill!TypeOK, Typed
<1>6. ASSUME NEW f \in Invoices PROVE Accounted(f)'
  <2>0. f \in Bill!Events /\ d \notin Bill!Running(f)
    BY <1>2 DEF Bill!Events, Bill!Running
  <2>1. CASE f # e
    <3>1. d \notin Bill!Running(f)'
      BY <1>1, <1>3, <2>1 DEF Bill!Running
    <3> QED
      BY <1>2, <1>3, <1>4, <2>0, <2>1, <3>1, Elsewhere
  <2>2. CASE f = e
    <3>1. Ahead(f)' = Ahead(f) /\ d \in Bill!Running(f)'
      BY <1>1, <1>2, <1>3, <2>2 DEF Ahead, Bill!Running, Bill!At
    <3>2. d \in Making(f)' <=> d \in Open(f)'
      BY <1>1, <1>3, <3>1 DEF Open, Making
    <3>3. d \in Open(f)' => f \notin billing_recorded
      BY <1>1, <1>3, <3>1 DEF Open, Ahead
    <3>4. d \notin Open(f) /\ d \notin Making(f)
      BY <2>0 DEF Open, Making
    <3>5. Bill!Running(f) = {} => Making(f) \ {d} = {}
      BY DEF Making
    <3>6. /\ billing_issued[f] \in Nat /\ billing_doubts[f] \in Nat
          /\ billing_issued'[f] = billing_issued[f]
          /\ billing_doubts'[f] \in Nat
          /\ billing_doubts'[f] = billing_doubts[f] + (IF Bill!Running(f) = {} THEN 0 ELSE 1)
      BY <1>2, <1>4, <2>0, <2>2 DEF BillingInv, Typed
    <3> DEFINE is == IF d \in Open(f)' THEN 1 ELSE 0
    <3>7. billing_issued'[f] + is + billing_doubts[f]
            <= billing_issued[f] + 0 + billing_doubts'[f] +
            (IF f \in billing_recorded \/ Making(f) \ {d} # {} THEN 0
             ELSE (IF d \in Making(f)' THEN 1 ELSE 0) - (IF d \in Making(f) THEN 1 ELSE 0))
      BY <3>2, <3>3, <3>4, <3>5, <3>6
    <3>8. 0 = (IF d \in Open(f) THEN 1 ELSE 0) /\ is = (IF d \in Open(f)' THEN 1 ELSE 0)
      BY <3>4
    <3> HIDE DEF is
    <3> QED
      BY <1>2, <1>3, <2>0, <3>6, <3>7, <3>8, Balance
  <2> QED
    BY <2>1, <2>2
<1> QED
  BY <1>5, <1>6 DEF BillingInv, Booked

----------------------------------------------------------------------------
(* What the books are about does not change outside deliveries.             *)
LEMMA Beside ==
  ASSUME BillingInv,
         UNCHANGED <<billing_delivery, billing_recorded, billing_issued, billing_doubts>>
  PROVE  Typed' /\ Booked'
<1>1. Typed'
  BY DEF BillingInv, Typed
<1>2. Booked'
  BY DEF BillingInv, Booked, Accounted, Open, Making, Ahead, Bill!Running, Bill!At
<1> QED
  BY <1>1, <1>2

(* What people do to the organization itself.                               *)
LEMMA OrgKeeps ==
  ASSUME Bill!Bounds, BillingInv, NEW o \in BillingOrgs,
         Bill!handlePatchBilling(o) \/ Bill!handleCheckout(o)
           \/ \E mode \in {"standard", "test", "develop"} : Bill!handleSetOrgMode(o, mode)
  PROVE  BillingInv'
<1>1. billing_orgs' \in [BillingOrgs -> Bill!Org]
  <2>1. billing_orgs[o] \in Bill!Org /\ billing_orgs \in [BillingOrgs -> Bill!Org]
    BY DEF BillingInv, Bill!TypeOK
  <2>2. CASE Bill!handlePatchBilling(o)
    <3>1. [billing_orgs[o] EXCEPT !.complete = TRUE] \in Bill!Org
      BY <2>1 DEF Bill!Org
    <3> QED
      BY <2>1, <2>2, <3>1 DEF Bill!handlePatchBilling
  <2>3. CASE Bill!handleCheckout(o)
    BY <2>1, <2>3 DEF Bill!handleCheckout
  <2>4. ASSUME NEW mode \in {"standard", "test", "develop"}, Bill!handleSetOrgMode(o, mode)
        PROVE  billing_orgs' \in [BillingOrgs -> Bill!Org]
    <3>1. [billing_orgs[o] EXCEPT !.mode = mode] \in Bill!Org
      BY <2>1 DEF Bill!Org
    <3> QED
      BY <2>1, <2>4, <3>1 DEF Bill!handleSetOrgMode
  <2> QED
    BY <2>2, <2>3, <2>4
<1>2. UNCHANGED <<billing_ready, billing_delivery, billing_recorded, billing_issued, billing_doubts,
                  billing_event, billing_faults>>
  BY DEF Bill!handlePatchBilling, Bill!handleCheckout, Bill!handleSetOrgMode
<1> QED
  BY <1>1, <1>2, Beside DEF BillingInv, Bill!TypeOK

(* The provider tells of something.                                         *)
LEMMA HappensKeeps ==
  ASSUME BillingInv, NEW e \in Bill!Events, Bill!Happens(e) PROVE BillingInv'
<1>1. Bill!TypeOK'
  BY DEF Bill!Happens, BillingInv, Bill!TypeOK
<1>2. UNCHANGED <<billing_delivery, billing_recorded, billing_issued, billing_doubts>>
  BY DEF Bill!Happens
<1> QED
  BY <1>1, <1>2, Beside DEF BillingInv

(* Every behaviour begins in the invariant.                                 *)
LEMMA BillingInitially == ASSUME FewDeliveries, Bill!Bounds PROVE Bill!Init => BillingInv
<1> SUFFICES ASSUME Bill!Init PROVE BillingInv
  OBVIOUS
<1>1. Bill!TypeOK
  BY DEF Bill!Init, Bill!TypeOK, Bill!Org, Bill!Bounds
<1>2. Typed
  BY DEF Bill!Init, Typed, Bill!Idle
<1>3. ASSUME NEW e \in Invoices PROVE Accounted(e)
  <2>1. Bill!Running(e) = {}
    BY DEF Bill!Init, Bill!Running, Bill!At, Bill!Idle
  <2>2. Open(e) = {} /\ e \in Bill!Events
    BY <2>1 DEF Open, Bill!Events
  <2>3. billing_issued[e] = 0 /\ billing_doubts[e] = 0 /\ Cardinality(Open(e)) = 0
    BY <2>2, FS_EmptySet DEF Bill!Init
  <2> QED
    BY <2>3 DEF Accounted
<1> QED
  BY <1>1, <1>2, <1>3 DEF BillingInv, Booked

(* Every step keeps it.                                                     *)
LEMMA BillingStepKeeps ==
  ASSUME FewDeliveries, Bill!Bounds
  PROVE  BillingInv /\ [Bill!Next]_(Bill!vars) => BillingInv'
<1> SUFFICES ASSUME BillingInv, [Bill!Next]_(Bill!vars) PROVE BillingInv'
  OBVIOUS
<1>1. ASSUME NEW d \in Deliveries, Bill!Advance(d) PROVE BillingInv'
  BY <1>1, ApplyKeeps, ModeKeeps, SeenKeeps, BuyerKeeps, IssueKeeps, RecordKeeps, AnswerKeeps
     DEF Bill!Advance
<1>2. ASSUME NEW d \in Deliveries, NEW e \in Bill!Events, Bill!Deliver(d, e) PROVE BillingInv'
  BY <1>2, DeliverKeeps
<1>3. ASSUME NEW d \in Deliveries, Bill!Fault(d) PROVE BillingInv'
  BY <1>3, DeliveryFaultKeeps
<1>4. ASSUME NEW o \in BillingOrgs,
             Bill!handlePatchBilling(o) \/ Bill!handleCheckout(o)
               \/ \E mode \in {"standard", "test", "develop"} : Bill!handleSetOrgMode(o, mode)
      PROVE  BillingInv'
  BY <1>4, OrgKeeps
<1>5. ASSUME NEW e \in Bill!Events, Bill!Happens(e) PROVE BillingInv'
  BY <1>5, HappensKeeps
<1>6. CASE UNCHANGED Bill!vars
  <2>1. /\ Bill!TypeOK'
        /\ UNCHANGED <<billing_delivery, billing_recorded, billing_issued, billing_doubts>>
    BY <1>6 DEF Bill!vars, BillingInv, Bill!TypeOK
  <2> QED
    BY <2>1, Beside DEF BillingInv
<1> QED
  BY <1>1, <1>2, <1>3, <1>4, <1>5, <1>6 DEF Bill!Next

(* So it holds throughout.                                                  *)
LEMMA BillingInvariant == ASSUME FewDeliveries, Bill!Bounds PROVE Bill!Spec => []BillingInv
BY BillingInitially, BillingStepKeeps, PTL DEF Bill!Spec

(* The organizations, the deliveries and the counters keep their types      *)
(* (applyPaidPlan, issueFiscalInvoice).                                     *)
THEOREM BillingTyped == Bill!Spec => []Bill!TypeOK
<1>0. FewDeliveries /\ Bill!Bounds
  BY BillingAssumption DEF FewDeliveries
<1> USE <1>0
<1>1. BillingInv => Bill!TypeOK
  BY DEF BillingInv
<1> QED
  BY <1>1, BillingInvariant, PTL

(* A payment has one fiscal invoice, and one more at most for each time a   *)
(* call to the invoicing service failed, the record of one failed or was    *)
(* lost, or a delivery overlapped another (issueFiscalInvoice).             *)
THEOREM InvoicesDoubted == Bill!Spec => []NoInvoiceWithoutDoubt
<1>0. FewDeliveries /\ Bill!Bounds
  BY BillingAssumption DEF FewDeliveries
<1> USE <1>0
<1>1. ASSUME BillingInv, NEW e \in Invoices PROVE billing_issued[e] <= 1 + billing_doubts[e]
  <2>1. /\ e \in Bill!Events /\ billing_issued[e] \in Nat /\ billing_doubts[e] \in Nat
        /\ Open(e) \in SUBSET Deliveries
    BY <1>1 DEF BillingInv, Typed, Bill!Events, Open, Bill!Running
  <2>2. Cardinality(Open(e)) \in Nat
    BY <2>1, FS_Subset, FS_CardinalityType DEF FewDeliveries
  <2>3. billing_issued[e] + Cardinality(Open(e))
          <= billing_doubts[e] + (IF e \in billing_recorded \/ Making(e) # {} THEN 1 ELSE 0)
    BY <1>1 DEF BillingInv, Booked, Accounted
  <2> QED
    BY <2>1, <2>2, <2>3
<1>2. BillingInv => NoInvoiceWithoutDoubt
  BY <1>1 DEF NoInvoiceWithoutDoubt, Bill!NoInvoiceWithoutDoubt
<1> QED
  BY <1>2, BillingInvariant, PTL

==============================================================================
