----------------------------- MODULE MailOutbox ------------------------------
(***************************************************************************)
(* The hub's outgoing mail: rows that are claimed, handed to the provider, *)
(* marked, retried with backoff and purged (internal/hub/mail_outbox.go,   *)
(* mail_drain.go, internal/mailer/retry.go).                               *)
(*                                                                         *)
(* A worker is the drain of one hub process: one mail at a time, so mails  *)
(* queue for it.  On Postgres several processes share the outbox.  A drain *)
(* reads the clock once per mail and writes its marks by id alone, whoever *)
(* holds the row by then.  A unit of the clock is long against the second  *)
(* the drain polls with.  The hub has a sender; without one the drain      *)
(* claims nothing and mails stay as they are (mail_drain.go:15).           *)
(***************************************************************************)
EXTENDS Naturals, FiniteSets, Functions

CONSTANTS
  Mails, Workers,
  MaxAttempts,       \* failed sends after which a mail is dead
  Backoff,           \* [1..MaxAttempts-1 -> wait after that many failures]
  StaleAfter,        \* how long a row may be sending before it is taken back
  SendWithin,        \* how long a send and its mark last at most (external)
  RetainFor,         \* age at which a row is purged
  None, Gone,        \* no row yet, and no row any more
  EnqueueBy, MaxTime, MaxFaults  \* bounds: new mail, the clock, crashes and lost marks

VARIABLES
  outbox,            \* [Mails -> row, or None before and Gone after it]
  worker,            \* [Workers -> what the drain is doing]
  drains,            \* the hub processes of this installation, chosen with it
  clock, faults      \* clock, and faults so far (bound only)

vars == <<outbox, worker, drains, clock, faults>>

----------------------------------------------------------------------------
Idle == [at |-> "idle"]
Stored == {m \in Mails : outbox[m] \notin {None, Gone}}
At(w, stage) == worker[w].at = stage

Row == [status : {"pending", "sending", "sent", "dead"}, attempts : 0..MaxAttempts,
        available : Nat, claimed : Nat, created : Nat]

(* The sizes of an instance.  The code has eight attempts, a wait for each  *)
(* failure before the last, and a client timeout well below the time after  *)
(* which a claim is stale; the last is what everything rests on.            *)
Sizes ==
  /\ MaxAttempts \in Nat \ {0} /\ Backoff \in [1..MaxAttempts - 1 -> Nat]
  /\ StaleAfter \in Nat /\ SendWithin \in Nat
  /\ MaxTime \in Nat \ {0} /\ MaxFaults \in Nat
  /\ SendWithin < StaleAfter

(* None and Gone are not rows.                                              *)
NotRows == None \notin Row /\ Gone \notin Row /\ None # Gone

EnqueueMail(m) ==
  /\ outbox[m] = None /\ clock <= EnqueueBy
  /\ outbox' = [outbox EXCEPT ![m] = [status |-> "pending", attempts |-> 0,
       available |-> clock, claimed |-> 0, created |-> clock]]
  /\ UNCHANGED <<worker, drains, clock, faults>>

(* Slip: a row that is being sent is due as soon as it is available.        *)
DueUnclaimed ==
  {m \in Stored : outbox[m].status \in {"pending", "sending"} /\ outbox[m].available <= clock}

(* Slip: a row whose worker died stays with it.                             *)
DueNeverStale == {m \in Stored : outbox[m].status = "pending" /\ outbox[m].available <= clock}

Due ==
  {m \in Stored : \/ outbox[m].status = "pending" /\ outbox[m].available <= clock
                  \/ outbox[m].status = "sending" /\ outbox[m].claimed + StaleAfter <= clock}

(* One statement; of rows available at one time the id decides.             *)
ClaimDueMail(w, m) ==
  /\ At(w, "idle")
  /\ m \in Due /\ \A n \in Due : outbox[m].available <= outbox[n].available
  /\ outbox' = [outbox EXCEPT ![m].status = "sending", ![m].claimed = clock]
  /\ worker' = [worker EXCEPT ![w] = [at |-> "send", mail |-> m, now |-> clock]]
  /\ UNCHANGED <<drains, clock, faults>>

(* A send that fails may have been delivered: no key marks a repetition.    *)
Send(w) ==
  /\ At(w, "send")
  /\ \E stage \in {"mark sent", "read attempts"} : worker' = [worker EXCEPT ![w].at = stage]
  /\ UNCHANGED <<outbox, drains, clock, faults>>

(* An UPDATE of a row that is gone changes nothing.                         *)
Update(w, row) ==
  LET m == worker[w].mail
  IN  outbox' = IF m \in Stored THEN [outbox EXCEPT ![m] = row] ELSE outbox

Release(w) == worker' = [worker EXCEPT ![w] = Idle]

MarkMailSent(w) ==
  /\ At(w, "mark sent")
  /\ Update(w, [outbox[worker[w].mail] EXCEPT !.status = "sent"])
  /\ Release(w)
  /\ UNCHANGED <<drains, clock, faults>>

ReadAttempts(w) ==
  /\ At(w, "read attempts")
  /\ worker' = [worker EXCEPT ![w] =
       IF worker[w].mail \in Stored
         THEN [at |-> "mark failed", mail |-> worker[w].mail, now |-> worker[w].now,
               attempts |-> outbox[worker[w].mail].attempts + 1]
         ELSE Idle]
  /\ UNCHANGED <<outbox, drains, clock, faults>>

Failed(row, attempts, now) ==
  IF attempts >= MaxAttempts
    THEN [row EXCEPT !.status = "dead", !.attempts = attempts, !.available = now]
    ELSE [row EXCEPT !.status = "pending", !.attempts = attempts,
                     !.available = now + Backoff[attempts], !.claimed = 0]

MarkMailFailed(w) ==
  /\ At(w, "mark failed")
  /\ Update(w, Failed(outbox[worker[w].mail], worker[w].attempts, worker[w].now))
  /\ Release(w)
  /\ UNCHANGED <<drains, clock, faults>>

(* The process dies, or a statement fails: the row stays as it is.          *)
Fault(w) ==
  /\ ~At(w, "idle") /\ faults < MaxFaults
  /\ faults' = faults + 1
  /\ Release(w)
  /\ UNCHANGED <<outbox, drains, clock>>

(* Once an hour, of any status.                                             *)
PurgeMailOutbox ==
  /\ \E m \in Stored : outbox[m].created + RetainFor <= clock
  /\ outbox' = [m \in Mails |-> IF m \in Stored /\ outbox[m].created + RetainFor <= clock
                                  THEN Gone ELSE outbox[m]]
  /\ UNCHANGED <<worker, drains, clock, faults>>

(* The drain polls every second, and the provider's client gives up.  A     *)
(* mail that is due waits only while every process is busy with another.    *)
Tick ==
  /\ clock < MaxTime
  /\ \A w \in drains : IF At(w, "idle") THEN Due = {}
                       ELSE clock < worker[w].now + SendWithin
  /\ clock' = clock + 1
  /\ UNCHANGED <<outbox, worker, drains, faults>>

----------------------------------------------------------------------------
Drain(w) ==
  \/ \E m \in Mails : ClaimDueMail(w, m)
  \/ Send(w) \/ MarkMailSent(w) \/ ReadAttempts(w) \/ MarkMailFailed(w)

Next ==
  \/ \E m \in Mails : EnqueueMail(m)
  \/ \E w \in drains : Drain(w) \/ Fault(w)
  \/ PurgeMailOutbox
  \/ Tick

Init ==
  /\ outbox = [m \in Mails |-> None]
  /\ worker = [w \in Workers |-> Idle]
  /\ drains \in (SUBSET Workers) \ {{}}
  /\ clock = 1 /\ faults = 0

Spec == Init /\ [][Next]_vars

----------------------------------------------------------------------------
(* Properties.                                                              *)

TypeOK ==
  /\ outbox \in [Mails -> Row \cup {None, Gone}]
  /\ \A m \in Stored : outbox[m].status = "dead" <=> outbox[m].attempts = MaxAttempts
  /\ drains \in (SUBSET Workers) \ {{}}
  /\ clock \in 1..MaxTime /\ faults \in 0..MaxFaults

(* No two processes are sending one mail, through crashes, lost marks and   *)
(* rows taken back from a process that died; a send that outlasts           *)
(* StaleAfter would break this, and the provider's client gives up sooner.  *)
MailHasOneHolder ==
  \A v, w \in Workers :
    v # w /\ ~At(v, "idle") /\ ~At(w, "idle") => worker[v].mail # worker[w].mail

(* A mail that is sent, or given up, stays so until it is purged, although  *)
(* the marks are written by id alone.                                       *)
SettledIsFinal ==
  [][\A m \in Mails :
       m \in Stored /\ outbox[m].status \in {"sent", "dead"} => outbox'[m] \in {outbox[m], Gone}]_vars

(* Every mail is sent or given up in time, also when the process that was   *)
(* sending it died and when other mails are before it in the queue of the   *)
(* one process there is: what its attempts may last, a stale claim for      *)
(* every fault, and every attempt of the other mails.                       *)
LongestWait == CHOOSE n \in {SendWithin} \cup Range(Backoff) :
                 \A k \in {SendWithin} \cup Range(Backoff) : k <= n

EveryMailSettles ==
  \A m \in Stored :
    outbox[m].status \in {"pending", "sending"} =>
      clock <= outbox[m].created + MaxAttempts * LongestWait + faults * StaleAfter
                 + (Cardinality(Mails) - 1) * MaxAttempts * SendWithin

=============================================================================
