-------------------------------- MODULE Alerts --------------------------------
(***************************************************************************)
(* The findings of one meeting and the mail about them: the detector       *)
(* (backend/src/services/anomaly-detection.ts), the notifications it leads *)
(* to (notification.ts), the alerts and digests mailed from them           *)
(* (email-delivery.ts, digest-scheduler.ts) and unsubscription.            *)
(*                                                                         *)
(* A detection replaces all findings of its meeting.  Its deletion sees    *)
(* the rows committed when the statement began, so that two detections at  *)
(* once leave the findings of both.  The announcement runs after the       *)
(* commit, in the memory of the process, and ends in the immediate mails;  *)
(* a digest is a process of its own.                                       *)
(***************************************************************************)
EXTENDS Naturals, FiniteSets

CONSTANTS
  AlertRules,   \* detection rules
  Grave,        \* those of critical or high severity, mailed at once
  Policies,     \* the rules a policy may hold for review
  Subscribers,  \* verified alert_subscriptions of the jurisdiction
  Detections,   \* runs of detectAnomalies that may overlap
  Digests,      \* runs of a digest that may overlap
  MaxFindings,  \* bound: MaxFindings[r]: anomaly_flags ever inserted for rule r
  MaxLosses     \* bound: deaths and throws

ASSUME AlertsConstants ==
  /\ Grave \subseteq AlertRules /\ Policies \subseteq SUBSET AlertRules
  /\ MaxFindings \in [AlertRules -> Nat] /\ MaxLosses \in Nat
  /\ Detections \cap Digests = {} /\ Digests # {} /\ IsFiniteSet(Digests)

VARIABLES
  finding,   \* finding[<<r, k>>]: review_state of the k-th finding of rule r
  threshold, \* the rules the policy holds for review
  notice,    \* notice[<<s, i>>]: email_status of the notification; none: no row
  enabled,   \* subscriptions with email_enabled
  stopped,   \* addresses on the suppression list
  task,      \* task[p]: where a detection or a digest is
  alerted,   \* alerted[<<s, i>>]: mails to s that told of i, while i exists
  losses     \* deaths and throws so far

alertVars == <<finding, threshold, notice, enabled, stopped, task, alerted, losses>>
reviewVars == <<finding, threshold>>
readerVars == <<enabled, stopped>>

Flags == UNION {{r} \X (1..MaxFindings[r]) : r \in AlertRules}
Notices == Subscribers \X Flags
Tasks == Detections \cup Digests
Idle == [stage |-> "idle", rules |-> {}, ids |-> {}, todo |-> {}, list |-> {}, mail |-> {}]
States == {"none", "held", "published", "gone"}
Stages == {"idle", "deleting", "announcing", "noting", "listing", "mailing", "cleared", "taken"}
Task == [stage : Stages, rules : SUBSET AlertRules, ids : SUBSET (Flags \cup Subscribers),
         todo : SUBSET Notices, list : SUBSET Notices, mail : SUBSET Notices]

AlertsTypeOK ==
  /\ finding \in [Flags -> States]
  /\ threshold \subseteq AlertRules
  /\ notice \in [Notices -> {"none", "pending", "queued", "sent", "skipped", "failed"}]
  /\ \A n \in Notices : notice[n] # "none" => finding[n[2]] \in {"held", "published"}
  /\ enabled \subseteq Subscribers /\ stopped \subseteq Subscribers
  /\ task \in [Tasks -> Task]
  /\ alerted \in [Notices -> Nat] /\ losses \in 0..MaxLosses

AlertsInit ==
  /\ finding = [i \in Flags |-> "none"]
  /\ threshold \in Policies
  /\ notice = [n \in Notices |-> "none"]
  /\ enabled = Subscribers /\ stopped = {}
  /\ task = [p \in Tasks |-> Idle]
  /\ alerted = [n \in Notices |-> 0]
  /\ losses = 0

-----------------------------------------------------------------------------
(* Operators and subscribers.                                              *)

\* updatePolicy
SetThreshold ==
  /\ \E held \in Policies : threshold' = held
  /\ UNCHANGED <<finding, notice, readerVars, task, alerted, losses>>

\* approveFinding: announced through the event log, not here.
ApproveFlag(i) ==
  /\ finding[i] = "held"
  /\ finding' = [finding EXCEPT ![i] = "published"]
  /\ UNCHANGED <<threshold, notice, readerVars, task, alerted, losses>>

\* The link in a mail turns the subscription off...
TurnOff(s) ==
  /\ enabled' = enabled \ {s}
  /\ UNCHANGED <<reviewVars, notice, stopped, task, alerted, losses>>

\* unsubscribeByToken: ... and the suppression list.
StopMail(s) ==
  /\ s \notin enabled /\ s \notin stopped
  /\ stopped' = stopped \cup {s}
  /\ UNCHANGED <<reviewVars, notice, enabled, task, alerted, losses>>

-----------------------------------------------------------------------------
(* detectAnomalies.                                                        *)

Standing(S) == {i \in S : finding[i] \in {"held", "published"}}

\* The row the next insert for r makes.
New(r) ==
  {i \in Flags : i[1] = r /\ finding[i] = "none" /\ \A k \in 1..(i[2] - 1) : finding[<<r, k>>] # "none"}

\* The policy is read and the statement that deletes begins.
Detect(p) ==
  /\ task[p] = Idle
  /\ task' = [task EXCEPT ![p] = [Idle EXCEPT !.stage = "deleting", !.rules = threshold,
                                              !.ids = Standing(Flags)]]
  /\ UNCHANGED <<reviewVars, notice, readerVars, alerted, losses>>

\* The rules that fire give the new findings; deletions take their
\* notifications with them.  Only published ones are announced.
ReplaceFlags(p) ==
  /\ task[p].stage = "deleting"
  /\ \E fired \in SUBSET {r \in AlertRules : New(r) # {}} :
       /\ finding' = [i \in Flags |->
            CASE i \in UNION {New(r) : r \in fired} ->
                   IF i[1] \in task[p].rules THEN "held" ELSE "published"
              [] i \in task[p].ids -> "gone"
              [] OTHER -> finding[i]]
       /\ LET told == fired \ task[p].rules IN
            task' = [task EXCEPT ![p] = IF told = {} THEN Idle
                       ELSE [Idle EXCEPT !.stage = "announcing", !.rules = told]]
  /\ notice' = [n \in Notices |-> IF n[2] \in task[p].ids THEN "none" ELSE notice[n]]
  /\ alerted' = [n \in Notices |-> IF n[2] \in task[p].ids THEN 0 ELSE alerted[n]]
  /\ UNCHANGED <<threshold, readerVars, losses>>

-----------------------------------------------------------------------------
(* processAnomalyEvent.                                                    *)

\* Mutant: the rows of the rules announced, whatever their review_state.
AnnouncedAny(rules) == {i \in Standing(Flags) : i[1] \in rules}

\* The rows are looked up by rule: published only.
Announced(rules) == {i \in Standing(Flags) : i[1] \in rules /\ finding[i] = "published"}

\* The subscriptions and the findings are read.
ReadFlags(p) ==
  /\ task[p].stage = "announcing"
  /\ task' = [task EXCEPT ![p] = [Idle EXCEPT !.stage = "noting", !.ids = enabled,
                                              !.todo = Subscribers \X Announced(task[p].rules)]]
  /\ UNCHANGED <<reviewVars, notice, readerVars, alerted, losses>>

\* The row is new and its finding has not been deleted.
Insertable(n) == notice[n] = "none" /\ n[2] \in Standing(Flags)

\* email_status as inserted; digest_only makes no difference to it.
StatusOf(n, on) ==
  CASE n[1] \notin on -> "skipped"
    [] n[2][1] \in Grave -> "queued"
    [] OTHER -> "pending"

\* The notifications, and those among them to be mailed at once: rows of this
\* announcement, so that no other lists them.
WriteNotices(p) ==
  /\ task[p].stage = "noting"
  /\ LET new == {n \in task[p].todo : Insertable(n)}
         status(n) == StatusOf(n, task[p].ids) IN
       /\ notice' = [n \in Notices |-> IF n \in new THEN status(n) ELSE notice[n]]
       /\ task' = [task EXCEPT ![p] = [Idle EXCEPT !.stage = "listing",
                                                   !.list = {n \in new : status(n) = "queued"}]]
  /\ UNCHANGED <<reviewVars, readerVars, alerted, losses>>

\* The next alert, one finding to a mail.
NextAlert(p) ==
  /\ p \in Detections /\ task[p].stage = "listing"
  /\ \E n \in task[p].list :
       task' = [task EXCEPT ![p] = [@ EXCEPT !.stage = "mailing", !.list = task[p].list \ {n}, !.mail = {n}]]
  /\ UNCHANGED <<reviewVars, notice, readerVars, alerted, losses>>

-----------------------------------------------------------------------------
(* runDailyDigest, runWeeklyDigest.                                        *)

\* Mutant: whatever has not been sent.
DueUnsent(n) == notice[n] \in {"pending", "queued"}

\* What a digest takes.
Due(n) == notice[n] = "pending"

\* getPendingSubscriptions: those with email_enabled.
StartDigest(p) ==
  /\ task[p] = Idle
  /\ LET list == {n \in Notices : Due(n) /\ n[1] \in enabled} IN
       list # {} /\ task' = [task EXCEPT ![p] = [Idle EXCEPT !.stage = "listing", !.list = list]]
  /\ UNCHANGED <<reviewVars, notice, readerVars, alerted, losses>>

\* For the next of them, what is due by now.
NextDigest(p) ==
  /\ p \in Digests /\ task[p].stage = "listing"
  /\ \E s \in {n[1] : n \in task[p].list} :
       LET mail == {n \in Notices : n[1] = s /\ Due(n)} IN
       task' = [task EXCEPT ![p] = [@ EXCEPT !.list = {n \in task[p].list : n[1] # s}, !.mail = mail,
                                             !.stage = IF mail = {} THEN "listing" ELSE "mailing"]]
  /\ UNCHANGED <<reviewVars, notice, readerVars, alerted, losses>>

-----------------------------------------------------------------------------
(* sendEmail, for both.                                                    *)

To(p) == CHOOSE s \in Subscribers : \E n \in task[p].mail : n[1] = s

\* Whether the list lets the mail go.
Lookup(p) == To(p) \notin stopped

\* The rows of this mail get their status; rows that are gone get none.
SetStatus(p, status) ==
  notice' = [n \in Notices |-> IF n \in task[p].mail /\ notice[n] # "none" THEN status ELSE notice[n]]

\* On to the next mail.
Finished(p) == [task EXCEPT ![p] = [@ EXCEPT !.stage = "listing", !.mail = {}]]

\* The suppression list is asked.
Clear(p) ==
  /\ task[p].stage = "mailing"
  /\ IF Lookup(p)
     THEN task' = [task EXCEPT ![p].stage = "cleared"] /\ UNCHANGED notice
     ELSE SetStatus(p, "skipped") /\ task' = Finished(p)
  /\ UNCHANGED <<reviewVars, readerVars, alerted, losses>>

\* The provider takes it.
Post(p) ==
  /\ task[p].stage = "cleared"
  /\ alerted' = [n \in Notices |-> alerted[n] +
       (IF n \in task[p].mail /\ notice[n] # "none" THEN 1 ELSE 0)]
  /\ task' = [task EXCEPT ![p].stage = "taken"]
  /\ UNCHANGED <<reviewVars, notice, readerVars, losses>>

\* It gives no id, or the call throws, with the mail taken or not: an alert is
\* failed, a digest that threw stays pending.
PostFails(p) ==
  /\ task[p].stage \in {"cleared", "taken"} /\ losses < MaxLosses
  /\ losses' = losses + 1
  /\ SetStatus(p, "failed") \/ (p \in Digests /\ UNCHANGED notice)
  /\ task' = Finished(p)
  /\ UNCHANGED <<reviewVars, readerVars, alerted>>

\* The rows are sent.
MarkSent(p) ==
  /\ task[p].stage = "taken"
  /\ SetStatus(p, "sent")
  /\ task' = Finished(p)
  /\ UNCHANGED <<reviewVars, readerVars, alerted, losses>>

\* The task is done.
EndTask(p) ==
  /\ task[p].stage = "listing" /\ task[p].list = {}
  /\ task' = [task EXCEPT ![p] = Idle]
  /\ UNCHANGED <<reviewVars, notice, readerVars, alerted, losses>>

\* The process dies: what it was to announce or to mail is in no table.
LoseTask(p) ==
  /\ task[p] # Idle /\ losses < MaxLosses
  /\ losses' = losses + 1
  /\ task' = [task EXCEPT ![p] = Idle]
  /\ UNCHANGED <<reviewVars, notice, readerVars, alerted>>

AlertsNext ==
  \/ SetThreshold
  \/ \E i \in Flags : ApproveFlag(i)
  \/ \E s \in Subscribers : TurnOff(s) \/ StopMail(s)
  \/ \E p \in Detections :
       Detect(p) \/ ReplaceFlags(p) \/ ReadFlags(p) \/ WriteNotices(p) \/ NextAlert(p)
  \/ \E p \in Digests : StartDigest(p) \/ NextDigest(p)
  \/ \E p \in Tasks :
       Clear(p) \/ Post(p) \/ PostFails(p) \/ MarkSent(p) \/ EndTask(p) \/ LoseTask(p)

AlertsSpec == AlertsInit /\ [][AlertsNext]_alertVars

-----------------------------------------------------------------------------
(* Properties.                                                             *)

\* No notification is about a finding held for review, also when a second
\* detection, under a stricter policy, replaces the findings that the first
\* is about to announce (notification.ts: "emailed while the site is still
\* withholding it").
NoticedIsPublished ==
  \A n \in Notices : notice[n] # "none" => finding[n[2]] = "published"

\* A subscriber is told of a finding once for each digest that overlaps, and
\* once more for each mail whose mark was lost; alerts and digests do not
\* both tell it.
ToldOnce ==
  \A n \in Notices : alerted[n] <= Cardinality(Digests) + losses
=============================================================================
