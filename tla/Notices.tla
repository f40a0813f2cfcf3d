------------------------------ MODULE Notices ------------------------------
(***************************************************************************)
(* What happens around a login besides the login: the event bus            *)
(* (api/events/events.go) hands the event to its two subscribers in turn,  *)
(* each of which queues a task; the tasks send an e-mail (queues/email.go) *)
(* and record an activity (queues/activity.go); and the user pages through *)
(* the recorded activities (api/services/activity-service.go).             *)
(***************************************************************************)
EXTENDS Integers, FiniteSets

CONSTANTS Logins,      \* the logins of one user
          MailRetry,   \* asynq.MaxRetry of the tasks, 3 (utils.go:19)
          Concurrency, \* tasks the worker runs at the same time
          Limit,       \* page length the client asks for
          MaxFaults    \* bound on failed calls, lost replies and crashes

ASSUME NoticesAssumption ==
  /\ IsFiniteSet(Logins)
  /\ MailRetry \in Nat
  /\ Concurrency \in Nat \ {0}
  /\ Limit \in Nat \ {0}
  /\ MaxFaults \in Nat

Kinds == {"email", "activity"}
Tasks == Kinds \X Logins
Mail(l) == <<"email", l>>
Log(l) == <<"activity", l>>

VARIABLES published,   \* progress of the request that publishes the login
          undelivered, \* tasks whose subscriber failed
          pc, retried, \* the tasks (TaskQueue)
          sent,        \* e-mails the provider sent
          stamp,       \* created_at of the row the handler inserts
          rows,        \* the user_activities table
          clock,       \* the time of the last stamp
          feed,        \* the client that pages through the activities
          faults       \* faults so far

Q == INSTANCE TaskQueue WITH
       MaxRetry <- [t \in Tasks |-> MailRetry], Exhaustible <- {}

queue == <<pc, retried>>
work == <<sent, stamp, rows, clock>>
vars == <<published, undelivered, queue, work, feed, faults>>

(* offset, total and empty are of the page at hand, seen what the client   *)
(* was shown, before what was there when it began.                         *)
NoFeed == [at |-> "idle", offset |-> 0, total |-> 0, empty |-> FALSE,
           seen |-> {}, before |-> {}]

Init ==
  /\ published = [l \in Logins |-> "email"]
  /\ undelivered = {}
  /\ Q!QueueInit
  /\ sent = [l \in Logins |-> 0]
  /\ stamp = [l \in Logins |-> 0]
  /\ rows = {}
  /\ clock = 0
  /\ feed = NoFeed
  /\ faults = 0

Fault == faults < MaxFaults /\ faults' = faults + 1

-----------------------------------------------------------------------------
(* PublishEvent of LoginUser: the subscribers in the order of              *)
(* registration, each in a dispatch of its own.  published is the one      *)
(* whose turn it is.                                                       *)

After(kind) == IF kind = "email" THEN "activity" ELSE "answered"

(* Mutant: dispatch does not recover, the request panics.                  *)
SubscriberPanics(l, kind) ==
  /\ published[l] = kind
  /\ published' = [published EXCEPT ![l] = "answered"]
  /\ undelivered' = undelivered \union {<<kind, l>>}
  /\ UNCHANGED queue
  /\ Fault
  /\ UNCHANGED <<work, feed>>

(* The subscriber cannot queue its task, and logs it, or panics, and       *)
(* dispatch recovers: the next one gets the event all the same.            *)
SubscriberFails(l, kind) ==
  /\ published[l] = kind
  /\ published' = [published EXCEPT ![l] = After(kind)]
  /\ undelivered' = undelivered \union {<<kind, l>>}
  /\ UNCHANGED queue
  /\ Fault
  /\ UNCHANGED <<work, feed>>

(* The subscriber queues its task; if the reply is lost it logs an error.  *)
Dispatch(l, kind) ==
  /\ published[l] = kind
  /\ published' = [published EXCEPT ![l] = After(kind)]
  /\ Q!Enqueue(<<kind, l>>)
  /\ UNCHANGED <<undelivered, work, feed, faults>>

ApiCrash(l) ==
  /\ published[l] \in Kinds
  /\ published' = [published EXCEPT ![l] = "died"]
  /\ Fault
  /\ UNCHANGED <<undelivered, queue, work, feed>>

-----------------------------------------------------------------------------
(* HandleEmailSend and HandleCreateActivity.  Neither runs behind the      *)
(* middleware; the payloads are well formed and the templates render.      *)

WorkerFree == Cardinality({t \in Tasks : Q!Active(t)}) < Concurrency

StartMail(l) ==
  /\ WorkerFree
  /\ Q!Start(Mail(l), "send")
  /\ UNCHANGED work

(* Mutant: a provider error is not worth a retry.                          *)
SendFailsForGood(l) == Q!Archive(Mail(l))

(* The error of Send is returned as it is.                                 *)
SendFails(l) == Q!Fail(Mail(l))

SendMail(l) ==
  /\ pc[Mail(l)] = "send"
  /\ sent' = [sent EXCEPT ![l] = @ + 1]
  /\ Q!Complete(Mail(l))
  /\ UNCHANGED <<stamp, rows, clock, faults>>

SendLost(l) ==
  /\ pc[Mail(l)] = "send"
  /\ \/ sent' = [sent EXCEPT ![l] = @ + 1]
     \/ UNCHANGED sent
  /\ SendFails(l)
  /\ Fault
  /\ UNCHANGED <<stamp, rows, clock>>

(* created_at is set when the insert is built, not when it commits.        *)
StartLog(l) ==
  /\ WorkerFree
  /\ Q!Start(Log(l), "insert")
  /\ clock' = clock + 1
  /\ stamp' = [stamp EXCEPT ![l] = clock + 1]
  /\ UNCHANGED <<sent, rows>>

Row(l) == [login |-> l, key |-> stamp[l]]

InsertLog(l) ==
  /\ pc[Log(l)] = "insert"
  /\ rows' = rows \union {Row(l)}
  /\ Q!Complete(Log(l))
  /\ UNCHANGED <<sent, stamp, clock, faults>>

(* SkipRetry.                                                              *)
InsertFails(l) == Q!Archive(Log(l))

InsertLost(l) ==
  /\ pc[Log(l)] = "insert"
  /\ \/ rows' = rows \union {Row(l)}
     \/ UNCHANGED rows
  /\ InsertFails(l)
  /\ Fault
  /\ UNCHANGED <<sent, stamp, clock>>

(* The worker dies, before the handler's call or after it.                 *)
WorkerCrash(t) ==
  /\ Q!LeaseLost(t)
  /\ \/ UNCHANGED <<sent, rows>>
     \/ /\ t[1] = "email"
        /\ sent' = [sent EXCEPT ![t[2]] = @ + 1]
        /\ UNCHANGED rows
     \/ /\ t[1] = "activity"
        /\ rows' = rows \union {Row(t[2])}
        /\ UNCHANGED sent
  /\ Fault
  /\ UNCHANGED <<stamp, clock>>

-----------------------------------------------------------------------------
(* GetMyActivities, called for one page after the other by a client.  The  *)
(* rows are counted by one query and read by another.                      *)

Newer(e) == Cardinality({f \in rows : f.key > e.key})

Browse ==
  /\ feed.at = "idle"
  /\ feed' = [NoFeed EXCEPT !.at = "count", !.before = rows]

(* Mutant: the page's limits are applied to the count as well.             *)
CountPage ==
  /\ feed.at = "count"
  /\ feed' = [feed EXCEPT !.at = "find", !.total = Cardinality(
                {e \in rows : feed.offset <= Newer(e)
                              /\ Newer(e) < feed.offset + Limit})]

Count ==
  /\ feed.at = "count"
  /\ feed' = [feed EXCEPT !.at = "find", !.total = Cardinality(rows)]

(* Mutant: the newest row of the page is left out.                         *)
PageRowsOffByOne ==
  {e \in rows : feed.offset < Newer(e) /\ Newer(e) <= feed.offset + Limit}

PageRows ==
  {e \in rows : feed.offset <= Newer(e) /\ Newer(e) < feed.offset + Limit}

Find ==
  /\ feed.at = "find"
  /\ feed' = [feed EXCEPT !.at = "page", !.empty = PageRows = {},
                          !.seen = @ \union PageRows]

TurnPage ==
  /\ feed.at = "page"
  /\ ~feed.empty
  /\ feed' = [feed EXCEPT !.at = "count", !.offset = @ + Limit]

Close ==
  /\ feed.at # "idle"
  /\ feed' = NoFeed

Page == Count \/ Find
Reading ==
  /\ Browse \/ Page \/ TurnPage \/ Close
  /\ UNCHANGED <<published, undelivered, queue, work, faults>>

-----------------------------------------------------------------------------
Request(l) == \E k \in Kinds : Dispatch(l, k)
Handler(l) == SendMail(l) \/ InsertLog(l)
HandlerFails(l) == SendLost(l) \/ InsertLost(l)
Started(l) == StartMail(l) \/ StartLog(l)

Worker(l) ==
  /\ Handler(l) \/ HandlerFails(l)
  /\ UNCHANGED <<published, undelivered, feed>>

Pickup(l) ==
  /\ Started(l)
  /\ UNCHANGED <<published, undelivered, feed, faults>>

Crash(t) == WorkerCrash(t) /\ UNCHANGED <<published, undelivered, feed>>

Next ==
  \/ \E l \in Logins : \/ Request(l) \/ ApiCrash(l) \/ Worker(l) \/ Pickup(l)
                       \/ \E k \in Kinds : SubscriberFails(l, k)
  \/ \E t \in Tasks : Crash(t)
  \/ Reading

Spec == Init /\ [][Next]_vars

(* A handler that runs returns, and Redis hands a queued task to a worker: *)
(* tasks of one queue are taken in order.                                  *)
Fairness == \A l \in Logins : WF_vars(Worker(l)) /\ SF_vars(Pickup(l))

FairSpec == Spec /\ Fairness

-----------------------------------------------------------------------------
Labels == {"idle", "queued", "archived", "send", "insert"}
Entry == [login : Logins, key : Nat]

(* Type invariant.                                                         *)
TypeOK ==
  /\ published \in [Logins -> Kinds \union {"answered", "died"}]
  /\ undelivered \subseteq Tasks
  /\ pc \in [Tasks -> Labels]
  /\ retried \in [Tasks -> 0 .. MailRetry]
  /\ sent \in [Logins -> Nat]
  /\ stamp \in [Logins -> Nat]
  /\ rows \subseteq Entry
  /\ clock \in Nat
  /\ feed \in [at : {"idle", "count", "find", "page"}, offset : Nat,
               total : Nat, empty : BOOLEAN, seen : SUBSET Entry, before : SUBSET Entry]
  /\ faults \in 0 .. MaxFaults

(* events.go:87-94: a subscriber that panics or fails keeps the event from *)
(* no other: when the login answers, and nothing failed, every task was    *)
(* queued, done, or given up by a worker that tried.                       *)
Attempted(t) == pc[t] # "idle" \/ (IF t[1] = "email" THEN sent[t[2]] > 0
                                   ELSE \E e \in rows : e.login = t[2])
EventReachesAll ==
  \A l \in Logins : published[l] = "answered" =>
    \A k \in Kinds : <<k, l>> \in undelivered \/ Attempted(<<k, l>>)

(* email.go:102, "failed sending email, will retry": an e-mail is given up *)
(* only when every attempt failed, although attempts end in errors, lost   *)
(* replies and crashes of the worker.                                      *)
MailIsRetried ==
  \A l \in Logins : pc[Mail(l)] = "archived" => faults > MailRetry

(* A client that turns pages until one is empty has seen every activity    *)
(* that was recorded when it began, although more are recorded while it    *)
(* reads, and not in the order of their times.                             *)
FeedIsComplete ==
  feed.at = "page" /\ feed.empty => feed.before \subseteq feed.seen

(* repository/activity.go:46-48: a page comes with "the total number of    *)
(* rows behind it", counted by a query of its own.  While no activity is   *)
(* recorded, the total tells the last page: who turns pages up to it has   *)
(* seen everything.                                                        *)
LastPageIsLast ==
  feed.at = "page" /\ rows = feed.before /\ feed.offset + Limit >= feed.total
    => feed.before \subseteq feed.seen

(* A login that was queued for the e-mail is mailed in the end, unless     *)
(* more sends, replies or workers fail than the task has retries.          *)
MailIsSent ==
  \A l \in Logins :
    pc[Mail(l)] # "idle" ~> sent[l] > 0 \/ faults > MailRetry
=============================================================================
