--------------------------- MODULE Notifications ----------------------------
(***************************************************************************)
(* E-mail (apps/notifications, apps/accounts/tasks.py): the notifications  *)
(* of domain events, each a row with a status and a Celery task that sends *)
(* it, with retries; and the mails of codes and reset tokens, whose tasks  *)
(* have retries and no row.                                                *)
(***************************************************************************)
EXTENDS Integers, FiniteSets

CONSTANTS Notices,         \* events with a recipient
          Letters,         \* codes and reset tokens to be mailed
          Mailers,         \* worker processes
          MaxMailRetries,  \* max_retries of the three tasks
          MaxResends,      \* calls of NotificationRetryView
          MaxTroubles,     \* tasks that die or are not sent, rows that cannot
                           \* be saved
          Nothing

ASSUME NotificationsAssumption ==
    /\ MaxMailRetries \in Nat /\ MaxResends \in Nat /\ MaxTroubles \in Nat
    /\ Notices \cap Letters = {} /\ Nothing \notin Notices \cup Letters

VARIABLES notice,      \* notice[n]: the row of n
          publishing,  \* the rows whose task is not sent yet
          mailQueue,   \* messages of the tasks
          mailer,      \* mailer[w]: the task of worker w
          mails,       \* mails[m]: how often m has been mailed
          resends, troubles

notificationVars == <<notice, publishing, mailQueue, mailer, mails, resends, troubles>>

NotificationStatus == {"PENDING", "SENT", "FAILED"}

NotificationRow == [status : NotificationStatus \cup {"NONE"},
                    retry_count : 0 .. MaxMailRetries + 1]

\* copy: resends are messages of their own.
MailMessage == [mail : Notices \cup Letters, retries : 0 .. MaxMailRetries,
                copy : 0 .. MaxResends]

FreeMailer == [step |-> "idle", mail |-> Nothing]

NotificationInit ==
    /\ notice = [n \in Notices |-> [status |-> "NONE", retry_count |-> 0]]
    /\ publishing = {}
    /\ mailQueue = {[mail |-> m, retries |-> 0, copy |-> 0] : m \in Letters}
    /\ mailer = [w \in Mailers |-> FreeMailer]
    /\ mails = [m \in Notices \cup Letters |-> 0]
    /\ resends = 0
    /\ troubles = 0

-----------------------------------------------------------------------------
(* DomainEventSubscriber.handle_event, NotificationRetryView.               *)
Trouble == troubles < MaxTroubles /\ troubles' = troubles + 1

\* The row; without a recipient handle_event returns at once.
HandleEvent(n) ==
    /\ notice[n].status = "NONE"
    /\ notice' = [notice EXCEPT ![n].status = "PENDING"]
    /\ publishing' = publishing \cup {n}
    /\ UNCHANGED <<mailQueue, mailer, mails, resends, troubles>>

DispatchNotice(n) ==
    /\ n \in publishing
    /\ publishing' = publishing \ {n}
    /\ mailQueue' = mailQueue \cup {[mail |-> n, retries |-> 0, copy |-> 0]}
    /\ UNCHANGED <<notice, mailer, mails, resends, troubles>>

\* The broker cannot be reached, or the process dies.
DispatchNoticeFails(n) ==
    /\ n \in publishing
    /\ publishing' = publishing \ {n}
    /\ Trouble
    /\ UNCHANGED <<notice, mailQueue, mailer, mails, resends>>

RetryNotice(n) ==
    /\ notice[n].status # "NONE" /\ resends < MaxResends
    /\ resends' = resends + 1
    /\ mailQueue' = mailQueue \cup {[mail |-> n, retries |-> 0, copy |-> resends']}
    /\ UNCHANGED <<notice, publishing, mailer, mails, troubles>>

-----------------------------------------------------------------------------
(* send_notification_task.                                                  *)
MailerAt(w, from, to) ==
    /\ mailer[w].step = from
    /\ mailer' = [mailer EXCEPT ![w] = to]
    /\ UNCHANGED <<publishing, resends>>

N(w) == mailer[w].mail
MailTask(w) == [mail |-> N(w), retries |-> mailer[w].retries, copy |-> mailer[w].copy]
Working(w, m, step) == [mail |-> m.mail, retries |-> m.retries, copy |-> m.copy, step |-> step]

\* The row is read; a SENT one is not sent again.
TakeNotice(w) ==
    \E m \in mailQueue :
        /\ m.mail \in Notices
        /\ mailQueue' = mailQueue \ {m}
        /\ MailerAt(w, "idle", IF notice[m.mail].status = "SENT" THEN FreeMailer
                               ELSE Working(w, m, "send"))
        /\ UNCHANGED <<notice, mails, troubles>>

SendNotice(w) ==
    /\ MailerAt(w, "send", [mailer[w] EXCEPT !.step = "sent"])
    /\ mails' = [mails EXCEPT ![N(w)] = @ + 1]
    /\ UNCHANGED <<notice, mailQueue, troubles>>

SendNoticeFails(w) ==
    /\ MailerAt(w, "send", [mailer[w] EXCEPT !.step = "raised"])
    /\ UNCHANGED <<notice, mailQueue, mails, troubles>>

MarkSent(w) ==
    /\ MailerAt(w, "sent", FreeMailer)
    /\ notice' = [notice EXCEPT ![N(w)].status = "SENT"]
    /\ UNCHANGED <<mailQueue, mails, troubles>>

\* The mail is out and the row cannot be saved: the handler takes it for a failure.
MarkSentFails(w) ==
    /\ MailerAt(w, "sent", [mailer[w] EXCEPT !.step = "raised"])
    /\ Trouble
    /\ UNCHANGED <<notice, mailQueue, mails>>

\* Variant: one retry too many.
NoRetryLeftOffByOne(w) == mailer[w].retries > MaxMailRetries

NoRetryLeft(w) == mailer[w].retries >= MaxMailRetries

\* The exception handler; the last retry ends in FAILED.
RecordFailure(w) ==
    /\ MailerAt(w, "raised", IF NoRetryLeft(w) THEN FreeMailer
                             ELSE [mailer[w] EXCEPT !.step = "retry"])
    /\ notice' = [notice EXCEPT ![N(w)].retry_count = mailer[w].retries + 1,
                                ![N(w)].status = IF NoRetryLeft(w) THEN "FAILED" ELSE @]
    /\ UNCHANGED <<mailQueue, mails, troubles>>

\* Variant: the exception is swallowed.
RetryMailDropped(w) ==
    /\ MailerAt(w, "retry", FreeMailer)
    /\ UNCHANGED <<notice, mailQueue, mails, troubles>>

RetryMail(w) ==
    /\ MailerAt(w, "retry", FreeMailer)
    /\ mailQueue' = mailQueue \cup {[MailTask(w) EXCEPT !.retries = @ + 1]}
    /\ UNCHANGED <<notice, mails, troubles>>

MailerDies(w) ==
    /\ mailer[w].step # "idle"
    /\ MailerAt(w, mailer[w].step, FreeMailer)
    /\ Trouble
    /\ UNCHANGED <<notice, mailQueue, mails>>

-----------------------------------------------------------------------------
(* send_verification_email_task, send_password_reset_email_task.            *)
SendLetter(w) ==
    \E m \in mailQueue :
        /\ m.mail \in Letters
        /\ mailQueue' = mailQueue \ {m}
        /\ MailerAt(w, "idle", FreeMailer)
        /\ mails' = [mails EXCEPT ![m.mail] = @ + 1]
        /\ UNCHANGED <<notice, troubles>>

\* After the last retry the exception is raised again, and the mail given up.
SendLetterFails(w) ==
    \E m \in mailQueue :
        /\ m.mail \in Letters
        /\ mailQueue' = (mailQueue \ {m}) \cup
                        (IF m.retries < MaxMailRetries THEN {[m EXCEPT !.retries = @ + 1]} ELSE {})
        /\ MailerAt(w, "idle", FreeMailer)
        /\ UNCHANGED <<notice, mails, troubles>>

-----------------------------------------------------------------------------
MailStep(w) == \/ TakeNotice(w) \/ SendNotice(w) \/ SendNoticeFails(w) \/ MarkSent(w)
               \/ RecordFailure(w) \/ RetryMail(w) \/ SendLetter(w) \/ SendLetterFails(w)

AllMailed == /\ mailQueue = {} /\ publishing = {}
             /\ \A w \in Mailers : mailer[w] = FreeMailer
             /\ UNCHANGED notificationVars

NotificationNext ==
    \/ \E n \in Notices : \/ HandleEvent(n) \/ DispatchNotice(n) \/ DispatchNoticeFails(n)
                          \/ RetryNotice(n)
    \/ \E w \in Mailers : MailStep(w) \/ MarkSentFails(w) \/ MailerDies(w)
    \/ AllMailed

NotificationSpec == NotificationInit /\ [][NotificationNext]_notificationVars

-----------------------------------------------------------------------------
(* Properties.                                                              *)

\* Every variable has its type.
NotificationTypeOK ==
    /\ notice \in [Notices -> NotificationRow]
    /\ publishing \subseteq Notices
    /\ mailQueue \subseteq MailMessage
    /\ \A w \in Mailers : \/ mailer[w] = FreeMailer
                          \/ /\ mailer[w].step \in {"send", "sent", "raised", "retry"}
                             /\ N(w) \in Notices /\ MailTask(w) \in MailMessage
    /\ mails \in [Notices \cup Letters -> Nat]
    /\ resends \in 0 .. MaxResends /\ troubles \in 0 .. MaxTroubles

\* A notification is SENT only if it has been mailed, and FAILED only if every
\* attempt has failed; without troubles and resends it is mailed at most once,
\* and is FAILED only if it has not been mailed at all.
StatusTellsMail ==
    \A n \in Notices :
        /\ notice[n].status = "SENT" => mails[n] > 0
        /\ notice[n].status = "FAILED" => notice[n].retry_count > 0
        /\ troubles = 0 /\ resends = 0 =>
              /\ mails[n] <= 1
              /\ notice[n].status = "FAILED" =>
                    mails[n] = 0 /\ notice[n].retry_count = MaxMailRetries + 1

\* A notification that is PENDING has a task waiting or under way, unless one
\* has died or was not sent: the handler of the task drops none.
NoticeNotDropped ==
    \A n \in Notices : notice[n].status = "PENDING" /\ troubles = 0 =>
        \/ n \in publishing
        \/ \E m \in mailQueue : m.mail = n
        \/ \E w \in Mailers : N(w) = n
=============================================================================
