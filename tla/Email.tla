------------------------------- MODULE Email -------------------------------
(***************************************************************************)
(* Sending mail: src/src/email/index.ts.  sendMany prepares every message  *)
(* and hands the batch to the backend; the HTTP backend posts them one by  *)
(* one, each post an await, and throws at the first that is refused.  The  *)
(* caller is typically a job, which is run again when it throws.  A post   *)
(* can be accepted and its answer lost.                                    *)
(***************************************************************************)
EXTENDS Naturals, Sequences

CONSTANTS
  Batches,     \* batches to send: sequences of messages
  People,      \* addresses
  Somewhere,   \* the address of email.redirectTo
  MaxCalls     \* bound: times a batch is sent, the job's attempts

\* A message: its addressees, whether it has a sender of its own, a text, an HTML body; "original"
\* is the X-Original-To header that prepare writes.
Mail == [to: SUBSET People, cc: SUBSET People, bcc: SUBSET People, from: BOOLEAN, text: BOOLEAN,
         html: BOOLEAN, original: {{}}]

ASSUME EmailConstants ==
  /\ MaxCalls \in Nat \ {0} /\ Somewhere \notin People
  /\ Batches \subseteq Seq(Mail)

VARIABLES
  settings,    \* whether mail is redirected, has a default sender, and the backend
  batch,       \* the batch being sent
  mailer,      \* where the call of sendMany is: "idle", "sending" or "reported"
  posted,      \* messages of the batch this call has posted
  callsMade,   \* calls of sendMany
  results,     \* what this call has to return: whom each message was accepted for
  mailbox      \* what the provider has accepted, in order

mailVars == <<settings, batch, mailer, posted, callsMade, results, mailbox>>

\* prepare: the default sender, and with redirectTo one recipient in place of them all.
Sender(message) == message.from \/ settings.from
WithBody(message) == message.text \/ message.html
RedirectedTo(message) == [message EXCEPT !.to = {Somewhere}, !.original = message.to]
Redirected(message) == [message EXCEPT !.to = {Somewhere}, !.cc = {}, !.bcc = {}, !.original = message.to]
Prepared(message) == IF settings.redirected THEN Redirected(message) ELSE message
Prepares(message) == Sender(message) /\ WithBody(message)
Recipients(message) == message.to \cup message.cc \cup message.bcc

MailInit ==
  /\ settings \in [redirected : BOOLEAN, from : BOOLEAN, backend : {"memory", "console", "null", "http"}]
  /\ batch \in Batches
  /\ mailer = "idle" /\ posted = 0 /\ callsMade = 0 /\ results = <<>> /\ mailbox = <<>>

Deliver(n) == mailbox' = mailbox \o [i \in 1..n |-> [index |-> posted + i, call |-> callsMade,
                                                     message |-> Prepared(batch[posted + i])]]

\* sendMany: one message that cannot be prepared refuses them all.
SendMany ==
  /\ mailer = "idle" /\ callsMade < MaxCalls
  /\ callsMade' = callsMade + 1 /\ posted' = 0 /\ results' = <<>>
  /\ mailer' = IF \A i \in DOMAIN batch : Prepares(batch[i]) THEN "sending" ELSE "idle"
  /\ UNCHANGED <<settings, batch, mailbox>>

\* The console, the memory and the null backend take a batch whole, and the HTTP backend an
\* empty one; only memory's is kept.
TakeAll ==
  /\ mailer = "sending" /\ (settings.backend # "http" \/ batch = <<>>)
  /\ IF settings.backend = "memory" THEN Deliver(Len(batch)) ELSE UNCHANGED mailbox
  /\ mailer' = "reported" /\ posted' = Len(batch)
  /\ results' = [i \in DOMAIN batch |-> Recipients(Prepared(batch[i]))]
  /\ UNCHANGED <<settings, batch, callsMade>>

\* One post of the HTTP backend: accepted, refused, or accepted with the answer lost; a call that
\* throws loses the results of the posts before.
Posting == mailer = "sending" /\ settings.backend = "http" /\ posted < Len(batch)
Post ==
  /\ Posting
  /\ Deliver(1) /\ posted' = posted + 1
  /\ results' = Append(results, Recipients(Prepared(batch[posted + 1])))
  /\ mailer' = IF posted + 1 = Len(batch) THEN "reported" ELSE "sending"
  /\ UNCHANGED <<settings, batch, callsMade>>
PostFails ==
  /\ Posting
  /\ UNCHANGED mailbox \/ Deliver(1)
  /\ mailer' = "idle" /\ results' = <<>>
  /\ UNCHANGED <<settings, batch, posted, callsMade>>

MailNext == SendMany \/ TakeAll \/ Post \/ PostFails
MailSpec == MailInit /\ [][MailNext]_mailVars

-----------------------------------------------------------------------------
MailTypeOK == mailer \in {"idle", "sending", "reported"} /\ posted \in Nat /\ callsMade \in 0..MaxCalls

Copies(call, i) == {n \in DOMAIN mailbox : mailbox[n].call = call /\ mailbox[n].index = i}

(* A staging copy writes to nobody real: with redirectTo every accepted      *)
(* message goes to that one address, with those of its "to" kept aside.  A   *)
(* batch with a message that cannot be prepared leaves nothing behind.  What *)
(* a call has had accepted, also one that threw, is the beginning of the     *)
(* batch, from its first message on, in order, none of it twice: only        *)
(* another call sends it again.  A call that returns has had every message   *)
(* accepted, and each result names the recipients its own message went to.   *)
MailHonest ==
  /\ \A n \in DOMAIN mailbox :
       /\ settings.redirected => /\ Recipients(mailbox[n].message) = {Somewhere}
                                 /\ mailbox[n].message.original = batch[mailbox[n].index].to
       /\ \A i \in DOMAIN batch : Prepares(batch[i])
       /\ \/ mailbox[n].index = 1
          \/ /\ n > 1 /\ mailbox[n - 1].call = mailbox[n].call
             /\ mailbox[n - 1].index = mailbox[n].index - 1
  /\ \A call \in 1..callsMade, i \in DOMAIN batch : Copies(call, i) \in {{}} \cup {{n} : n \in DOMAIN mailbox}
  /\ mailer = "reported" =>
       /\ DOMAIN results = DOMAIN batch
       /\ settings.backend \in {"http", "memory"} =>
            \A i \in DOMAIN batch :
              \E n \in Copies(callsMade, i) : results[i] = Recipients(mailbox[n].message)

(* A redirect keeps the original recipients of a message (email/index.ts:    *)
(* "keeping the originals in an X-Original-To header"): all of them.  The    *)
(* code keeps those of "to" and drops cc and bcc: ServicesOriginals.cfg      *)
(* shows it.                                                                 *)
OriginalsKept ==
  settings.redirected => \A n \in DOMAIN mailbox :
    mailbox[n].message.original = Recipients(batch[mailbox[n].index])
=============================================================================
