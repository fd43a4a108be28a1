--------------------------- MODULE MailDelivery ---------------------------
(***************************************************************************)
(* Mail of a Gmail account comes to live in a local Maildir.  Receivers    *)
(* (simplemail-fetch: the watcher of each SimpleMail window, and one-shot  *)
(* checks) save what they find in the folders of the server, commit a      *)
(* receipt, move the mail to the server's Trash and expunge it there.  The *)
(* user moves and deletes local mail meanwhile, another client moves mail  *)
(* on the server, and SimpleMail sends (simplemail.c), which puts a copy   *)
(* in the local Sent folder and makes Gmail put one in its own.  A         *)
(* receiver may fail or be killed, and the power may fail, between any two *)
(* steps.                                                                  *)
(* A message stands for its Gmail id; what it says never changes.          *)
(***************************************************************************)
EXTENDS Naturals, FiniteSets, Sequences, SequencesExt

CONSTANTS
  Receivers,    \* processes of simplemail-fetch
  Incoming,     \* messages that others send
  Outgoing,     \* messages the user sends
  Keyed,        \* those with a Message-ID, which have a fingerprint
  EventLimit    \* bound: failures, kills, power cuts, local moves and deletions, and what
                \*        other clients do on the server

Messages == Incoming \union Outgoing
None == "none"

ASSUME MessagesAssumption ==
  Incoming \intersect Outgoing = {} /\ Keyed \subseteq Messages /\ None \notin Messages \union Receivers
\* write_outbound_message_file gives every message a Message-ID.
ASSUME KeyedAssumption == Outgoing \subseteq Keyed
ASSUME EventLimitAssumption == EventLimit \in Nat

VARIABLES
  place,      \* the server folder of each message; "nowhere" before, "gone" after
  marked,     \* those with the flag \Deleted, in the server's Trash
  read,       \* those with the flag \Seen
  copies,     \* the local files of each message, by where they are
  durable,    \* those a power cut leaves in place
  receipts,   \* the messages with a delivery receipt
  rcv,        \* what each receiver is doing
  lock,       \* the receiver that has .simplemail-receive.lock
  out,        \* the sending of each outgoing message
  events,     \* used of the bound
  deleted,    \* history: messages whose last durable copy the user has deleted
  touched     \* history: those changed while they had no receipt: a local file, or without
              \*          Message-ID, the folder or the flag a local file is named by

server == <<place, marked, read>>
store == <<copies, durable, receipts>>
history == <<deleted, touched>>
vars == <<server, store, rcv, lock, out, events, history>>

-----------------------------------------------------------------------------
(* The server.  All Mail, the role Archive, shows every message that is not
   in Trash.  Drafts and Spam, which are treated as Sent is, are left out. *)
Folders == {"Inbox", "Sent", "Archive", "Trash"}
OnServer(m) == place[m] \in Folders
Event == events < EventLimit /\ events' = events + 1

Shows(role, folder) == folder = role \/ (role = "Archive" /\ folder \in {"Inbox", "Sent"})
In(role) == {m \in Messages : Shows(role, place[m])}

\* The folders a full check opens, in its order: those with mail.
IfAny(role) == IF In(role) # {} THEN <<role>> ELSE <<>>
RunOrder == IfAny("Inbox") \o IfAny("Sent") \o IfAny("Archive") \o IfAny("Trash")

(* The names of the local files of a message: those the receiver gives, by the local
   folder and by cur or new; the one of the copy of a sent message; and a fresh one for
   every move.  What All Mail shows goes where its label says, which is its own folder. *)
NoName == 0
ReceivedIn == [Inbox |-> 1, Sent |-> 2, Archive |-> 3, Trash |-> 4]
Received == 1 .. 8
Path(m) == ReceivedIn[place[m]] + (IF m \in read THEN 4 ELSE 0)
Published == 9
Fresh(n) == Published + n
Names == 1 .. Fresh(EventLimit)
NoNames == [m \in Messages |-> NoName]

Resting == [at |-> "off", todo |-> <<>>, live |-> {},
            pending |-> {}, msg |-> None, file |-> NoName, indexed |-> FALSE,
            path |-> NoNames, index |-> NoNames]

Unsent == [at |-> "none", body |-> FALSE, staged |-> FALSE, draft |-> FALSE, excused |-> FALSE]

Init ==
  /\ place = [m \in Messages |-> "nowhere"] /\ marked = {} /\ read = {}
  /\ copies = [m \in Messages |-> {}] /\ durable = copies /\ receipts = {}
  /\ rcv = [r \in Receivers |-> Resting] /\ lock = None
  /\ out = [m \in Outgoing |-> Unsent]
  /\ events = 0
  /\ deleted = {} /\ touched = {}

-----------------------------------------------------------------------------
(* A receiver.  It reads nothing of the store before it has the lock.      *)

Goto(r, label) == rcv' = [rcv EXCEPT ![r].at = label]

StartAnyway(r) ==
  /\ rcv[r].at = "off"
  /\ lock' = r
  /\ rcv' = [rcv EXCEPT ![r] = [@ EXCEPT !.at = "list", !.todo = <<"Inbox", "Trash">>]]
  /\ UNCHANGED <<server, store, out, events, history>>

\* delivery_lock; a full check (Receiver.run), which opens only folders with mail, or one of
\* Inbox and Trash after a notification.
Start(r) ==
  /\ rcv[r].at = "off" /\ lock = None
  /\ lock' = r
  /\ \E todo \in {RunOrder} \union (IF In("Inbox") # {} THEN {<<"Inbox", "Trash">>} ELSE {}) :
       rcv' = [rcv EXCEPT ![r] = [@ EXCEPT !.at = "list", !.todo = todo]]
  /\ UNCHANGED <<server, store, out, events, history>>

\* The end of the check: the store and its index are forgotten.
Finish(r) ==
  /\ rcv[r].at = "list" /\ rcv[r].todo = <<>>
  /\ rcv' = [rcv EXCEPT ![r] = Resting] /\ lock' = None
  /\ UNCHANGED <<server, store, out, events, history>>

NextFolder(r) ==
  [rcv[r] EXCEPT !.at = "list", !.todo = Tail(@), !.live = {}, !.pending = {}, !.path = NoNames]

PathsOf(ms) == [m \in Messages |-> IF m \in ms THEN Path(m) ELSE NoName]

ListNew(r) ==
  /\ rcv[r].at = "list" /\ rcv[r].todo # <<>>
  /\ LET found == In(Head(rcv[r].todo)) \ receipts IN
     rcv' = [rcv EXCEPT ![r] =
       IF found = {} THEN NextFolder(r)
       ELSE [@ EXCEPT !.at = "fetch", !.live = found, !.pending = found, !.path = PathsOf(found)]]
  /\ UNCHANGED <<server, store, lock, out, events, history>>

\* SEARCH and the metadata, labels and flags among them; those with a receipt already are
\* not fetched again.
List(r) ==
  /\ rcv[r].at = "list" /\ rcv[r].todo # <<>>
  /\ LET found == In(Head(rcv[r].todo)) IN
     rcv' = [rcv EXCEPT ![r] =
       IF found = {} THEN NextFolder(r)
       ELSE [@ EXCEPT !.at = "fetch", !.live = found, !.pending = found \ receipts,
                      !.path = PathsOf(found \ receipts)]]
  /\ UNCHANGED <<server, store, lock, out, events, history>>

\* The bodies; a message that has left the folder makes the download incomplete.
Fetch(r) ==
  /\ rcv[r].at = "fetch" /\ rcv[r].pending \subseteq rcv[r].live
  /\ Goto(r, "save")
  /\ UNCHANGED <<server, store, lock, out, events, history>>

IndexOfNothing(index) == index = NoNames

\* load_copy_index: one of the files of each message that has a fingerprint.
IndexOf(index) ==
  \A m \in Messages : index[m] \in IF m \in Keyed /\ copies[m] # {} THEN copies[m] ELSE {NoName}

\* LocalStore.save looks for a receipt once more ...
Take(r, m) ==
  /\ rcv[r].at = "save" /\ m \in rcv[r].pending
  /\ rcv' = [rcv EXCEPT ![r] = IF m \in receipts THEN [rcv[r] EXCEPT !.pending = @ \ {m}]
                               ELSE [rcv[r] EXCEPT !.at = "place", !.msg = m]]
  /\ UNCHANGED <<server, store, lock, out, events, history>>

\* ... takes a copy the index knows and that is still there, or else writes the message
\* and links it in under the name its listing gave it, unless that is there.
Place(r) ==
  LET m == rcv[r].msg IN
     /\ rcv[r].at = "place"
     /\ \E index \in [Messages -> Names \union {NoName}] :
          /\ IF rcv[r].indexed THEN index = rcv[r].index ELSE IndexOf(index)
          /\ LET name == IF index[m] \in copies[m] THEN index[m] ELSE rcv[r].path[m] IN
             /\ rcv' = [rcv EXCEPT ![r] =
                  [@ EXCEPT !.at = "sync", !.file = name, !.index = index, !.indexed = TRUE]]
             /\ copies' = [copies EXCEPT ![m] = @ \union {name}]
     /\ UNCHANGED <<server, durable, receipts, lock, out, events, history>>

\* The file and its directory are flushed; a file that has been moved away is not.
Sync(r) ==
  /\ rcv[r].at = "sync"
  /\ durable' = [durable EXCEPT ![rcv[r].msg] = @ \union ({rcv[r].file} \intersect copies[rcv[r].msg])]
  /\ Goto(r, "receipt")
  /\ UNCHANGED <<server, copies, receipts, lock, out, events, history>>

\* write_receipt reads the file once more.
WriteReceipt(r) ==
  LET m == rcv[r].msg IN
  /\ rcv[r].at = "receipt" /\ rcv[r].file \in copies[m]
  /\ receipts' = receipts \union {m}
  /\ rcv' = [rcv EXCEPT ![r] =
       [rcv[r] EXCEPT !.at = "save", !.pending = @ \ {m}, !.msg = None, !.file = NoName,
                      !.index[m] = IF m \in Keyed THEN rcv[r].file ELSE NoName]]
  /\ UNCHANGED <<server, copies, durable, lock, out, events, history>>

\* All listed messages have receipts now.
Saved(r) == rcv[r].at = "save" /\ rcv[r].pending = {}

\* UID MOVE to Trash of exactly the listed mail, as far as it still is in the folder;
\* Trash is visited after that even when it was empty.
MoveToTrash(r) ==
  /\ Saved(r) /\ Head(rcv[r].todo) # "Trash"
  /\ place' = [m \in Messages |-> IF m \in rcv[r].live THEN "Trash" ELSE place[m]]
  /\ LET next == NextFolder(r) IN
     rcv' = [rcv EXCEPT ![r] = IF Contains(next.todo, "Trash") THEN next
                               ELSE [next EXCEPT !.todo = Append(@, "Trash")]]
  /\ UNCHANGED <<marked, read, store, lock, out, events, history>>

\* In Trash: STORE \Deleted ...
Mark(r) ==
  /\ Saved(r) /\ Head(rcv[r].todo) = "Trash"
  /\ marked' = marked \union rcv[r].live
  /\ Goto(r, "expunge")
  /\ UNCHANGED <<place, read, store, lock, out, events, history>>

ExpungeAll(r) ==
  /\ rcv[r].at = "expunge"
  /\ place' = [m \in Messages |-> IF m \in marked THEN "gone" ELSE place[m]]
  /\ marked' = {}
  /\ rcv' = [rcv EXCEPT ![r] = NextFolder(r)]
  /\ UNCHANGED <<read, store, lock, out, events, history>>

\* ... then UID EXPUNGE of the same mail.
Expunge(r) ==
  /\ rcv[r].at = "expunge"
  /\ place' = [m \in Messages |-> IF m \in rcv[r].live \intersect marked THEN "gone" ELSE place[m]]
  /\ marked' = marked \ rcv[r].live
  /\ rcv' = [rcv EXCEPT ![r] = NextFolder(r)]
  /\ UNCHANGED <<read, store, lock, out, events, history>>

\* The check ends with an error and the lock is free.  A one-shot check tries once more with
\* the lock in hand, which is a Start that comes at once.
Abandon(r) == rcv' = [rcv EXCEPT ![r] = Resting] /\ lock' = None

\* The code's own errors: an incomplete download, a file that is no longer where it was put.
Incomplete(r) ==
  /\ \/ rcv[r].at = "fetch" /\ ~(rcv[r].pending \subseteq rcv[r].live)
     \/ rcv[r].at = "receipt" /\ rcv[r].file \notin copies[rcv[r].msg]
  /\ Abandon(r)
  /\ UNCHANGED <<server, store, out, events, history>>

\* A disconnection, a timeout, an answer NO, a full disk; the process killed.
Fail(r) ==
  /\ rcv[r].at # "off" /\ Event
  /\ Abandon(r)
  /\ UNCHANGED <<server, store, out, history>>

-----------------------------------------------------------------------------
(* The user: local moves (marking a message read is one) and deletions.    *)

\* A check that has its index does not see the change.
Unseen(m) == m \notin receipts /\ (m \in Keyed => \E r \in Receivers : rcv[r].indexed)
Touch(ms) == touched' = touched \union ms

Move(m, from) ==
  /\ Event /\ from \in copies[m]
  /\ copies' = [copies EXCEPT ![m] = (@ \ {from}) \union {Fresh(events')}]
  /\ durable' = [durable EXCEPT ![m] = IF from \in @ THEN (@ \ {from}) \union {Fresh(events')} ELSE @]
  /\ Touch(IF Unseen(m) THEN {m} ELSE {})
  /\ UNCHANGED <<server, receipts, rcv, lock, out, deleted>>

Delete(m, from) ==
  /\ Event /\ from \in copies[m]
  /\ copies' = [copies EXCEPT ![m] = @ \ {from}]
  /\ durable' = [durable EXCEPT ![m] = @ \ {from}]
  /\ deleted' = IF durable'[m] = {} THEN deleted \union {m} ELSE deleted
  /\ UNCHANGED <<server, receipts, rcv, lock, out, touched>>

-----------------------------------------------------------------------------
(* The other clients of the account, and the world.                        *)

\* Nothing but its name tells that the file of a message is here or on its way.
Unnamed(m) ==
  m \notin Keyed \union receipts /\ (copies[m] # {} \/ \E r \in Receivers : m \in rcv[r].pending)

\* The number of a message in a folder dies when it leaves the folder.
Forget(m, folder) == rcv' = [r \in Receivers |->
  IF rcv[r].todo # <<>> /\ ~Shows(Head(rcv[r].todo), folder) THEN [rcv[r] EXCEPT !.live = @ \ {m}] ELSE rcv[r]]

Arrive(m) ==
  /\ place[m] = "nowhere"
  /\ place' = [place EXCEPT ![m] = "Inbox"]
  /\ UNCHANGED <<marked, read, store, rcv, lock, out, events, history>>

OtherMoves(m) ==
  /\ Event /\ OnServer(m)
  /\ \E f \in {"Inbox", "Archive", "Trash"} \ {place[m]} : place' = [place EXCEPT ![m] = f] /\ Forget(m, f)
  /\ marked' = marked \ {m}
  /\ Touch(IF Unnamed(m) THEN {m} ELSE {})
  /\ UNCHANGED <<read, store, lock, out, deleted>>

\* Another client marks a message as read or as unread.
OtherReads(m) ==
  /\ Event /\ OnServer(m)
  /\ read' = SymDiff(read, {m})
  /\ Touch(IF Unnamed(m) THEN {m} ELSE {})
  /\ UNCHANGED <<place, marked, store, rcv, lock, out, deleted>>

\* Another client flags a message as deleted, and does not expunge it.
OtherMarks(m) ==
  /\ Event /\ place[m] = "Trash" /\ m \notin marked
  /\ marked' = marked \union {m}
  /\ UNCHANGED <<place, read, store, rcv, lock, out, history>>

-----------------------------------------------------------------------------
(* Sending, in a child process: start_background_send.                     *)

Sender(m, label) == out' = [out EXCEPT ![m].at = label]

\* One message at a time; its text is in a file under /tmp.  The MIME message is made durable
\* in Sent/tmp (stage_sent_copy_from_file), unless the disk is full.
Send(m) ==
  /\ out[m].at = "none" /\ \A n \in Outgoing : out[n].at \in {"none", "done", "dead"}
  /\ \/ out' = [out EXCEPT ![m] = [@ EXCEPT !.at = "staged", !.body = TRUE, !.staged = TRUE]] /\ UNCHANGED events
     \/ out' = [out EXCEPT ![m] = [@ EXCEPT !.at = "failed", !.body = TRUE]] /\ Event
  /\ UNCHANGED <<server, store, rcv, lock, history>>

\* The mail program; Gmail files a copy of what it accepts.  When the program fails, and the
\* mail was refused or only the answer is lost, the copy in Sent/tmp goes ...
Smtp(m) ==
  /\ out[m].at = "staged"
  /\ \/ place' = [place EXCEPT ![m] = "Sent"] /\ Sender(m, "accepted") /\ UNCHANGED events
     \/ /\ Event
        /\ place' \in {place, [place EXCEPT ![m] = "Sent"]}
        /\ out' = [out EXCEPT ![m] = [@ EXCEPT !.at = "failed", !.staged = FALSE]]
  /\ UNCHANGED <<marked, read, store, rcv, lock, history>>

SaveNoDraft(m) ==
  /\ out[m].at = "failed"
  /\ Sender(m, "cleanup")
  /\ UNCHANGED <<server, store, rcv, lock, events, history>>

\* ... and a draft is written; nobody learns when that fails (save_draft_record_ex).
SaveDraft(m) ==
  /\ out[m].at = "failed"
  /\ \/ out' = [out EXCEPT ![m] = [@ EXCEPT !.at = "cleanup", !.draft = TRUE]] /\ UNCHANGED events
     \/ out' = [out EXCEPT ![m] = [@ EXCEPT !.at = "cleanup", !.excused = TRUE]] /\ Event
  /\ UNCHANGED <<server, store, rcv, lock, history>>

\* publish_sent_copy: a failed link leaves the copy in Sent/tmp, a failed flush leaves both.
Publish(m) ==
  /\ out[m].at = "accepted"
  /\ \E linked, flushed \in BOOLEAN :
       /\ flushed => linked
       /\ IF flushed THEN UNCHANGED events ELSE Event
       /\ out' = [out EXCEPT ![m] = [@ EXCEPT !.at = "cleanup", !.staged = ~flushed]]
       /\ copies' = [copies EXCEPT ![m] = IF linked THEN @ \union {Published} ELSE @]
       /\ durable' = [durable EXCEPT ![m] = IF flushed THEN @ \union {Published} ELSE @]
       /\ Touch(IF linked /\ (copies[m] # {} \/ \E r \in Receivers : rcv[r].indexed) THEN {m} ELSE {})
  /\ UNCHANGED <<server, receipts, rcv, lock, deleted>>

\* unlink(body_path).
Cleanup(m) ==
  /\ out[m].at = "cleanup"
  /\ out' = [out EXCEPT ![m] = [@ EXCEPT !.at = "done", !.body = FALSE]]
  /\ UNCHANGED <<server, store, rcv, lock, events, history>>

Killed(m) ==
  /\ Event /\ out[m].at \notin {"none", "done", "dead"}
  /\ Sender(m, "dead")
  /\ UNCHANGED <<server, store, rcv, lock, history>>

\* Every process ends; links that were not flushed, drafts and /tmp may be lost.
PowerCut ==
  /\ Event
  /\ rcv' = [r \in Receivers |-> Resting] /\ lock' = None
  /\ copies' \in {copies, durable} /\ durable' = copies'
  /\ out' = [m \in Outgoing |-> IF out[m].at = "none" THEN out[m] ELSE
       [out[m] EXCEPT !.at = IF @ = "done" THEN "done" ELSE "dead", !.body = FALSE, !.draft = FALSE,
                      !.excused = @ \/ place[m] = "nowhere"]]
  /\ UNCHANGED <<server, receipts, history>>

-----------------------------------------------------------------------------
Check(r) ==
  \/ List(r) \/ Fetch(r) \/ \E m \in Messages : Take(r, m)
  \/ Place(r) \/ Sync(r) \/ WriteReceipt(r) \/ MoveToTrash(r) \/ Mark(r) \/ Expunge(r)
  \/ Finish(r) \/ Incomplete(r)

Sending(m) == Send(m) \/ Smtp(m) \/ Publish(m) \/ SaveDraft(m) \/ Cleanup(m) \/ Killed(m)

Next ==
  \/ \E r \in Receivers : Start(r) \/ Check(r) \/ Fail(r)
  \/ \E m \in Messages : \E from \in Names : Move(m, from) \/ Delete(m, from)
  \/ \E m \in Incoming : Arrive(m)
  \/ \E m \in Messages : OtherMoves(m) \/ OtherReads(m) \/ OtherMarks(m)
  \/ \E m \in Outgoing : Sending(m)
  \/ PowerCut

\* A window checks every 10 seconds and reconnects after an error; a check that has begun goes on.
Fairness ==
  /\ WF_vars(\E r \in Receivers : Start(r))
  /\ \A r \in Receivers : WF_vars(Check(r))

Spec == Init /\ [][Next]_vars /\ Fairness

-----------------------------------------------------------------------------
(* Properties *)

\* The type of the state.
CheckSteps == {"off", "list", "fetch", "save", "place", "sync", "receipt", "expunge"}
TypeOK ==
  /\ place \in [Messages -> Folders \union {"nowhere", "gone"}]
  /\ marked \subseteq In("Trash") /\ read \subseteq Messages
  /\ copies \in [Messages -> SUBSET Names] /\ durable \in [Messages -> SUBSET Names]
  /\ \A m \in Messages : durable[m] \subseteq copies[m]
  /\ receipts \subseteq Messages
  /\ lock \in Receivers \union {None}
  /\ \A r \in Receivers :
       /\ rcv[r].at \in CheckSteps /\ rcv[r].todo \in Seq(Folders)
       /\ rcv[r].live \subseteq Messages /\ rcv[r].pending \subseteq Messages
       /\ rcv[r] # Resting => lock = r
  /\ deleted \subseteq Messages /\ touched \subseteq Messages
  /\ events \in 0..EventLimit

\* A message the server no longer has is in the Maildir, where a power cut leaves it, unless
\* the user has deleted it there: whatever fails between the download and the expunge, and
\* whoever marks or moves mail on the server meanwhile.
Kept(m) == durable[m] # {} \/ m \in deleted \/ (m \in Outgoing /\ out[m].staged)
RemovedIsKept == \A m \in Messages : place[m] = "gone" => m \in receipts /\ Kept(m)

\* Labels, retries, two receivers and Gmail's own copy of what is sent bring no second local
\* copy of a message, unless the user, or the sender, changes its files in the middle of a check;
\* or, for a message without Message-ID, another client moves it or marks it read between its
\* listing and its receipt: its file has another name then, and the one that is here is not found.
OneCopy == \A m \in Messages \ touched : Cardinality(copies[m]) <= 1

\* A local move or deletion of a message with a receipt is final: nothing brings it back,
\* except the publication of the copy by its sender.
DecisionsStick ==
  [][\A m \in receipts : \/ Cardinality(copies'[m]) <= Cardinality(copies[m])
                         \/ m \in Outgoing /\ out[m].at = "accepted"]_vars

\* A message the user has sent is in /tmp, in Sent/tmp, in Drafts, in a folder or on the server
\* until the user deletes it, however the sending ends.  This is about its text: a draft has no
\* attachment.  A draft that cannot be written, and a
\* power cut before the mail is accepted, are left out.
SentIsKept ==
  \A m \in Outgoing : out[m].at # "none" /\ ~out[m].excused =>
    out[m].body \/ out[m].staged \/ out[m].draft \/ copies[m] # {} \/ OnServer(m) \/ m \in deleted

\* All mail is delivered and removed from the server in the end.
Delivered == \A m \in Messages : OnServer(m) ~> place[m] = "gone"
=============================================================================
