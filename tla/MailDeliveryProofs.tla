------------------------- MODULE MailDeliveryProofs -------------------------
(***************************************************************************)
(* For any receivers, messages and number of events: nothing the receivers *)
(* take off the server is lost (RemovedIsKept), nor a message the user has *)
(* sent (SentIsKept), no step brings back local mail that was moved or     *)
(* deleted (DecisionsStick), and none brings a second copy of a message    *)
(* whose files are left alone (OneCopy).  The argument follows a message   *)
(* through a check: the file is flushed before the receipt (FlushedInv), a *)
(* receipt stands for a kept message (KeptInv), what is marked or moved    *)
(* has a receipt (WorkInv), and a file there is has the name the next      *)
(* check will look for (OneInv); only the owner of the lock is at work     *)
(* (Others).                                                               *)
(***************************************************************************)
EXTENDS MailDelivery, FiniteSetTheorems, TLAPS

-----------------------------------------------------------------------------
(* The inductive invariant, in parts that actions disturb separately.       *)

Receiver == [at : CheckSteps, todo : Seq(Folders),
             live : SUBSET Messages, pending : SUBSET Messages, msg : Messages \union {None},
             file : Names \union {NoName}, indexed : BOOLEAN,
             path : [Messages -> Received \union {NoName}],
             index : [Messages -> Names \union {NoName}]]
SendSteps == {"none", "staged", "failed", "accepted", "cleanup", "done", "dead"}
SendRecord == [at : SendSteps, body : BOOLEAN, staged : BOOLEAN, draft : BOOLEAN, excused : BOOLEAN]

PlaceOK == place \in [Messages -> Folders \union {"nowhere", "gone"}]
MarkedOK == marked \subseteq In("Trash") /\ read \subseteq Messages
FilesOK == /\ copies \in [Messages -> SUBSET Names] /\ durable \in [Messages -> SUBSET Names]
           /\ \A m \in Messages : durable[m] \subseteq copies[m]
ReceiptsOK == receipts \subseteq Messages
ReceiverOK == rcv \in [Receivers -> Receiver]
LockOK == lock \in Receivers \union {None} /\ \A r \in Receivers : rcv[r] # Resting => lock = r
OutOK == out \in [Outgoing -> SendRecord]
EventsOK == events \in 0..EventLimit
HistoryOK == deleted \subseteq Messages /\ touched \subseteq Messages

(* A receiver at work has a message of the folder in hand that is without a *)
(* receipt, and what it has listed and is done with has one.                *)
AtFile == {"place", "sync", "receipt"}
Listed(r) == \A m \in rcv[r].live : rcv[r].todo # <<>> /\ Shows(Head(rcv[r].todo), place[m])
DoneHasReceipt(r) ==
  /\ rcv[r].at \in {"fetch", "save"} \union AtFile =>
       rcv[r].live \ rcv[r].pending \subseteq receipts
  /\ rcv[r].at = "expunge" => rcv[r].live \subseteq receipts
  /\ rcv[r].at \in AtFile => rcv[r].msg \in rcv[r].pending \ receipts
  /\ rcv[r].at \in {"fetch", "save", "expunge"} \union AtFile => rcv[r].todo # <<>>
WorkInv == \A r \in Receivers : Listed(r) /\ DoneHasReceipt(r)

(* Nothing is known of a message that is not sent yet, and what has been    *)
(* listed has a name.                                                       *)
UnsentInv ==
  /\ \A m \in receipts : place[m] # "nowhere"
  /\ \A m \in Outgoing : out[m].at \in {"none", "staged"} => place[m] = "nowhere"
SeenInv == \A r \in Receivers : \A m \in Messages :
             /\ m \in rcv[r].pending \/ m = rcv[r].msg => place[m] # "nowhere"
             /\ m \in rcv[r].pending => rcv[r].path[m] \in Received

(* No name is used before its time: fresh ones, and that of a sent copy.    *)
Sent(m) == m \in Outgoing /\ out[m].at \in {"cleanup", "done", "dead"}
CopiesInv == \A m \in Messages : \A n \in copies[m] :
               n <= Fresh(events) /\ (n = Published => Sent(m))
NamesFit(x) ==
  /\ \A m \in Messages : x.index[m] <= Fresh(events) /\ (x.index[m] = Published => Sent(m))
  /\ x.file <= Fresh(events) /\ (x.file = Published => Sent(x.msg))
  /\ x.at \notin {"sync", "receipt"} => x.file = NoName
NamesInv == \A r \in Receivers : NamesFit(rcv[r])

(* The file that a receipt is about to be written for has been flushed.     *)
FlushedInv ==
  \A r \in Receivers : rcv[r].at = "receipt" /\ rcv[r].file \in copies[rcv[r].msg] =>
                         rcv[r].file \in durable[rcv[r].msg]

(* A receipt stands for a message that is kept.                             *)
KeptInv == /\ \A m \in receipts : Kept(m)
           /\ \A m \in Messages : place[m] = "gone" => m \in receipts

(* The text of a message in sending is in /tmp until it is elsewhere.       *)
Elsewhere(m) == out[m].staged \/ out[m].draft \/ copies[m] # {} \/ OnServer(m) \/ m \in deleted
BodyInv ==
  \A m \in Outgoing :
    /\ out[m].at \in {"staged", "accepted", "failed", "cleanup"} => out[m].body
    /\ out[m].at \in {"staged", "accepted"} => out[m].staged
    /\ out[m].at # "none" /\ ~out[m].body /\ ~out[m].excused => Elsewhere(m)
    /\ out[m].at = "cleanup" /\ ~out[m].excused => Elsewhere(m)

Types == /\ PlaceOK /\ MarkedOK /\ FilesOK /\ ReceiptsOK /\ ReceiverOK /\ LockOK /\ OutOK
         /\ EventsOK /\ HistoryOK
IInv == /\ Types /\ WorkInv /\ UnsentInv /\ SeenInv /\ CopiesInv /\ NamesInv
        /\ FlushedInv /\ KeptInv /\ BodyInv

-----------------------------------------------------------------------------
(* The fields of a receiver.                                                *)
LEMMA ReceiverType ==
  ASSUME ReceiverOK, NEW r \in Receivers
  PROVE  /\ rcv[r].at \in CheckSteps /\ rcv[r].todo \in Seq(Folders)
         /\ rcv[r].live \subseteq Messages /\ rcv[r].pending \subseteq Messages
         /\ rcv[r].msg \in Messages \union {None} /\ rcv[r].file \in Names \union {NoName}
         /\ rcv[r].indexed \in BOOLEAN /\ rcv[r].index \in [Messages -> Names \union {NoName}]
         /\ rcv[r].path \in [Messages -> Received \union {NoName}]
BY DEF ReceiverOK, Receiver

(* The names of files.                                                      *)
LEMMA NameNumbers ==
  /\ (\A n \in Names \union {NoName} : n \in Nat) /\ NoName = 0 /\ Published = 9
  /\ Published \in Names /\ NoName \notin Names
  /\ \A n \in Received : n \in Names /\ n \in Nat /\ n < Published
  /\ \A n \in 1..EventLimit : Fresh(n) \in Names
  /\ \A n \in Nat : Fresh(n) = n + 9
BY EventLimitAssumption DEF Names, NoName, Received, Published, Fresh

(* The name a listing gives.                                                *)
LEMMA NoNamesType == NoNames \in [Messages -> Names \union {NoName}]
                     /\ NoNames \in [Messages -> Received \union {NoName}]
BY DEF NoNames

LEMMA PathType ==
  ASSUME NEW m \in Messages, place[m] \in Folders
  PROVE  Path(m) \in Received
BY DEF Path, ReceivedIn, Received, Folders

(* The names it has are numbers.                                           *)
LEMMA Indexes ==
  ASSUME IInv, NEW r \in Receivers
  PROVE  rcv[r].file \in Nat /\ \A m \in Messages : rcv[r].index[m] \in Nat
<1>1. rcv[r].file \in Names \union {NoName} /\ rcv[r].index \in [Messages -> Names \union {NoName}]
  BY ReceiverType DEF IInv, Types
<1>2. rcv[r].file \in Nat
  BY <1>1, NameNumbers
<1>3. \A m \in Messages : rcv[r].index[m] \in Nat
  BY <1>1, NameNumbers
<1> QED
  BY <1>2, <1>3

(* As events go by and sendings advance, the names stay justified.          *)
LEMMA FreshGrows ==
  ASSUME IInv, UNCHANGED events \/ Event
  PROVE  \A k \in Nat : k <= Fresh(events) => k <= Fresh(events')
BY EventLimitAssumption DEF IInv, Types, EventsOK, Event, Fresh, Published

LEMMA NamesGrow ==
  ASSUME IInv, \A m \in Messages : Sent(m) => Sent(m)', rcv' = rcv, UNCHANGED events \/ Event
  PROVE  NamesInv'
<1> SUFFICES ASSUME NEW r \in Receivers PROVE NamesFit(rcv[r])'
  BY DEF NamesInv
<1>1. NamesFit(rcv[r])
  BY DEF IInv, NamesInv
<1>2. rcv[r].file = Published => Sent(rcv[r].msg)'
  BY <1>1 DEF NamesFit, Sent, Messages
<1> QED
  BY <1>1, <1>2, FreshGrows, Indexes DEF NamesFit

LEMMA CopiesGrow ==
  ASSUME IInv, \A m \in Messages : Sent(m) => Sent(m)', UNCHANGED events \/ Event,
         \A m \in Messages : \A n \in copies'[m] : n \in copies[m] \/ (n = Published /\ Sent(m)')
  PROVE  CopiesInv'
<1> SUFFICES ASSUME NEW m \in Messages, NEW n \in copies'[m]
             PROVE  n <= Fresh(events') /\ (n = Published => Sent(m)')
  BY DEF CopiesInv
<1>1. Published \in Nat /\ Published <= Fresh(events)
  BY EventLimitAssumption DEF IInv, Types, EventsOK, Fresh, Published
<1>2. n = Published \/ (n \in copies[m] /\ n \in Names /\ n <= Fresh(events))
  BY DEF IInv, Types, FilesOK, CopiesInv
<1>3. n \in Nat /\ n <= Fresh(events)
  BY <1>1, <1>2, NameNumbers
<1> QED
  BY <1>3, FreshGrows DEF IInv, CopiesInv

(* What an action leaves alone keeps the parts of the invariant about it.   *)
LEMMA Unchanged ==
  ASSUME IInv
  PROVE  /\ UNCHANGED place => PlaceOK'
         /\ UNCHANGED server => MarkedOK'
         /\ UNCHANGED <<copies, durable>> => FilesOK'
         /\ UNCHANGED receipts => ReceiptsOK'
         /\ UNCHANGED rcv => ReceiverOK'
         /\ UNCHANGED <<rcv, lock>> => LockOK'
         /\ UNCHANGED out => OutOK'
         /\ UNCHANGED events => EventsOK'
         /\ UNCHANGED history => HistoryOK'
         /\ UNCHANGED <<rcv, place, receipts>> => WorkInv'
         /\ UNCHANGED <<place, receipts, out>> => UnsentInv'
         /\ UNCHANGED <<place, rcv>> => SeenInv'
         /\ UNCHANGED <<copies, out>> /\ (UNCHANGED events \/ Event) => CopiesInv'
         /\ UNCHANGED <<rcv, out>> /\ (UNCHANGED events \/ Event) => NamesInv'
         /\ UNCHANGED <<rcv, copies, durable>> => FlushedInv'
         /\ UNCHANGED <<place, receipts, durable, deleted, out>> => KeptInv'
         /\ UNCHANGED <<out, copies, place, deleted>> => BodyInv'
<1>1. UNCHANGED <<rcv, place, receipts>> => WorkInv'
  BY DEF IInv, WorkInv, Listed, DoneHasReceipt, AtFile, Shows
<1>2. UNCHANGED <<place, receipts, out>> => UnsentInv'
  BY DEF IInv, UnsentInv
<1>3. UNCHANGED <<copies, out>> /\ (UNCHANGED events \/ Event) => CopiesInv'
  BY CopiesGrow DEF Sent
<1>4. UNCHANGED <<rcv, out>> /\ (UNCHANGED events \/ Event) => NamesInv'
  BY NamesGrow DEF Sent
<1>5. UNCHANGED <<place, receipts, durable, deleted, out>> => KeptInv'
  BY DEF IInv, KeptInv, Kept
<1>6. UNCHANGED <<out, copies, place, deleted>> => BodyInv'
  BY DEF IInv, BodyInv, Elsewhere, OnServer
<1>7. /\ UNCHANGED <<place, rcv>> => SeenInv'
      /\ UNCHANGED <<rcv, copies, durable>> => FlushedInv'
  BY DEF IInv, SeenInv, FlushedInv
<1>8. /\ UNCHANGED place => PlaceOK'
      /\ UNCHANGED server => MarkedOK'
      /\ UNCHANGED <<copies, durable>> => FilesOK'
      /\ UNCHANGED receipts => ReceiptsOK'
  BY DEF IInv, Types, PlaceOK, MarkedOK, In, Shows, server, FilesOK, ReceiptsOK
<1>9. /\ UNCHANGED rcv => ReceiverOK'
      /\ UNCHANGED <<rcv, lock>> => LockOK'
      /\ UNCHANGED out => OutOK'
      /\ UNCHANGED events => EventsOK'
      /\ UNCHANGED history => HistoryOK'
  BY DEF IInv, Types, ReceiverOK, LockOK, OutOK, EventsOK, HistoryOK, history
<1> QED
  BY <1>1, <1>2, <1>3, <1>4, <1>5, <1>6, <1>7, <1>8, <1>9

(* A receiver at rest.                                                      *)
LEMMA Rest ==
  /\ Resting \in Receiver
  /\ Resting.at = "off" /\ Resting.todo = <<>> /\ Resting.live = {} /\ Resting.pending = {}
  /\ Resting.msg = None /\ Resting.file = NoName
  /\ \A m \in Messages : Resting.index[m] = NoName /\ Resting.path[m] = NoName
<1>1. <<>> \in Seq(Folders) /\ NoName \notin Names /\ NoName = 0
  BY DEF Names, NoName
<1>2. Resting \in Receiver
  BY <1>1, NoNamesType, Zenon DEF Resting, Receiver, CheckSteps
<1>3. Resting.index = NoNames /\ Resting.path = NoNames
  BY Zenon DEF Resting
<1>4. \A m \in Messages : Resting.index[m] = NoName /\ Resting.path[m] = NoName
  BY <1>3 DEF NoNames
<1> QED
  BY <1>2, <1>4, Zenon DEF Resting

(* Those that do not have the lock are at rest, so a step of the one that   *)
(* has it is all that happens to the receivers.                             *)
Becomes(r, x) == rcv'[r] = x /\ \A q \in Receivers \ {r} : rcv'[q] = Resting

LEMMA Others ==
  ASSUME IInv, NEW r \in Receivers, rcv[r].at # "off" \/ lock = None,
         NEW x \in Receiver, rcv' = [rcv EXCEPT ![r] = x],
         lock' = r \/ (lock' = None /\ x = Resting)
  PROVE  ReceiverOK' /\ LockOK' /\ Becomes(r, x)
<1>1. \A q \in Receivers \ {r} : rcv[q] = Resting
  BY Rest, MessagesAssumption DEF IInv, Types, LockOK
<1>2. Becomes(r, x) /\ ReceiverOK'
  BY <1>1 DEF IInv, Types, ReceiverOK, Becomes
<1>3. LockOK'
  BY <1>1, <1>2 DEF LockOK, Becomes
<1> QED
  BY <1>2, <1>3

(* The owner of the lock.                                                   *)
LEMMA Owner ==
  ASSUME IInv, NEW r \in Receivers, rcv[r].at # "off"
  PROVE  lock = r
BY Rest DEF IInv, Types, LockOK

(* A sending in progress.                                                   *)
LEMMA SendType ==
  ASSUME IInv, NEW m \in Outgoing
  PROVE  /\ m \in Messages /\ out[m] \in SendRecord
         /\ out[m].at \in SendSteps /\ out[m].body \in BOOLEAN /\ out[m].staged \in BOOLEAN
BY DEF IInv, Types, OutOK, SendRecord, Messages

(* A receipt excludes that the message is not there yet or on its way.      *)
LEMMA ReceiptMeans ==
  ASSUME IInv, NEW m \in receipts
  PROVE  /\ m \in Messages /\ place[m] # "nowhere" /\ Kept(m)
         /\ m \in Outgoing => out[m].at \notin {"none", "staged"}
BY DEF IInv, Types, ReceiptsOK, UnsentInv, KeptInv

(* The rest of the folders still to visit.                                  *)
LEMMA RestOfRun ==
  ASSUME NEW t \in Seq(Folders), t # <<>>
  PROVE  /\ Head(t) \in Folders /\ Tail(t) \in Seq(Folders)
         /\ Append(Tail(t), "Trash") \in Seq(Folders)
BY DEF Folders

(* The names that the other receivers have do not matter: they have none.   *)
LEMMA AtRest ==
  ASSUME EventsOK'
  PROVE  NamesFit(Resting)'
<1>1. NoName # Published /\ \A n \in 0..EventLimit : NoName <= Fresh(n)
  BY EventLimitAssumption DEF Fresh, NoName, Published
<1>2. NoName <= Fresh(events')
  BY <1>1 DEF EventsOK
<1> QED
  BY <1>1, <1>2, Rest DEF NamesFit

LEMMA NamesFollow ==
  ASSUME NEW r \in Receivers, NEW x, Becomes(r, x), EventsOK', NamesFit(x)'
  PROVE  NamesInv'
<1>1. ASSUME NEW q \in Receivers PROVE NamesFit(rcv[q])'
  BY AtRest DEF Becomes, NamesFit
<1> QED
  BY <1>1 DEF NamesInv

(* Where a full check goes.                                                 *)
LEMMA RunOrderType ==
  RunOrder \in Seq(Folders) /\ <<"Inbox", "Trash">> \in Seq(Folders)
<1>1. \A role \in Folders : IfAny(role) \in Seq(Folders)
  BY DEF IfAny
<1> QED
  BY <1>1 DEF RunOrder, Folders

(* No receiver has listed a message that is not on the server.              *)
LEMMA NotListed ==
  ASSUME IInv, NEW r \in Receivers, NEW m \in rcv[r].live
  PROVE  m \in Messages /\ place[m] \notin {"nowhere", "gone"}
<1>1. rcv[r].todo \in Seq(Folders) /\ rcv[r].live \subseteq Messages /\ Listed(r)
  BY ReceiverType DEF IInv, Types, WorkInv
<1>2. Head(rcv[r].todo) \in Folders /\ Shows(Head(rcv[r].todo), place[m])
  BY <1>1, RestOfRun DEF Listed
<1> QED
  BY <1>1, <1>2 DEF Shows, Folders

-----------------------------------------------------------------------------
(* The actions.                                                             *)

LEMMA FetchStep ==
  ASSUME IInv, NEW r \in Receivers, Fetch(r)
  PROVE  IInv'
<1>1. UNCHANGED <<place, marked, read, copies, durable, receipts, lock, out, events, deleted, touched>>
  BY DEF Fetch, server, store, history
<1>2. /\ PlaceOK' /\ MarkedOK' /\ FilesOK' /\ ReceiptsOK' /\ OutOK' /\ EventsOK'
      /\ HistoryOK' /\ UnsentInv' /\ CopiesInv' /\ KeptInv' /\ BodyInv'
  BY Unchanged DEF Fetch, server, store, history
<1>3. PICK v \in Receiver : v = rcv[r]
  BY DEF IInv, Types, ReceiverOK
<1> DEFINE x == [v EXCEPT !.at = "save"]
<1>4. /\ x \in Receiver
      /\ x.at = "save" /\ x.todo = v.todo /\ x.live = v.live /\ x.pending = v.pending
      /\ x.msg = v.msg /\ x.file = v.file /\ x.index = v.index /\ x.path = v.path
  BY <1>3 DEF Receiver, CheckSteps
<1>5. rcv' = [rcv EXCEPT ![r] = x] /\ (rcv[r].at # "off" \/ lock = None) /\ lock' = r
  BY <1>3, Owner DEF Fetch, Goto
<1> HIDE DEF x
<1>6. ReceiverOK' /\ LockOK' /\ Becomes(r, x)
  BY <1>4, <1>5, Others
<1>7. WorkInv'
  BY <1>1, <1>3, <1>4, <1>6, Rest DEF IInv, WorkInv, Listed, DoneHasReceipt, AtFile, Becomes,
     Fetch
<1>8. SeenInv'
  BY <1>1, <1>3, <1>4, <1>6, Rest, MessagesAssumption DEF IInv, SeenInv, Becomes
<1>9. NamesInv'
  <2>1. NamesFit(v)
    BY <1>3 DEF IInv, NamesInv
  <2>2. NamesFit(x)'
    BY <2>1, <1>1, <1>3, <1>4 DEF NamesFit, Sent, Fetch
  <2> QED
    BY <2>2, <1>6, <1>2, NamesFollow
<1>10. FlushedInv'
  BY <1>1, <1>3, <1>4, <1>6, Rest DEF IInv, FlushedInv, Becomes
<1> QED
  BY <1>2, <1>6, <1>7, <1>8, <1>9, <1>10 DEF IInv, Types

LEMMA StartStep ==
  ASSUME IInv, NEW r \in Receivers, Start(r)
  PROVE  IInv'
<1>1. UNCHANGED <<place, marked, read, copies, durable, receipts, out, events, deleted, touched>>
  BY DEF Start, server, store, history
<1>2. /\ PlaceOK' /\ MarkedOK' /\ FilesOK' /\ ReceiptsOK' /\ OutOK' /\ EventsOK'
      /\ HistoryOK' /\ UnsentInv' /\ CopiesInv' /\ KeptInv' /\ BodyInv'
  BY Unchanged DEF Start, server, store, history
<1>3. PICK v \in Receiver : v = rcv[r]
  BY DEF IInv, Types, ReceiverOK
<1>4. PICK run \in Seq(Folders) : rcv' = [rcv EXCEPT ![r] = [@ EXCEPT !.at = "list", !.todo =
   run]]
  BY RunOrderType DEF Start
<1> DEFINE x == [v EXCEPT !.at = "list", !.todo = run]
<1>5. v = Resting
  BY <1>3, MessagesAssumption DEF Start, IInv, Types, LockOK
<1>6. /\ x \in Receiver /\ x.at = "list" /\ x.live = {} /\ x.pending = {}
      /\ x.msg = v.msg /\ x.file = v.file /\ x.index = v.index /\ x.path = v.path
  BY <1>3, <1>5, Rest DEF Receiver, CheckSteps
<1>7. rcv' = [rcv EXCEPT ![r] = x] /\ lock = None /\ lock' = r
  BY <1>3, <1>4 DEF Start
<1> HIDE DEF x
<1>8. ReceiverOK' /\ LockOK' /\ Becomes(r, x)
  BY <1>6, <1>7, Others
<1>9. WorkInv'
  BY <1>1, <1>3, <1>6, <1>8, Rest DEF IInv, WorkInv, Listed, DoneHasReceipt, AtFile, Becomes
<1>10. SeenInv'
  BY <1>1, <1>3, <1>5, <1>6, <1>8, Rest, MessagesAssumption DEF IInv, SeenInv, Becomes
<1>11. NamesInv'
  <2>1. NamesFit(v)
    BY <1>3 DEF IInv, NamesInv
  <2>2. NamesFit(x)'
    BY <2>1, <1>1, <1>3, <1>6 DEF NamesFit, Sent, Start
  <2> QED
    BY <2>2, <1>8, <1>2, NamesFollow
<1>12. FlushedInv'
  BY <1>1, <1>3, <1>6, <1>8, Rest DEF IInv, FlushedInv, Becomes
<1> QED
  BY <1>2, <1>8, <1>9, <1>10, <1>11, <1>12 DEF IInv, Types

LEMMA ListStep ==
  ASSUME IInv, NEW r \in Receivers, List(r)
  PROVE  IInv'
<1>1. UNCHANGED <<place, marked, read, copies, durable, receipts, lock, out, events, deleted, touched>>
  BY DEF List, server, store, history
<1>2. /\ PlaceOK' /\ MarkedOK' /\ FilesOK' /\ ReceiptsOK' /\ OutOK' /\ EventsOK'
      /\ HistoryOK' /\ UnsentInv' /\ CopiesInv' /\ KeptInv' /\ BodyInv'
  BY Unchanged DEF List, server, store, history
<1>3. PICK v \in Receiver : v = rcv[r]
  BY DEF IInv, Types, ReceiverOK
<1>4. v.at = "list" /\ v.todo # <<>> /\ v.todo \in Seq(Folders) /\ Head(v.todo) \in Folders /\
   Tail(v.todo) \in Seq(Folders)
  BY <1>3, RestOfRun DEF List, Receiver
<1>5. PICK found \in SUBSET Messages : found = In(Head(v.todo))
  BY DEF In
<1>6. PICK new \in SUBSET Messages : new = found \ receipts
  OBVIOUS
<1>14. \A m \in found : m \in Messages /\ place[m] \in Folders
  BY <1>5, <1>4 DEF In, Shows, Folders
<1>15. PICK paths \in [Messages -> Received \union {NoName}] : paths = PathsOf(new)
  BY <1>6, <1>14, PathType DEF PathsOf
<1>16. \A m \in new : paths[m] \in Received
  BY <1>6, <1>14, <1>15, PathType DEF PathsOf
<1>7. PICK x \in Receiver :
         /\ rcv' = [rcv EXCEPT ![r] = x]
         /\ x.msg = v.msg /\ x.file = v.file /\ x.index = v.index
         /\ \/ x.at = "list" /\ x.live = {} /\ x.pending = {}
            \/ /\ x.at = "fetch" /\ x.todo = v.todo /\ x.live = found /\ x.pending = new
               /\ x.path = paths
  <2>1. CASE found = {}
    <3> DEFINE y == [v EXCEPT !.at = "list", !.todo = Tail(@), !.live = {}, !.pending = {}, !.path = NoNames]
    <3>1. /\ y \in Receiver /\ y.at = "list" /\ y.live = {} /\ y.pending = {}
          /\ y.msg = v.msg /\ y.file = v.file /\ y.index = v.index
      BY NoNamesType, <1>3, <1>4 DEF Receiver, CheckSteps
    <3>2. rcv' = [rcv EXCEPT ![r] = y]
      BY <2>1, <1>3, <1>5 DEF List, NextFolder
    <3> HIDE DEF y
    <3> QED
      BY <3>1, <3>2
  <2>2. CASE found # {}
    <3> DEFINE y == [v EXCEPT !.at = "fetch", !.live = found, !.pending = new, !.path = paths]
    <3>1. /\ y \in Receiver /\ y.at = "fetch" /\ y.todo = v.todo /\ y.live = found
          /\ y.pending = new /\ y.msg = v.msg /\ y.file = v.file /\ y.index = v.index
          /\ y.path = paths
      BY DEF Receiver, CheckSteps
    <3>2. rcv' = [rcv EXCEPT ![r] = y]
      BY <2>2, <1>3, <1>5, <1>6, <1>15 DEF List
    <3> HIDE DEF y
    <3> QED
      BY <3>1, <3>2
  <2> QED
    BY <2>1, <2>2
<1>8. ReceiverOK' /\ LockOK' /\ Becomes(r, x)
  BY <1>7, <1>3, <1>4, <1>1, Others, Owner
<1>9. WorkInv'
  BY <1>1, <1>3, <1>4, <1>5, <1>6, <1>7, <1>8, Rest DEF IInv, WorkInv, Listed, DoneHasReceipt,
     AtFile, Becomes, In
<1>10. \A m \in found : place[m] # "nowhere"
  BY <1>5, <1>4 DEF In, Shows, Folders
<1>11. SeenInv'
  BY <1>1, <1>3, <1>6, <1>10, <1>16, <1>7, <1>8, Rest, MessagesAssumption DEF IInv, SeenInv, Becomes
<1>12. NamesInv'
  <2>1. NamesFit(v)
    BY <1>3 DEF IInv, NamesInv
  <2>2. NamesFit(x)'
    BY <2>1, <1>1, <1>3, <1>7, <1>4 DEF NamesFit, Sent
  <2> QED
    BY <2>2, <1>8, <1>2, NamesFollow
<1>13. FlushedInv'
  BY <1>1, <1>3, <1>7, <1>8, Rest DEF IInv, FlushedInv, Becomes
<1> QED
  BY <1>2, <1>8, <1>9, <1>11, <1>12, <1>13 DEF IInv, Types

LEMMA TakeStep ==
  ASSUME IInv, NEW r \in Receivers, NEW m \in Messages, Take(r, m)
  PROVE  IInv'
<1>1. UNCHANGED <<place, marked, read, copies, durable, receipts, lock, out, events, deleted, touched>>
  BY DEF Take, server, store, history
<1>2. /\ PlaceOK' /\ MarkedOK' /\ FilesOK' /\ ReceiptsOK' /\ OutOK' /\ EventsOK'
      /\ HistoryOK' /\ UnsentInv' /\ CopiesInv' /\ KeptInv' /\ BodyInv'
  BY Unchanged DEF Take, server, store, history
<1>3. PICK v \in Receiver : v = rcv[r]
  BY DEF IInv, Types, ReceiverOK
<1>4. v.at = "save" /\ m \in v.pending /\ v.pending \subseteq Messages
  BY <1>3 DEF Take, Receiver
<1>5. PICK x \in Receiver :
         /\ rcv' = [rcv EXCEPT ![r] = x]
         /\ x.todo = v.todo /\ x.live = v.live /\ x.file = v.file /\ x.index = v.index /\ x.path = v.path
         /\ \/ m \in receipts /\ x.at = "save" /\ x.pending = v.pending \ {m} /\ x.msg = v.msg
            \/ m \notin receipts /\ x.at = "place" /\ x.pending = v.pending /\ x.msg = m
  <2>1. CASE m \in receipts
    <3> DEFINE y == [v EXCEPT !.pending = @ \ {m}]
    <3>1. /\ y \in Receiver /\ y.at = v.at /\ y.todo = v.todo /\ y.live = v.live
          /\ y.pending = v.pending \ {m}
          /\ y.msg = v.msg /\ y.file = v.file /\ y.index = v.index /\ y.path = v.path
      BY <1>3, <1>4 DEF Receiver, CheckSteps
    <3>2. rcv' = [rcv EXCEPT ![r] = y]
      BY <2>1, <1>3 DEF Take
    <3> HIDE DEF y
    <3> QED
      BY <2>1, <3>1, <3>2, <1>4
  <2>2. CASE m \notin receipts
    <3> DEFINE y == [v EXCEPT !.at = "place", !.msg = m]
    <3>1. /\ y \in Receiver /\ y.at = "place" /\ y.todo = v.todo /\ y.live = v.live
          /\ y.pending = v.pending /\ y.msg = m /\ y.file = v.file /\ y.index = v.index /\ y.path = v.path
      BY <1>3, <1>4 DEF Receiver, CheckSteps
    <3>2. rcv' = [rcv EXCEPT ![r] = y]
      BY <2>2, <1>3 DEF Take
    <3> HIDE DEF y
    <3> QED
      BY <2>2, <3>1, <3>2
  <2> QED
    BY <2>1, <2>2
<1>6. ReceiverOK' /\ LockOK' /\ Becomes(r, x)
  BY <1>5, <1>3, <1>4, <1>1, Others, Owner
<1>7. WorkInv'
  BY <1>1, <1>3, <1>5, <1>6, Rest, <1>4 DEF IInv, WorkInv, Listed, DoneHasReceipt, AtFile,
     Becomes
<1>8. SeenInv'
  BY <1>1, <1>3, <1>5, <1>6, Rest, MessagesAssumption, <1>4 DEF IInv, SeenInv, Becomes
<1>9. v.file = NoName
  BY <1>3, <1>4 DEF IInv, NamesInv, NamesFit
<1>10. NamesInv'
  <2>1. NamesFit(v)
    BY <1>3 DEF IInv, NamesInv
  <2>2. NamesFit(x)'
    BY <2>1, <1>1, <1>3, <1>5, <1>4, <1>9, NameNumbers DEF NamesFit, Sent
  <2> QED
    BY <2>2, <1>6, <1>2, NamesFollow
<1>11. FlushedInv'
  BY <1>1, <1>3, <1>5, <1>6, Rest DEF IInv, FlushedInv, Becomes
<1> QED
  BY <1>2, <1>6, <1>7, <1>8, <1>10, <1>11 DEF IInv, Types

LEMMA PlaceStep ==
  ASSUME IInv, NEW r \in Receivers, Place(r)
  PROVE  IInv'
<1>1. UNCHANGED <<place, marked, read, durable, receipts, lock, out, events, deleted, touched>>
  BY DEF Place, server, store, history
<1>2. /\ PlaceOK' /\ MarkedOK' /\ ReceiptsOK' /\ OutOK' /\ EventsOK' /\ HistoryOK'
      /\ UnsentInv' /\ KeptInv'
  BY Unchanged DEF Place, server, store, history
<1>3. PICK v \in Receiver : v = rcv[r]
  BY DEF IInv, Types, ReceiverOK
<1>4. v.at = "place" /\ v.msg \in Messages \ receipts /\ v.msg \in v.pending
      /\ v.path[v.msg] \in Received
  BY <1>3 DEF Place, IInv, WorkInv, SeenInv, DoneHasReceipt, AtFile, Receiver
<1>5. PICK index \in [Messages -> Names \union {NoName}] :
         /\ IF v.indexed THEN index = v.index ELSE IndexOf(index)
         /\ LET name == IF index[v.msg] \in copies[v.msg] THEN index[v.msg] ELSE v.path[v.msg] IN
            /\ rcv' = [rcv EXCEPT ![r] =
                 [v EXCEPT !.at = "sync", !.file = name, !.index = index, !.indexed = TRUE]]
            /\ copies' = [copies EXCEPT ![v.msg] = @ \union {name}]
  BY <1>3 DEF Place
<1>6. PICK name \in Names :
         /\ name \in Received \/ name \in copies[v.msg]
         /\ rcv' = [rcv EXCEPT ![r] =
              [v EXCEPT !.at = "sync", !.file = name, !.index = index, !.indexed = TRUE]]
         /\ copies' = [copies EXCEPT ![v.msg] = @ \union {name}]
  <2>1. CASE index[v.msg] \in copies[v.msg]
    BY <2>1, <1>5, <1>4 DEF IInv, Types, FilesOK
  <2>2. CASE index[v.msg] \notin copies[v.msg]
    BY <2>2, <1>5, <1>4, NameNumbers
  <2> QED
    BY <2>1, <2>2
<1> DEFINE x == [v EXCEPT !.at = "sync", !.file = name, !.index = index, !.indexed = TRUE]
<1>7. /\ x \in Receiver
      /\ x.at = "sync" /\ x.todo = v.todo /\ x.live = v.live /\ x.pending = v.pending
      /\ x.msg = v.msg /\ x.file = name /\ x.index = index /\ x.path = v.path
  BY <1>5 DEF Receiver, CheckSteps
<1>8. rcv' = [rcv EXCEPT ![r] = x]
  BY <1>6
<1> HIDE DEF x
<1>9. ReceiverOK' /\ LockOK' /\ Becomes(r, x)
  BY <1>7, <1>8, <1>3, <1>4, <1>1, Others, Owner
<1>10. FilesOK'
  BY <1>6, <1>4, <1>1 DEF IInv, Types, FilesOK
<1>11. name <= Fresh(events) /\ (name = Published => Sent(v.msg))
  BY <1>6, <1>4, NameNumbers, EventLimitAssumption DEF IInv, Types, EventsOK, CopiesInv
<1>12. CopiesInv'
  BY <1>6, <1>11, <1>4, <1>1 DEF IInv, Types, FilesOK, CopiesInv, Sent
<1>13. WorkInv'
  BY <1>1, <1>3, <1>4, <1>7, <1>9, Rest DEF IInv, WorkInv, Listed, DoneHasReceipt, AtFile,
     Becomes
<1>14. SeenInv'
  BY <1>1, <1>3, <1>7, <1>9, Rest, MessagesAssumption DEF IInv, SeenInv, Becomes
<1>15. \A m \in Messages : index[m] <= Fresh(events) /\ (index[m] = Published => Sent(m))
  <2>1. CASE v.indexed
    BY <2>1, <1>3, <1>5 DEF IInv, NamesInv, NamesFit
  <2>2. CASE ~v.indexed
    <3> SUFFICES ASSUME NEW m \in Messages
                 PROVE  index[m] <= Fresh(events) /\ (index[m] = Published => Sent(m))
      OBVIOUS
    <3>1. index[m] = NoName \/ index[m] \in copies[m]
      BY <2>2, <1>5 DEF IndexOf
    <3> QED
      BY <3>1, NameNumbers, EventLimitAssumption DEF IInv, Types, EventsOK, CopiesInv
  <2> QED
    BY <2>1, <2>2
<1>16. NamesInv'
  <2>1. NamesFit(x)'
    BY <1>11, <1>15, <1>1, <1>7 DEF NamesFit, Sent
  <2> QED
    BY <2>1, <1>9, <1>2, NamesFollow
<1>17. FlushedInv'
  BY <1>7, <1>9, Rest DEF FlushedInv, Becomes
<1>18. BodyInv'
  BY <1>6, <1>4, <1>1, SendType DEF IInv, Types, FilesOK, BodyInv, Elsewhere, OnServer
<1> QED
  BY <1>2, <1>9, <1>10, <1>12, <1>13, <1>14, <1>16, <1>17, <1>18 DEF IInv, Types

LEMMA SyncStep ==
  ASSUME IInv, NEW r \in Receivers, Sync(r)
  PROVE  IInv'
<1>1. UNCHANGED <<place, marked, read, copies, receipts, lock, out, events, deleted, touched>>
  BY DEF Sync, server, store, history
<1>2. /\ PlaceOK' /\ MarkedOK' /\ ReceiptsOK' /\ OutOK' /\ EventsOK' /\ HistoryOK'
      /\ UnsentInv' /\ CopiesInv' /\ BodyInv'
  BY Unchanged DEF Sync, server, store, history
<1>3. PICK v \in Receiver : v = rcv[r]
  BY DEF IInv, Types, ReceiverOK
<1>4. v.at = "sync" /\ v.msg \in Messages \ receipts /\ v.file \in Names \union {NoName}
  BY <1>3 DEF Sync, IInv, WorkInv, DoneHasReceipt, AtFile, Receiver
<1> DEFINE x == [v EXCEPT !.at = "receipt"]
<1>5. /\ x \in Receiver
      /\ x.at = "receipt" /\ x.todo = v.todo /\ x.live = v.live /\ x.pending = v.pending
      /\ x.msg = v.msg /\ x.file = v.file /\ x.index = v.index /\ x.path = v.path
  BY DEF Receiver, CheckSteps
<1>6. rcv' = [rcv EXCEPT ![r] = x]
  BY <1>3 DEF Sync, Goto
<1>7. durable' = [durable EXCEPT ![v.msg] = @ \union ({v.file} \intersect copies[v.msg])]
  BY <1>3 DEF Sync
<1> HIDE DEF x
<1>8. ReceiverOK' /\ LockOK' /\ Becomes(r, x)
  BY <1>5, <1>6, <1>3, <1>4, <1>1, Others, Owner
<1>9. FilesOK'
  BY <1>7, <1>4, <1>1 DEF IInv, Types, FilesOK
<1>10. WorkInv'
  BY <1>1, <1>3, <1>5, <1>8, Rest, <1>4 DEF IInv, WorkInv, Listed, DoneHasReceipt, AtFile,
     Becomes
<1>11. SeenInv'
  BY <1>1, <1>3, <1>5, <1>8, Rest, MessagesAssumption DEF IInv, SeenInv, Becomes
<1>12. NamesInv'
  <2>1. NamesFit(v)
    BY <1>3 DEF IInv, NamesInv
  <2>2. NamesFit(x)'
    BY <2>1, <1>1, <1>3, <1>5, <1>4 DEF NamesFit, Sent
  <2> QED
    BY <2>2, <1>8, <1>2, NamesFollow
<1>13. FlushedInv'
  BY <1>5, <1>8, <1>7, <1>4, <1>1, Rest DEF IInv, Types, FilesOK, FlushedInv, Becomes
<1>14. KeptInv'
  BY <1>7, <1>4, <1>1 DEF IInv, Types, FilesOK, ReceiptsOK, KeptInv, Kept
<1> QED
  BY <1>2, <1>8, <1>9, <1>10, <1>11, <1>12, <1>13, <1>14 DEF IInv, Types

LEMMA WriteReceiptStep ==
  ASSUME IInv, NEW r \in Receivers, WriteReceipt(r)
  PROVE  IInv'
<1>1. UNCHANGED <<place, marked, read, copies, durable, lock, out, events, deleted, touched>>
  BY DEF WriteReceipt, server, store, history
<1>2. /\ PlaceOK' /\ MarkedOK' /\ FilesOK' /\ OutOK' /\ EventsOK' /\ HistoryOK'
      /\ CopiesInv' /\ BodyInv'
  BY Unchanged DEF WriteReceipt, server, store, history
<1>3. PICK v \in Receiver : v = rcv[r]
  BY DEF IInv, Types, ReceiverOK
<1>4. /\ v.at = "receipt" /\ v.msg \in Messages /\ v.file \in copies[v.msg] /\ v.todo # <<>>
      /\ v.file \in Names \union {NoName} /\ v.live \ v.pending \subseteq receipts
  BY <1>3 DEF WriteReceipt, IInv, WorkInv, DoneHasReceipt, AtFile, Receiver
<1>5. PICK name \in Names \union {NoName} : name = (IF v.msg \in Keyed THEN v.file ELSE NoName)
  BY <1>4
<1> DEFINE x == [v EXCEPT !.at = "save", !.pending = @ \ {v.msg}, !.msg = None, !.file = NoName,
                       !.index[v.msg] = name]
<1>6. /\ x \in Receiver
      /\ x.at = "save" /\ x.todo = v.todo /\ x.live = v.live /\ x.pending = v.pending \ {v.msg}
      /\ x.msg = None /\ x.file = NoName /\ x.index = [v.index EXCEPT ![v.msg] = name]
      /\ x.path = v.path
  BY <1>4 DEF Receiver, CheckSteps
<1>7. rcv' = [rcv EXCEPT ![r] = x] /\ receipts' = receipts \union {v.msg}
  BY <1>3, <1>5 DEF WriteReceipt
<1> HIDE DEF x
<1>8. ReceiverOK' /\ LockOK' /\ Becomes(r, x)
  BY <1>6, <1>7, <1>3, <1>4, <1>1, Others, Owner
<1>9. place[v.msg] # "nowhere"
  BY <1>3, <1>4 DEF IInv, SeenInv
<1>10. ReceiptsOK'
  BY <1>7, <1>4 DEF IInv, Types, ReceiptsOK
<1>11. WorkInv'
  BY <1>1, <1>3, <1>4, <1>7, <1>6, <1>8, Rest DEF IInv, WorkInv, Listed, DoneHasReceipt, AtFile,
     Becomes
<1>12. UnsentInv'
  BY <1>7, <1>9, <1>1 DEF IInv, UnsentInv
<1>13. SeenInv'
  BY <1>1, <1>3, <1>6, <1>8, Rest, MessagesAssumption DEF IInv, SeenInv, Becomes
<1>14. NamesInv'
  <2>1. NamesFit(v)
    BY <1>3 DEF IInv, NamesInv
  <2>2. v.index \in [Messages -> Names \union {NoName}]
    BY DEF Receiver
  <2>3. \A m \in Messages : x.index[m] = IF m = v.msg THEN name ELSE v.index[m]
    BY <2>2, <1>6, <1>4
  <2>4. NoName <= Fresh(events) /\ NoName # Published
    BY NameNumbers, EventLimitAssumption DEF IInv, Types, EventsOK
  <2>5. NamesFit(x)'
    BY <2>1, <2>3, <2>4, <1>5, <1>1, <1>6 DEF NamesFit, Sent
  <2> QED
    BY <2>5, <1>8, <1>2, NamesFollow
<1>15. FlushedInv'
  BY <1>6, <1>8, Rest DEF FlushedInv, Becomes
<1>16. durable[v.msg] # {}
  BY <1>3, <1>4 DEF IInv, FlushedInv
<1>17. KeptInv'
  BY <1>16, <1>7, <1>4, <1>1 DEF IInv, KeptInv, Kept
<1> QED
  BY <1>2, <1>8, <1>10, <1>11, <1>12, <1>13, <1>14, <1>15, <1>17 DEF IInv, Types

LEMMA MoveToTrashStep ==
  ASSUME IInv, NEW r \in Receivers, MoveToTrash(r)
  PROVE  IInv'
<1>1. UNCHANGED <<marked, read, copies, durable, receipts, lock, out, events, deleted, touched>>
  BY DEF MoveToTrash, server, store, history
<1>2. /\ FilesOK' /\ ReceiptsOK' /\ OutOK' /\ EventsOK' /\ HistoryOK' /\ CopiesInv'
  BY Unchanged DEF MoveToTrash, server, store, history
<1>3. PICK v \in Receiver : v = rcv[r]
  BY DEF IInv, Types, ReceiverOK
<1>4. /\ v.at = "save" /\ v.pending = {} /\ v.todo # <<>> /\ v.todo \in Seq(Folders)
      /\ v.live \subseteq receipts /\ v.live \subseteq Messages
  BY <1>3 DEF MoveToTrash, Saved, IInv, WorkInv, DoneHasReceipt, AtFile, Receiver
<1>5. Tail(v.todo) \in Seq(Folders) /\ Append(Tail(v.todo), "Trash") \in Seq(Folders)
  BY <1>4, RestOfRun
<1> DEFINE next == [v EXCEPT !.at = "list", !.todo = Tail(@), !.live = {}, !.pending = {}, !.path = NoNames]
<1>6. /\ next \in Receiver
      /\ next.at = "list" /\ next.todo = Tail(v.todo) /\ next.live = {} /\ next.pending = {}
      /\ next.msg = v.msg /\ next.file = v.file /\ next.index = v.index
  BY <1>5, NoNamesType DEF Receiver, CheckSteps
<1>7. rcv' = [rcv EXCEPT ![r] = IF Contains(next.todo, "Trash") THEN next
                                  ELSE [next EXCEPT !.todo = Append(@, "Trash")]]
  BY <1>3 DEF MoveToTrash, NextFolder
<1> HIDE DEF next
<1>8. PICK w \in Receiver : w = next
  BY <1>6
<1>9. PICK x \in Receiver :
         /\ rcv' = [rcv EXCEPT ![r] = x]
         /\ x.at = "list" /\ x.live = {} /\ x.pending = {}
         /\ x.msg = v.msg /\ x.file = v.file /\ x.index = v.index
  <2> DEFINE more == [w EXCEPT !.todo = Append(@, "Trash")]
  <2>1. /\ more \in Receiver /\ more.at = w.at /\ more.live = w.live /\ more.pending = w.pending
        /\ more.msg = w.msg /\ more.file = w.file /\ more.index = w.index
    BY <1>8, <1>6, <1>5 DEF Receiver
  <2>2. rcv' = [rcv EXCEPT ![r] = w] \/ rcv' = [rcv EXCEPT ![r] = more]
    BY <1>8, <1>7
  <2> HIDE DEF more
  <2> QED
    BY <2>1, <2>2, <1>6, <1>8
<1>10. ReceiverOK' /\ LockOK' /\ Becomes(r, x)
  BY <1>9, <1>3, <1>4, <1>1, Others, Owner
<1>11. place' = [m \in Messages |-> IF m \in v.live THEN "Trash" ELSE place[m]]
  BY <1>3 DEF MoveToTrash
<1>12. \A m \in v.live : place[m] # "nowhere"
  BY <1>4, ReceiptMeans
<1>13. PlaceOK'
  BY <1>11 DEF IInv, Types, PlaceOK, Folders
<1>14. MarkedOK'
  BY <1>11, <1>1 DEF IInv, Types, MarkedOK, In, Shows
<1>15. WorkInv'
  BY <1>9, <1>10, Rest DEF WorkInv, Listed, DoneHasReceipt, AtFile, Becomes
<1>16. UnsentInv'
  BY <1>11, <1>12, <1>4, <1>1, SendType DEF IInv, Types, ReceiptsOK, UnsentInv
<1>17. SeenInv'
  BY <1>1, <1>3, <1>11, <1>9, <1>10, Rest, MessagesAssumption DEF IInv, SeenInv, Becomes
<1>18. NamesInv'
  <2>1. NamesFit(v)
    BY <1>3 DEF IInv, NamesInv
  <2>2. NamesFit(x)'
    BY <2>1, <1>1, <1>3, <1>9, <1>4 DEF NamesFit, Sent
  <2> QED
    BY <2>2, <1>10, <1>2, NamesFollow
<1>19. FlushedInv'
  BY <1>9, <1>10, Rest DEF FlushedInv, Becomes
<1>20. KeptInv'
  BY <1>11, <1>1 DEF IInv, KeptInv, Kept
<1>21. BodyInv'
  BY <1>11, <1>1, SendType DEF IInv, BodyInv, Elsewhere, OnServer, Folders
<1> QED
  BY <1>2, <1>10, <1>13, <1>14, <1>15, <1>16, <1>17, <1>18, <1>19, <1>20, <1>21 DEF IInv, Types

LEMMA MarkStep ==
  ASSUME IInv, NEW r \in Receivers, Mark(r)
  PROVE  IInv'
<1>1. UNCHANGED <<place, read, copies, durable, receipts, lock, out, events, deleted, touched>>
  BY DEF Mark, server, store, history
<1>2. /\ PlaceOK' /\ FilesOK' /\ ReceiptsOK' /\ OutOK' /\ EventsOK' /\ HistoryOK'
      /\ UnsentInv' /\ CopiesInv' /\ KeptInv' /\ BodyInv'
  BY Unchanged DEF Mark, server, store, history
<1>3. PICK v \in Receiver : v = rcv[r]
  BY DEF IInv, Types, ReceiverOK
<1>4. /\ v.at = "save" /\ v.pending = {} /\ v.todo # <<>> /\ v.todo \in Seq(Folders)
      /\ v.live \subseteq receipts /\ v.live \subseteq Messages
  BY <1>3 DEF Mark, Saved, IInv, WorkInv, DoneHasReceipt, AtFile, Receiver
<1> DEFINE x == [v EXCEPT !.at = "expunge"]
<1>5. /\ x \in Receiver
      /\ x.at = "expunge" /\ x.todo = v.todo /\ x.live = v.live /\ x.pending = v.pending
      /\ x.msg = v.msg /\ x.file = v.file /\ x.index = v.index /\ x.path = v.path
  BY DEF Receiver, CheckSteps
<1>6. rcv' = [rcv EXCEPT ![r] = x]
  BY <1>3 DEF Mark, Goto
<1> HIDE DEF x
<1>7. ReceiverOK' /\ LockOK' /\ Becomes(r, x)
  BY <1>5, <1>6, <1>3, <1>4, <1>1, Others, Owner
<1>8. \A m \in v.live : m \in In("Trash")
  BY <1>3, <1>4 DEF Mark, IInv, WorkInv, Listed, In
<1>9. MarkedOK'
  BY <1>8, <1>3, <1>1 DEF Mark, IInv, Types, MarkedOK, In, Shows
<1>10. WorkInv'
  BY <1>1, <1>3, <1>5, <1>7, Rest, <1>4 DEF IInv, WorkInv, Listed, DoneHasReceipt, AtFile,
     Becomes
<1>11. SeenInv'
  BY <1>1, <1>3, <1>5, <1>7, Rest, MessagesAssumption DEF IInv, SeenInv, Becomes
<1>12. NamesInv'
  <2>1. NamesFit(v)
    BY <1>3 DEF IInv, NamesInv
  <2>2. NamesFit(x)'
    BY <2>1, <1>1, <1>3, <1>5, <1>4 DEF NamesFit, Sent
  <2> QED
    BY <2>2, <1>7, <1>2, NamesFollow
<1>13. FlushedInv'
  BY <1>5, <1>7, Rest DEF FlushedInv, Becomes
<1> QED
  BY <1>2, <1>7, <1>9, <1>10, <1>11, <1>12, <1>13 DEF IInv, Types

LEMMA ExpungeStep ==
  ASSUME IInv, NEW r \in Receivers, Expunge(r)
  PROVE  IInv'
<1>1. UNCHANGED <<read, copies, durable, receipts, lock, out, events, deleted, touched>>
  BY DEF Expunge, store, history
<1>2. /\ FilesOK' /\ ReceiptsOK' /\ OutOK' /\ EventsOK' /\ HistoryOK' /\ CopiesInv'
  BY Unchanged DEF Expunge, store, history
<1>3. PICK v \in Receiver : v = rcv[r]
  BY DEF IInv, Types, ReceiverOK
<1>4. /\ v.at = "expunge" /\ v.todo # <<>> /\ v.todo \in Seq(Folders)
      /\ v.live \subseteq receipts /\ v.live \subseteq Messages
  BY <1>3 DEF Expunge, IInv, WorkInv, DoneHasReceipt, Receiver
<1>5. Tail(v.todo) \in Seq(Folders)
  BY <1>4, RestOfRun
<1> DEFINE x == [v EXCEPT !.at = "list", !.todo = Tail(@), !.live = {}, !.pending = {}, !.path = NoNames]
<1>6. /\ x \in Receiver
      /\ x.at = "list" /\ x.todo = Tail(v.todo) /\ x.live = {} /\ x.pending = {}
      /\ x.msg = v.msg /\ x.file = v.file /\ x.index = v.index
  BY <1>5, NoNamesType DEF Receiver, CheckSteps
<1>7. rcv' = [rcv EXCEPT ![r] = x]
  BY <1>3 DEF Expunge, NextFolder
<1> HIDE DEF x
<1>8. ReceiverOK' /\ LockOK' /\ Becomes(r, x)
  BY <1>6, <1>7, <1>3, <1>4, <1>1, Others, Owner
<1>9. /\ place' = [m \in Messages |-> IF m \in v.live \intersect marked THEN "gone" ELSE place[m]]
      /\ marked' = marked \ v.live
  BY <1>3 DEF Expunge
<1>10. \A m \in v.live \intersect marked : m \in receipts /\ place[m] # "nowhere"
  BY <1>4, ReceiptMeans
<1>11. PlaceOK'
  BY <1>9 DEF IInv, Types, PlaceOK
<1>12. MarkedOK'
  BY <1>9, <1>1 DEF IInv, Types, MarkedOK, In, Shows
<1>13. WorkInv'
  BY <1>6, <1>8, Rest DEF WorkInv, Listed, DoneHasReceipt, AtFile, Becomes
<1>14. UnsentInv'
  BY <1>9, <1>10, <1>1, SendType DEF IInv, Types, ReceiptsOK, UnsentInv
<1>15. SeenInv'
  BY <1>1, <1>3, <1>9, <1>6, <1>8, Rest, MessagesAssumption DEF IInv, SeenInv, Becomes
<1>16. NamesInv'
  <2>1. NamesFit(v)
    BY <1>3 DEF IInv, NamesInv
  <2>2. NamesFit(x)'
    BY <2>1, <1>1, <1>3, <1>6, <1>4 DEF NamesFit, Sent
  <2> QED
    BY <2>2, <1>8, <1>2, NamesFollow
<1>17. FlushedInv'
  BY <1>6, <1>8, Rest DEF FlushedInv, Becomes
<1>18. KeptInv'
  BY <1>9, <1>10, <1>1 DEF IInv, KeptInv, Kept
<1>19. \A m \in Outgoing : Elsewhere(m) => Elsewhere(m)'
  <2> SUFFICES ASSUME NEW m \in Outgoing, Elsewhere(m) PROVE Elsewhere(m)'
    OBVIOUS
  <2>1. CASE m \in v.live \intersect marked
    BY <2>1, <1>10, <1>1, ReceiptMeans DEF Kept, Elsewhere, IInv, Types, FilesOK
  <2>2. CASE m \notin v.live \intersect marked
    BY <2>2, <1>9, <1>1, SendType DEF Elsewhere, OnServer
  <2> QED
    BY <2>1, <2>2
<1>20. BodyInv'
  BY <1>19, <1>1 DEF IInv, BodyInv
<1> QED
  BY <1>2, <1>8, <1>11, <1>12, <1>13, <1>14, <1>15, <1>16, <1>17, <1>18, <1>20 DEF IInv, Types

LEMMA FinishStep ==
  ASSUME IInv, NEW r \in Receivers, Finish(r)
  PROVE  IInv'
<1>1. UNCHANGED <<place, marked, read, copies, durable, receipts, out, events, deleted, touched>>
  BY DEF Finish, server, store, history
<1>2. /\ PlaceOK' /\ MarkedOK' /\ FilesOK' /\ ReceiptsOK' /\ OutOK' /\ EventsOK'
      /\ HistoryOK' /\ UnsentInv' /\ CopiesInv' /\ KeptInv' /\ BodyInv'
  BY Unchanged DEF Finish, server, store, history
<1>3. rcv' = [rcv EXCEPT ![r] = Resting] /\ lock' = None /\ rcv[r].at # "off"
  BY DEF Finish, Abandon
<1>4. ReceiverOK' /\ LockOK' /\ Becomes(r, Resting)
  BY <1>3, Rest, Others
<1>5. \A q \in Receivers : rcv'[q] = Resting
  BY <1>4 DEF Becomes
<1>6. WorkInv' /\ SeenInv' /\ FlushedInv'
  BY <1>5, Rest, MessagesAssumption DEF WorkInv, Listed, DoneHasReceipt, AtFile, SeenInv,
     FlushedInv
<1>7. EventsOK'
  BY <1>2
<1>8. NamesInv'
  BY <1>5, <1>7, AtRest DEF NamesInv
<1> QED
  BY <1>2, <1>4, <1>6, <1>7, <1>8 DEF IInv, Types

LEMMA IncompleteStep ==
  ASSUME IInv, NEW r \in Receivers, Incomplete(r)
  PROVE  IInv'
<1>1. UNCHANGED <<place, marked, read, copies, durable, receipts, out, events, deleted, touched>>
  BY DEF Incomplete, server, store, history
<1>2. /\ PlaceOK' /\ MarkedOK' /\ FilesOK' /\ ReceiptsOK' /\ OutOK' /\ EventsOK'
      /\ HistoryOK' /\ UnsentInv' /\ CopiesInv' /\ KeptInv' /\ BodyInv'
  BY Unchanged DEF Incomplete, server, store, history
<1>3. rcv' = [rcv EXCEPT ![r] = Resting] /\ lock' = None /\ rcv[r].at # "off"
  BY DEF Incomplete, Abandon
<1>4. ReceiverOK' /\ LockOK' /\ Becomes(r, Resting)
  BY <1>3, Rest, Others
<1>5. \A q \in Receivers : rcv'[q] = Resting
  BY <1>4 DEF Becomes
<1>6. WorkInv' /\ SeenInv' /\ FlushedInv'
  BY <1>5, Rest, MessagesAssumption DEF WorkInv, Listed, DoneHasReceipt, AtFile, SeenInv,
     FlushedInv
<1>7. EventsOK'
  BY <1>2
<1>8. NamesInv'
  BY <1>5, <1>7, AtRest DEF NamesInv
<1> QED
  BY <1>2, <1>4, <1>6, <1>7, <1>8 DEF IInv, Types

LEMMA FailStep ==
  ASSUME IInv, NEW r \in Receivers, Fail(r)
  PROVE  IInv'
<1>1. UNCHANGED <<place, marked, read, copies, durable, receipts, out, deleted, touched>>
  BY DEF Fail, server, store, history
<1>2. /\ PlaceOK' /\ MarkedOK' /\ FilesOK' /\ ReceiptsOK' /\ OutOK' /\ HistoryOK'
      /\ UnsentInv' /\ CopiesInv' /\ KeptInv' /\ BodyInv'
  BY Unchanged DEF Fail, server, store, history
<1>3. rcv' = [rcv EXCEPT ![r] = Resting] /\ lock' = None /\ rcv[r].at # "off"
  BY DEF Fail, Abandon
<1>4. ReceiverOK' /\ LockOK' /\ Becomes(r, Resting)
  BY <1>3, Rest, Others
<1>5. \A q \in Receivers : rcv'[q] = Resting
  BY <1>4 DEF Becomes
<1>6. WorkInv' /\ SeenInv' /\ FlushedInv'
  BY <1>5, Rest, MessagesAssumption DEF WorkInv, Listed, DoneHasReceipt, AtFile, SeenInv,
     FlushedInv
<1>7. EventsOK'
  BY <1>1, EventLimitAssumption DEF Fail, Event, EventsOK, IInv, Types
<1>8. NamesInv'
  BY <1>5, <1>7, AtRest DEF NamesInv
<1> QED
  BY <1>2, <1>4, <1>6, <1>7, <1>8 DEF IInv, Types

LEMMA MoveStep ==
  ASSUME IInv, NEW m \in Messages, NEW from \in Names, Move(m, from)
  PROVE  IInv'
<1>1. UNCHANGED <<place, marked, read, receipts, rcv, lock, out, deleted>>
  BY DEF Move, server, store, history
<1>2. /\ PlaceOK' /\ MarkedOK' /\ ReceiptsOK' /\ ReceiverOK' /\ LockOK' /\ OutOK'
      /\ WorkInv' /\ UnsentInv' /\ SeenInv' /\ NamesInv'
  BY Unchanged DEF Move, server, store, history
<1>3. events \in Nat /\ events + 1 \in 1..EventLimit
  BY EventLimitAssumption DEF Move, Event, IInv, Types, EventsOK
<1>4. events \in Nat /\ events' = events + 1 /\ events' \in 1..EventLimit /\ from \in copies[m]
  BY <1>3 DEF Move, Event
<1>5. PICK name \in Names : name = Fresh(events')
  BY <1>4, NameNumbers
<1>6. /\ copies' = [copies EXCEPT ![m] = (@ \ {from}) \union {name}]
      /\ durable' = [durable EXCEPT ![m] = IF from \in @ THEN (@ \ {from}) \union {name} ELSE @]
  BY <1>5 DEF Move
<1>7. /\ \A k \in Nat : k <= Fresh(events) => k <= Fresh(events') /\ k # name
      /\ name <= Fresh(events') /\ name # Published
  BY <1>4, <1>5, NameNumbers, EventLimitAssumption DEF Fresh, Published
<1>8. FilesOK'
  BY <1>6 DEF IInv, Types, FilesOK
<1>9. HistoryOK'
  BY <1>1 DEF Move, Touch, IInv, Types, HistoryOK
<1>10. CopiesInv'
  <2> SUFFICES ASSUME NEW q \in Messages, NEW k \in copies'[q]
               PROVE  k <= Fresh(events') /\ (k = Published => Sent(q)')
    BY DEF CopiesInv, Sent
  <2>1. k = name \/ (k \in copies[q] /\ k \in Names)
    BY <1>6 DEF IInv, Types, FilesOK
  <2> QED
    BY <2>1, <1>7, <1>1, NameNumbers DEF IInv, CopiesInv, Sent
<1>11. NamesInv'
  BY <1>1, Unchanged DEF Move, Event, IInv
<1>12. FlushedInv'
  <2> SUFFICES ASSUME NEW r \in Receivers, rcv[r].at = "receipt",
                      rcv[r].file \in copies'[rcv[r].msg]
               PROVE  rcv[r].file \in durable'[rcv[r].msg]
    BY <1>1 DEF FlushedInv
  <2>1. rcv[r].file \in Nat /\ rcv[r].msg \in Messages
    BY ReceiverType, NameNumbers DEF IInv, Types, WorkInv, DoneHasReceipt, AtFile
  <2>2. rcv[r].file # name
    BY <2>1, <1>7 DEF IInv, NamesInv, NamesFit
  <2> QED
    BY <2>1, <2>2, <1>6 DEF IInv, Types, FilesOK, FlushedInv
<1>13. KeptInv'
  BY <1>6, <1>1 DEF IInv, Types, FilesOK, ReceiptsOK, KeptInv, Kept
<1>14. BodyInv'
  BY <1>6, <1>1, SendType DEF IInv, Types, FilesOK, BodyInv, Elsewhere, OnServer
<1>15. EventsOK'
  BY EventLimitAssumption DEF Move, Event, EventsOK, IInv, Types
<1> QED
  BY <1>2, <1>8, <1>9, <1>10, <1>11, <1>12, <1>13, <1>14, <1>15 DEF IInv, Types

LEMMA DeleteStep ==
  ASSUME IInv, NEW m \in Messages, NEW from \in Names, Delete(m, from)
  PROVE  IInv'
<1>1. UNCHANGED <<place, marked, read, receipts, rcv, lock, out, touched>>
  BY DEF Delete, server, store, history
<1>2. /\ PlaceOK' /\ MarkedOK' /\ ReceiptsOK' /\ ReceiverOK' /\ LockOK' /\ OutOK'
      /\ WorkInv' /\ UnsentInv' /\ SeenInv' /\ NamesInv'
  BY Unchanged DEF Delete, server, store, history
<1>3. /\ copies' = [copies EXCEPT ![m] = @ \ {from}]
      /\ durable' = [durable EXCEPT ![m] = @ \ {from}]
      /\ deleted' = IF durable'[m] = {} THEN deleted \union {m} ELSE deleted
  BY DEF Delete
<1>4. UNCHANGED events \/ Event
  BY DEF Delete
<1>5. FilesOK'
  BY <1>3 DEF IInv, Types, FilesOK
<1>6. HistoryOK'
  BY <1>1, <1>3 DEF IInv, Types, HistoryOK
<1>7. \A q \in Messages : copies'[q] \subseteq copies[q]
  BY <1>3 DEF IInv, Types, FilesOK
<1>8. \A q \in Messages : Sent(q) => Sent(q)'
  BY <1>1 DEF Sent
<1>9. CopiesInv'
  BY <1>8, <1>1, <1>4, <1>7, CopiesGrow
<1>10. NamesInv'
  BY <1>1, <1>4, Unchanged
<1>11. FlushedInv'
  BY <1>3, <1>1 DEF IInv, Types, FilesOK, FlushedInv, WorkInv, DoneHasReceipt, AtFile
<1>12. KeptInv'
  BY <1>3, <1>1 DEF IInv, Types, FilesOK, ReceiptsOK, KeptInv, Kept
<1>13. BodyInv'
  BY <1>3, <1>1, SendType DEF IInv, Types, FilesOK, BodyInv, Elsewhere, OnServer
<1>14. EventsOK'
  BY EventLimitAssumption DEF Delete, Event, EventsOK, IInv, Types
<1> QED
  BY <1>2, <1>5, <1>6, <1>9, <1>10, <1>11, <1>12, <1>13, <1>14 DEF IInv, Types

LEMMA ArriveStep ==
  ASSUME IInv, NEW m \in Incoming, Arrive(m)
  PROVE  IInv'
<1>1. UNCHANGED <<marked, read, copies, durable, receipts, rcv, lock, out, events, deleted, touched>>
  BY DEF Arrive, server, store, history
<1>2. /\ FilesOK' /\ ReceiptsOK' /\ ReceiverOK' /\ LockOK' /\ OutOK' /\ EventsOK'
      /\ HistoryOK' /\ CopiesInv' /\ NamesInv' /\ FlushedInv'
  BY Unchanged DEF Arrive, server, store, history
<1>3. /\ m \in Messages /\ m \notin Outgoing /\ m \notin receipts
      /\ place[m] = "nowhere" /\ place' = [place EXCEPT ![m] = "Inbox"]
  BY MessagesAssumption, ReceiptMeans DEF Arrive, Messages
<1>4. PlaceOK'
  BY <1>3 DEF IInv, Types, PlaceOK, Folders
<1>5. MarkedOK'
  BY <1>3, <1>1 DEF IInv, Types, PlaceOK, MarkedOK, In, Shows
<1>6. WorkInv'
  BY <1>3, <1>1, NotListed DEF IInv, Types, PlaceOK, WorkInv, Listed, DoneHasReceipt, AtFile
<1>7. UnsentInv'
  BY <1>3, <1>1, SendType DEF IInv, Types, PlaceOK, UnsentInv
<1>8. SeenInv'
  BY <1>3, <1>1 DEF IInv, Types, PlaceOK, SeenInv
<1>9. KeptInv'
  BY <1>3, <1>1 DEF IInv, Types, PlaceOK, KeptInv, Kept
<1>10. BodyInv'
  BY <1>3, <1>1, SendType DEF IInv, Types, PlaceOK, BodyInv, Elsewhere, OnServer, Folders
<1> QED
  BY <1>2, <1>4, <1>5, <1>6, <1>7, <1>8, <1>9, <1>10 DEF IInv, Types

LEMMA OtherReadsStep ==
  ASSUME IInv, NEW m \in Messages, OtherReads(m)
  PROVE  IInv'
<1>1. UNCHANGED <<place, marked, copies, durable, receipts, rcv, lock, out, deleted>>
  BY DEF OtherReads, server, store, history
<1>2. /\ PlaceOK' /\ FilesOK' /\ ReceiptsOK' /\ ReceiverOK' /\ LockOK' /\ OutOK'
      /\ WorkInv' /\ UnsentInv' /\ SeenInv' /\ CopiesInv' /\ NamesInv'
      /\ FlushedInv' /\ KeptInv' /\ BodyInv'
  BY Unchanged DEF OtherReads, server, store, history
<1>3. MarkedOK'
  BY <1>1 DEF OtherReads, SymDiff, IInv, Types, MarkedOK, In, Shows
<1>7. HistoryOK'
  BY <1>1 DEF OtherReads, Touch, IInv, Types, HistoryOK
<1>4. UNCHANGED events \/ Event
  BY DEF OtherReads
<1>5. NamesInv' /\ CopiesInv'
  BY <1>1, <1>4, Unchanged
<1>6. EventsOK'
  BY EventLimitAssumption DEF OtherReads, Event, EventsOK, IInv, Types
<1> QED
  BY <1>2, <1>3, <1>5, <1>6, <1>7 DEF IInv, Types

LEMMA OtherMarksStep ==
  ASSUME IInv, NEW m \in Messages, OtherMarks(m)
  PROVE  IInv'
<1>1. UNCHANGED <<place, read, copies, durable, receipts, rcv, lock, out, deleted, touched>>
  BY DEF OtherMarks, server, store, history
<1>2. /\ PlaceOK' /\ FilesOK' /\ ReceiptsOK' /\ ReceiverOK' /\ LockOK' /\ OutOK'
      /\ HistoryOK' /\ WorkInv' /\ UnsentInv' /\ SeenInv' /\ CopiesInv' /\ NamesInv'
      /\ FlushedInv' /\ KeptInv' /\ BodyInv'
  BY Unchanged DEF OtherMarks, server, store, history
<1>3. MarkedOK'
  BY <1>1 DEF OtherMarks, IInv, Types, MarkedOK, In, Shows
<1>4. UNCHANGED events \/ Event
  BY DEF OtherMarks
<1>5. NamesInv' /\ CopiesInv'
  BY <1>1, <1>4, Unchanged
<1>6. EventsOK'
  BY EventLimitAssumption DEF OtherMarks, Event, EventsOK, IInv, Types
<1> QED
  BY <1>2, <1>3, <1>5, <1>6 DEF IInv, Types

LEMMA OtherMovesStep ==
  ASSUME IInv, NEW m \in Messages, OtherMoves(m)
  PROVE  IInv'
<1>1. UNCHANGED <<read, copies, durable, receipts, lock, out, deleted>>
  BY DEF OtherMoves, store, history
<1>2. /\ FilesOK' /\ ReceiptsOK' /\ OutOK' /\ CopiesInv'
  BY Unchanged DEF OtherMoves, store, history
<1>20. HistoryOK'
  BY <1>1 DEF OtherMoves, Touch, IInv, Types, HistoryOK
<1>3. PICK f \in {"Inbox", "Archive", "Trash"} :
         place[m] \in Folders /\ place' = [place EXCEPT ![m] = f] /\ Forget(m, f)
  BY DEF OtherMoves, OnServer
<1>4. (UNCHANGED events \/ Event) /\ marked' = marked \ {m}
  BY DEF OtherMoves
<1>5. \A r \in Receivers :
         /\ rcv[r] \in Receiver /\ rcv'[r] \in Receiver
         /\ rcv'[r].at = rcv[r].at /\ rcv'[r].todo = rcv[r].todo /\ rcv'[r].pending = rcv[r].pending
         /\ rcv'[r].msg = rcv[r].msg /\ rcv'[r].file = rcv[r].file /\ rcv'[r].index = rcv[r].index
         /\ rcv'[r].path = rcv[r].path /\ rcv'[r].live \subseteq rcv[r].live
         /\ m \in rcv'[r].live => rcv[r].todo = <<>> \/ Shows(Head(rcv[r].todo), f)
         /\ rcv[r] = Resting => rcv'[r] = Resting
  <2> SUFFICES ASSUME NEW r \in Receivers
               PROVE  /\ rcv[r] \in Receiver /\ rcv'[r] \in Receiver
                      /\ rcv'[r].at = rcv[r].at /\ rcv'[r].todo = rcv[r].todo
                      /\ rcv'[r].pending = rcv[r].pending /\ rcv'[r].msg = rcv[r].msg
                      /\ rcv'[r].file = rcv[r].file /\ rcv'[r].index = rcv[r].index
                      /\ rcv'[r].path = rcv[r].path /\ rcv'[r].live \subseteq rcv[r].live
                      /\ m \in rcv'[r].live => rcv[r].todo = <<>> \/ Shows(Head(rcv[r].todo), f)
                      /\ rcv[r] = Resting => rcv'[r] = Resting
    OBVIOUS
  <2>1. PICK v \in Receiver : v = rcv[r]
    BY DEF IInv, Types, ReceiverOK
  <2>2. rcv'[r] = IF v.todo # <<>> /\ ~Shows(Head(v.todo), f)
                THEN [v EXCEPT !.live = @ \ {m}] ELSE v
    BY <2>1, <1>3 DEF Forget
  <2> DEFINE y == [v EXCEPT !.live = @ \ {m}]
  <2>3. /\ y \in Receiver /\ y.at = v.at /\ y.todo = v.todo /\ y.live = v.live \ {m}
        /\ y.pending = v.pending /\ y.msg = v.msg /\ y.file = v.file /\ y.index = v.index /\ y.path = v.path
    BY DEF Receiver
  <2> HIDE DEF y
  <2>4. CASE v.todo # <<>> /\ ~Shows(Head(v.todo), f)
    BY <2>1, <2>2, <2>3, <2>4, Rest DEF y
  <2>5. CASE ~(v.todo # <<>> /\ ~Shows(Head(v.todo), f))
    BY <2>1, <2>2, <2>5
  <2> QED
    BY <2>4, <2>5
<1>6. DOMAIN rcv' = Receivers /\ rcv' = [r \in Receivers |-> rcv'[r]]
  BY <1>3 DEF Forget
<1>7. ReceiverOK'
  BY <1>5, <1>6 DEF ReceiverOK
<1>8. LockOK'
  BY <1>5, <1>1 DEF IInv, Types, LockOK
<1>9. PlaceOK'
  BY <1>3 DEF IInv, Types, PlaceOK, Folders
<1>10. MarkedOK'
  BY <1>3, <1>4, <1>1 DEF IInv, Types, PlaceOK, MarkedOK, In, Shows
<1>11. WorkInv'
  <2> SUFFICES ASSUME NEW r \in Receivers PROVE Listed(r)' /\ DoneHasReceipt(r)'
    BY DEF WorkInv
  <2>1. Listed(r) /\ DoneHasReceipt(r) /\ rcv[r].live \subseteq Messages
    BY ReceiverType DEF IInv, Types, WorkInv
  <2>2. \A q \in Messages \ {m} : place'[q] = place[q]
    BY <1>3 DEF IInv, Types, PlaceOK
  <2>3. place'[m] = f
    BY <1>3 DEF IInv, Types, PlaceOK
  <2>4. Listed(r)'
    BY <2>1, <2>2, <2>3, <1>5 DEF Listed, Shows
  <2>5. DoneHasReceipt(r)'
    BY <2>1, <1>5, <1>1 DEF DoneHasReceipt, AtFile
  <2> QED
    BY <2>4, <2>5
<1>12. UnsentInv'
  BY <1>3, <1>1, SendType DEF IInv, Types, PlaceOK, ReceiptsOK, UnsentInv, Folders
<1>13. SeenInv'
  BY <1>3, <1>5, <1>1 DEF IInv, Types, PlaceOK, SeenInv
<1>14. CopiesInv'
  BY <1>1, <1>4, Unchanged
<1>15. NamesInv'
  <2> SUFFICES ASSUME NEW r \in Receivers PROVE NamesFit(rcv[r])'
    BY DEF NamesInv
  <2>1. NamesFit(rcv[r])
    BY DEF IInv, NamesInv
  <2>2. rcv[r].file \in Nat /\ \A q \in Messages : rcv[r].index[q] \in Nat
    BY Indexes
  <2> QED
    BY <2>1, <2>2, FreshGrows, <1>4, <1>5, <1>1 DEF NamesFit, Sent
<1>16. FlushedInv'
  BY <1>5, <1>1 DEF IInv, FlushedInv
<1>17. KeptInv'
  BY <1>3, <1>1 DEF IInv, Types, PlaceOK, KeptInv, Kept
<1>18. BodyInv'
  BY <1>3, <1>1, SendType DEF IInv, Types, PlaceOK, BodyInv, Elsewhere, OnServer, Folders
<1>19. EventsOK'
  BY EventLimitAssumption DEF OtherMoves, Event, EventsOK, IInv, Types
<1> QED
  BY <1>2, <1>7, <1>8, <1>9, <1>10, <1>11, <1>12, <1>13, <1>14, <1>15, <1>16, <1>17, <1>18, <1>19, <1>20
     DEF IInv, Types

LEMMA CleanupStep ==
  ASSUME IInv, NEW m \in Outgoing, Cleanup(m)
  PROVE  IInv'
<1>1. UNCHANGED <<place, marked, read, copies, durable, receipts, rcv, lock, events, deleted, touched>>
  BY DEF Cleanup, server, store, history
<1>2. /\ PlaceOK' /\ MarkedOK' /\ FilesOK' /\ ReceiptsOK' /\ ReceiverOK' /\ LockOK'
      /\ EventsOK' /\ HistoryOK' /\ WorkInv' /\ SeenInv' /\ FlushedInv'
  BY Unchanged DEF Cleanup, server, store, history
<1>3. PICK v \in SendRecord : v = out[m] /\ m \in Messages
  BY SendType
<1>4. v.at = "cleanup"
  BY <1>3 DEF Cleanup
<1>5. PICK x \in SendRecord :
         /\ out' = [out EXCEPT ![m] = x]
         /\ x.at = "done" /\ x.body = FALSE
         /\ x.staged = v.staged /\ x.draft = v.draft /\ x.excused = v.excused
  <2> DEFINE y == [v EXCEPT !.at = "done", !.body = FALSE]
  <2>1. /\ y \in SendRecord /\ y.at = "done" /\ y.body = FALSE
        /\ y.staged = v.staged /\ y.draft = v.draft /\ y.excused = v.excused
    BY DEF SendRecord, SendSteps
  <2>2. out' = [out EXCEPT ![m] = y]
    BY <1>3 DEF Cleanup
  <2> HIDE DEF y
  <2> QED
    BY <2>1, <2>2
<1>6. out'[m] = x /\ \A q \in Outgoing \ {m} : out'[q] = out[q]
  BY <1>5 DEF IInv, Types, OutOK
<1>7. OutOK'
  BY <1>5 DEF IInv, Types, OutOK
<1>8. UNCHANGED events \/ Event
  BY DEF Cleanup
<1>9. UnsentInv'
  BY <1>5, <1>6, <1>1 DEF IInv, UnsentInv
<1>10. \A q \in Messages : Sent(q) => Sent(q)'
  BY <1>3, <1>5, <1>6, <1>4 DEF Sent
<1>11. CopiesInv' /\ NamesInv'
  BY <1>10, <1>1, <1>8, CopiesGrow, NamesGrow
<1>12. KeptInv'
  BY <1>3, <1>5, <1>6, <1>1 DEF IInv, KeptInv, Kept
<1>13. BodyInv'
  BY <1>3, <1>4, <1>5, <1>6, <1>1 DEF IInv, BodyInv, Elsewhere, OnServer
<1> QED
  BY <1>2, <1>7, <1>9, <1>11, <1>12, <1>13 DEF IInv, Types

LEMMA KilledStep ==
  ASSUME IInv, NEW m \in Outgoing, Killed(m)
  PROVE  IInv'
<1>1. UNCHANGED <<place, marked, read, copies, durable, receipts, rcv, lock, deleted, touched>>
  BY DEF Killed, server, store, history
<1>2. /\ PlaceOK' /\ MarkedOK' /\ FilesOK' /\ ReceiptsOK' /\ ReceiverOK' /\ LockOK'
      /\ HistoryOK' /\ WorkInv' /\ SeenInv' /\ FlushedInv'
  BY Unchanged DEF Killed, server, store, history
<1>3. PICK v \in SendRecord : v = out[m] /\ m \in Messages
  BY SendType
<1>4. v.at # "none"
  BY <1>3 DEF Killed
<1>5. PICK x \in SendRecord :
         /\ out' = [out EXCEPT ![m] = x]
         /\ x.at = "dead" /\ x.body = v.body
         /\ x.staged = v.staged /\ x.draft = v.draft /\ x.excused = v.excused
  <2> DEFINE y == [v EXCEPT !.at = "dead"]
  <2>1. /\ y \in SendRecord /\ y.at = "dead" /\ y.body = v.body
        /\ y.staged = v.staged /\ y.draft = v.draft /\ y.excused = v.excused
    BY DEF SendRecord, SendSteps
  <2>2. out' = [out EXCEPT ![m] = y]
    BY <1>3 DEF Killed, Sender
  <2> HIDE DEF y
  <2> QED
    BY <2>1, <2>2
<1>6. out'[m] = x /\ \A q \in Outgoing \ {m} : out'[q] = out[q]
  BY <1>5 DEF IInv, Types, OutOK
<1>7. OutOK'
  BY <1>5 DEF IInv, Types, OutOK
<1>8. UNCHANGED events \/ Event
  BY DEF Killed
<1>9. UnsentInv'
  BY <1>5, <1>6, <1>1 DEF IInv, UnsentInv
<1>10. \A q \in Messages : Sent(q) => Sent(q)'
  BY <1>3, <1>5, <1>6, <1>4 DEF Sent
<1>11. CopiesInv' /\ NamesInv'
  BY <1>10, <1>1, <1>8, CopiesGrow, NamesGrow
<1>12. KeptInv'
  BY <1>3, <1>5, <1>6, <1>1 DEF IInv, KeptInv, Kept
<1>13. BodyInv'
  BY <1>3, <1>4, <1>5, <1>6, <1>1 DEF IInv, BodyInv, Elsewhere, OnServer
<1>14. EventsOK'
  BY EventLimitAssumption DEF Killed, Event, EventsOK, IInv, Types
<1> QED
  BY <1>2, <1>7, <1>9, <1>11, <1>12, <1>13, <1>14 DEF IInv, Types

LEMMA SaveDraftStep ==
  ASSUME IInv, NEW m \in Outgoing, SaveDraft(m)
  PROVE  IInv'
<1>1. UNCHANGED <<place, marked, read, copies, durable, receipts, rcv, lock, deleted, touched>>
  BY DEF SaveDraft, server, store, history
<1>2. /\ PlaceOK' /\ MarkedOK' /\ FilesOK' /\ ReceiptsOK' /\ ReceiverOK' /\ LockOK'
      /\ HistoryOK' /\ WorkInv' /\ SeenInv' /\ FlushedInv'
  BY Unchanged DEF SaveDraft, server, store, history
<1>3. PICK v \in SendRecord : v = out[m] /\ m \in Messages
  BY SendType
<1>4. v.at = "failed"
  BY <1>3 DEF SaveDraft
<1>5. PICK x \in SendRecord :
         /\ out' = [out EXCEPT ![m] = x]
         /\ x.at = "cleanup" /\ x.body = v.body /\ x.staged = v.staged
         /\ (x.draft /\ x.excused = v.excused) \/ x.excused
  <2> DEFINE y == [v EXCEPT !.at = "cleanup", !.draft = TRUE]
             z == [v EXCEPT !.at = "cleanup", !.excused = TRUE]
  <2>1. /\ y \in SendRecord /\ z \in SendRecord /\ y.at = "cleanup" /\ z.at = "cleanup"
        /\ y.body = v.body /\ z.body = v.body /\ y.staged = v.staged /\ z.staged = v.staged
        /\ y.draft /\ y.excused = v.excused /\ z.excused
    BY DEF SendRecord, SendSteps
  <2>2. out' = [out EXCEPT ![m] = y] \/ out' = [out EXCEPT ![m] = z]
    BY <1>3 DEF SaveDraft
  <2> HIDE DEF y, z
  <2> QED
    BY <2>1, <2>2
<1>6. out'[m] = x /\ \A q \in Outgoing \ {m} : out'[q] = out[q]
  BY <1>5 DEF IInv, Types, OutOK
<1>7. OutOK'
  BY <1>5 DEF IInv, Types, OutOK
<1>8. UNCHANGED events \/ Event
  BY DEF SaveDraft
<1>9. UnsentInv'
  BY <1>5, <1>6, <1>1 DEF IInv, UnsentInv
<1>10. \A q \in Messages : Sent(q) => Sent(q)'
  BY <1>3, <1>5, <1>6, <1>4 DEF Sent
<1>11. CopiesInv' /\ NamesInv'
  BY <1>10, <1>1, <1>8, CopiesGrow, NamesGrow
<1>12. KeptInv'
  BY <1>3, <1>5, <1>6, <1>1 DEF IInv, KeptInv, Kept
<1>13. BodyInv'
  BY <1>3, <1>4, <1>5, <1>6, <1>1 DEF IInv, BodyInv, Elsewhere, OnServer
<1>14. EventsOK'
  BY EventLimitAssumption DEF SaveDraft, Event, EventsOK, IInv, Types
<1> QED
  BY <1>2, <1>7, <1>9, <1>11, <1>12, <1>13, <1>14 DEF IInv, Types

LEMMA SendStep ==
  ASSUME IInv, NEW m \in Outgoing, Send(m)
  PROVE  IInv'
<1>1. UNCHANGED <<place, marked, read, copies, durable, receipts, rcv, lock, deleted, touched>>
  BY DEF Send, server, store, history
<1>2. /\ PlaceOK' /\ MarkedOK' /\ FilesOK' /\ ReceiptsOK' /\ ReceiverOK' /\ LockOK'
      /\ HistoryOK' /\ WorkInv' /\ SeenInv' /\ FlushedInv'
  BY Unchanged DEF Send, server, store, history
<1>3. PICK v \in SendRecord : v = out[m] /\ m \in Messages
  BY SendType
<1>4. v.at = "none"
  BY <1>3 DEF Send
<1>5. PICK x \in SendRecord :
         /\ out' = [out EXCEPT ![m] = x]
         /\ x.at \in {"staged", "failed"} /\ x.body /\ (x.at = "staged" => x.staged)
  <2> DEFINE y == [v EXCEPT !.at = "staged", !.body = TRUE, !.staged = TRUE]
             z == [v EXCEPT !.at = "failed", !.body = TRUE]
  <2>1. /\ y \in SendRecord /\ z \in SendRecord /\ y.at = "staged" /\ z.at = "failed"
        /\ y.body /\ z.body /\ y.staged
    BY DEF SendRecord, SendSteps
  <2>2. out' = [out EXCEPT ![m] = y] \/ out' = [out EXCEPT ![m] = z]
    BY <1>3 DEF Send
  <2> HIDE DEF y, z
  <2> QED
    BY <2>1, <2>2
<1>6. out'[m] = x /\ \A q \in Outgoing \ {m} : out'[q] = out[q]
  BY <1>5 DEF IInv, Types, OutOK
<1>7. OutOK'
  BY <1>5 DEF IInv, Types, OutOK
<1>8. UNCHANGED events \/ Event
  BY DEF Send
<1>9. UnsentInv'
  BY <1>3, <1>4, <1>5, <1>6, <1>1 DEF IInv, UnsentInv
<1>10. \A q \in Messages : Sent(q) => Sent(q)'
  BY <1>3, <1>5, <1>6, <1>4 DEF Sent
<1>11. CopiesInv' /\ NamesInv'
  BY <1>10, <1>1, <1>8, CopiesGrow, NamesGrow
<1>12. KeptInv'
  BY <1>3, <1>4, <1>5, <1>6, <1>1, ReceiptMeans DEF IInv, KeptInv, Kept
<1>13. BodyInv'
  BY <1>3, <1>4, <1>5, <1>6, <1>1 DEF IInv, BodyInv, Elsewhere, OnServer
<1>14. EventsOK'
  BY EventLimitAssumption DEF Send, Event, EventsOK, IInv, Types
<1> QED
  BY <1>2, <1>7, <1>9, <1>11, <1>12, <1>13, <1>14 DEF IInv, Types

LEMMA SmtpStep ==
  ASSUME IInv, NEW m \in Outgoing, Smtp(m)
  PROVE  IInv'
<1>1. UNCHANGED <<marked, read, copies, durable, receipts, rcv, lock, deleted, touched>>
  BY DEF Smtp, server, store, history
<1>2. /\ FilesOK' /\ ReceiptsOK' /\ ReceiverOK' /\ LockOK' /\ HistoryOK' /\ FlushedInv'
  BY Unchanged DEF Smtp, server, store, history
<1>3. PICK v \in SendRecord : v = out[m] /\ m \in Messages
  BY SendType
<1>4. v.at = "staged"
  BY <1>3 DEF Smtp
<1>5. PICK x \in SendRecord :
         /\ out' = [out EXCEPT ![m] = x]
         /\ x.at \in {"accepted", "failed"} /\ x.body = v.body
         /\ x.at = "accepted" => x.staged = v.staged
  <2> DEFINE y == [v EXCEPT !.at = "accepted"]
             z == [v EXCEPT !.at = "failed", !.staged = FALSE]
  <2>1. /\ y \in SendRecord /\ z \in SendRecord /\ y.at = "accepted" /\ z.at = "failed"
        /\ y.body = v.body /\ z.body = v.body /\ y.staged = v.staged
    BY DEF SendRecord, SendSteps
  <2>2. out' = [out EXCEPT ![m] = y] \/ out' = [out EXCEPT ![m] = z]
    BY <1>3 DEF Smtp, Sender
  <2> HIDE DEF y, z
  <2> QED
    BY <2>1, <2>2
<1>6. out'[m] = x /\ \A q \in Outgoing \ {m} : out'[q] = out[q]
  BY <1>5 DEF IInv, Types, OutOK
<1>7. OutOK'
  BY <1>5 DEF IInv, Types, OutOK
<1>8. UNCHANGED events \/ Event
  BY DEF Smtp
<1>9. place' \in {place, [place EXCEPT ![m] = "Sent"]}
  BY DEF Smtp
<1>10. place[m] = "nowhere" /\ m \notin receipts /\ \A z \in Messages \ {m} : place'[z] =
   place[z]
  BY <1>9, <1>3, <1>4, ReceiptMeans DEF IInv, Types, PlaceOK, UnsentInv
<1>11. place'[m] \in {"nowhere", "Sent"}
  BY <1>9, <1>10, <1>3 DEF IInv, Types, PlaceOK
<1>12. PlaceOK'
  BY <1>9 DEF IInv, Types, PlaceOK, Folders
<1>13. MarkedOK'
  BY <1>10, <1>1 DEF IInv, Types, MarkedOK, In, Shows
<1>14. WorkInv'
  BY <1>10, <1>1, NotListed DEF IInv, Types, WorkInv, Listed, DoneHasReceipt, AtFile
<1>15. UnsentInv'
  BY <1>10, <1>5, <1>6, <1>1, SendType DEF IInv, Types, ReceiptsOK, UnsentInv
<1>16. SeenInv'
  BY <1>10, <1>1 DEF IInv, SeenInv
<1>17. \A q \in Messages : Sent(q) => Sent(q)'
  BY <1>3, <1>5, <1>6, <1>4 DEF Sent
<1>18. CopiesInv' /\ NamesInv'
  BY <1>17, <1>1, <1>8, CopiesGrow, NamesGrow
<1>19. KeptInv'
  BY <1>10, <1>11, <1>5, <1>6, <1>1 DEF IInv, Types, ReceiptsOK, KeptInv, Kept
<1>20. BodyInv'
  <2> SUFFICES ASSUME NEW z \in Outgoing
               PROVE  /\ out'[z].at \in {"staged", "accepted", "failed", "cleanup"} => out'[z].body
                      /\ out'[z].at \in {"staged", "accepted"} => out'[z].staged
                      /\ out'[z].at # "none" /\ ~out'[z].body /\ ~out'[z].excused => Elsewhere(z)'
                      /\ out'[z].at = "cleanup" /\ ~out'[z].excused => Elsewhere(z)'
    BY DEF BodyInv
  <2>1. CASE z = m
    BY <2>1, <1>3, <1>4, <1>5, <1>6 DEF IInv, BodyInv
  <2>2. CASE z # m
    BY <2>2, <1>10, <1>6, <1>1, SendType DEF IInv, BodyInv, Elsewhere, OnServer
  <2> QED
    BY <2>1, <2>2
<1>21. EventsOK'
  BY EventLimitAssumption DEF Smtp, Event, EventsOK, IInv, Types
<1> QED
  BY <1>2, <1>7, <1>12, <1>13, <1>14, <1>15, <1>16, <1>18, <1>19, <1>20, <1>21 DEF IInv, Types

LEMMA PublishStep ==
  ASSUME IInv, NEW m \in Outgoing, Publish(m)
  PROVE  IInv'
<1>1. UNCHANGED <<place, marked, read, receipts, rcv, lock, deleted>>
  BY DEF Publish, server, store, history
<1>2. /\ PlaceOK' /\ MarkedOK' /\ ReceiptsOK' /\ ReceiverOK' /\ LockOK' /\ WorkInv'
      /\ SeenInv'
  BY Unchanged DEF Publish, server, store, history
<1>3. PICK v \in SendRecord : v = out[m] /\ m \in Messages
  BY SendType
<1>4. v.at = "accepted"
  BY <1>3 DEF Publish
<1>5. PICK linked \in BOOLEAN, flushed \in BOOLEAN :
         /\ flushed => linked
         /\ UNCHANGED events \/ Event
         /\ out' = [out EXCEPT ![m] = [v EXCEPT !.at = "cleanup", !.staged = ~flushed]]
         /\ copies' = [copies EXCEPT ![m] = IF linked THEN @ \union {Published} ELSE @]
         /\ durable' = [durable EXCEPT ![m] = IF flushed THEN @ \union {Published} ELSE @]
  BY <1>3 DEF Publish
<1>6. PICK staged \in BOOLEAN : staged = ~flushed
  OBVIOUS
<1> DEFINE x == [v EXCEPT !.at = "cleanup", !.staged = staged]
<1>7. x \in SendRecord /\ x.at = "cleanup" /\ x.body = v.body /\ x.staged = staged
  BY DEF SendRecord, SendSteps
<1>8. out' = [out EXCEPT ![m] = x]
  BY <1>5, <1>6
<1> HIDE DEF x
<1>9. out'[m] = x /\ \A q \in Outgoing \ {m} : out'[q] = out[q]
  BY <1>8 DEF IInv, Types, OutOK
<1>10. OutOK'
  BY <1>8, <1>7 DEF IInv, Types, OutOK
<1>11. /\ copies[m] \subseteq copies'[m] /\ durable[m] \subseteq durable'[m]
      /\ \A n \in copies'[m] : n \in copies[m] \/ n = Published
  BY <1>5, <1>3 DEF IInv, Types, FilesOK
<1>12. ~staged => Published \in copies'[m] /\ Published \in durable'[m]
  BY <1>5, <1>6, <1>3 DEF IInv, Types, FilesOK
<1>13. \A q \in Messages \ {m} : copies'[q] = copies[q] /\ durable'[q] = durable[q]
  BY <1>5, <1>3 DEF IInv, Types, FilesOK
<1>14. UNCHANGED events \/ Event
  BY <1>5
<1>15. FilesOK'
  BY <1>5, <1>3, NameNumbers DEF IInv, Types, FilesOK
<1>16. HistoryOK'
  BY <1>3 DEF Publish, Touch, IInv, Types, HistoryOK
<1>17. UnsentInv'
  BY <1>1, <1>9, <1>7 DEF IInv, UnsentInv
<1>18. \A q \in Messages : Sent(q) => Sent(q)'
  BY <1>3, <1>4, <1>9 DEF Sent
<1>19. ~Sent(m) /\ Sent(m)'
  BY <1>3, <1>4, <1>9, <1>7 DEF Sent
<1>20. CopiesInv' /\ NamesInv'
  BY <1>18, <1>19, <1>11, <1>13, <1>14, <1>1, CopiesGrow, NamesGrow
<1>21. FlushedInv'
  <2> SUFFICES ASSUME NEW r \in Receivers, rcv[r].at = "receipt",
                      rcv[r].file \in copies'[rcv[r].msg]
               PROVE  rcv[r].file \in durable'[rcv[r].msg]
    BY <1>1 DEF FlushedInv
  <2>1. rcv[r].msg \in Messages
    BY ReceiverType DEF IInv, Types, WorkInv, DoneHasReceipt, AtFile
  <2>2. rcv[r].msg = m => rcv[r].file # Published
    BY <1>19 DEF IInv, NamesInv, NamesFit
  <2> QED
    BY <2>1, <2>2, <1>11, <1>12, <1>13 DEF IInv, FlushedInv
<1>22. KeptInv'
  BY <1>11, <1>12, <1>13, <1>9, <1>7, <1>1 DEF IInv, Types, ReceiptsOK, KeptInv, Kept
<1>23. BodyInv'
  <2> SUFFICES ASSUME NEW z \in Outgoing
               PROVE  /\ out'[z].at \in {"staged", "accepted", "failed", "cleanup"} => out'[z].body
                      /\ out'[z].at \in {"staged", "accepted"} => out'[z].staged
                      /\ out'[z].at # "none" /\ ~out'[z].body /\ ~out'[z].excused => Elsewhere(z)'
                      /\ out'[z].at = "cleanup" /\ ~out'[z].excused => Elsewhere(z)'
    BY DEF BodyInv
  <2>1. CASE z = m
    BY <2>1, <1>3, <1>4, <1>7, <1>9, <1>11, <1>12, <1>13 DEF IInv, BodyInv, Elsewhere
  <2>2. CASE z # m
    BY <2>2, <1>11, <1>12, <1>13, <1>9, <1>1, SendType DEF IInv, BodyInv, Elsewhere, OnServer
  <2> QED
    BY <2>1, <2>2
<1>24. EventsOK'
  BY EventLimitAssumption DEF Publish, Event, EventsOK, IInv, Types
<1> QED
  BY <1>2, <1>10, <1>15, <1>16, <1>17, <1>20, <1>21, <1>22, <1>23, <1>24 DEF IInv, Types

LEMMA PowerCutStep ==
  ASSUME IInv, PowerCut
  PROVE  IInv'
<1>1. UNCHANGED <<place, marked, read, receipts, deleted, touched>>
  BY DEF PowerCut, server, store, history
<1>2. /\ PlaceOK' /\ MarkedOK' /\ ReceiptsOK' /\ HistoryOK'
  BY Unchanged DEF PowerCut, server, store, history
<1>3. \A q \in Receivers : rcv'[q] = Resting
  BY DEF PowerCut
<1>4. ReceiverOK' /\ LockOK'
  BY <1>3, Rest DEF PowerCut, ReceiverOK, LockOK
<1>5. WorkInv' /\ SeenInv' /\ FlushedInv'
  BY <1>3, Rest, MessagesAssumption DEF WorkInv, Listed, DoneHasReceipt, AtFile, SeenInv,
     FlushedInv
<1>6. UNCHANGED events \/ Event
  BY DEF PowerCut
<1>7. EventsOK'
  BY <1>6, EventLimitAssumption DEF Event, EventsOK, IInv, Types
<1>8. NamesInv'
  BY <1>3, <1>7, AtRest DEF NamesInv
<1>9. /\ copies' \in [Messages -> SUBSET Names] /\ durable' = copies'
      /\ \A m \in Messages : durable[m] \subseteq copies'[m] /\ copies'[m] \subseteq copies[m]
  BY DEF PowerCut, IInv, Types, FilesOK
<1>10. FilesOK'
  BY <1>9 DEF FilesOK
<1>11. \A m \in Outgoing :
         /\ out'[m] \in SendRecord /\ out'[m].staged = out[m].staged
         /\ out[m].at = "none" => out'[m] = out[m]
         /\ out[m].at # "none" => out'[m].at \in {"done", "dead"}
         /\ out[m].at # "none" => out'[m].excused = (out[m].excused \/ place[m] = "nowhere")
  <2> SUFFICES ASSUME NEW m \in Outgoing
               PROVE  /\ out'[m] \in SendRecord /\ out'[m].staged = out[m].staged
                      /\ out[m].at = "none" => out'[m] = out[m]
                      /\ out[m].at # "none" => out'[m].at \in {"done", "dead"}
                      /\ out[m].at # "none" =>
                           out'[m].excused = (out[m].excused \/ place[m] = "nowhere")
    OBVIOUS
  <2>1. PICK v \in SendRecord : v = out[m]
    BY SendType
  <2>2. PICK to \in {"done", "dead"} : to = (IF v.at = "done" THEN "done" ELSE "dead")
    OBVIOUS
  <2>3. PICK ex \in BOOLEAN : ex = (v.excused \/ place[m] = "nowhere")
    OBVIOUS
  <2> DEFINE y == [v EXCEPT !.at = to, !.body = FALSE, !.draft = FALSE, !.excused = ex]
  <2>4. y \in SendRecord /\ y.at = to /\ y.staged = v.staged /\ y.excused = ex
    BY DEF SendRecord, SendSteps
  <2>5. out'[m] = IF v.at = "none" THEN v ELSE y
    BY <2>1, <2>2, <2>3, Zenon DEF PowerCut
  <2> HIDE DEF y
  <2> QED
    BY <2>1, <2>2, <2>3, <2>4, <2>5
<1>12. out' = [m \in Outgoing |-> out'[m]]
  BY DEF PowerCut
<1>13. OutOK'
  BY <1>11, <1>12 DEF OutOK
<1>14. UnsentInv'
  BY <1>11, <1>1 DEF IInv, UnsentInv
<1>15. \A q \in Messages : Sent(q) => Sent(q)'
  BY <1>11 DEF Sent
<1>16. CopiesInv'
  BY <1>15, <1>9, <1>6, CopiesGrow
<1>17. KeptInv'
  BY <1>9, <1>11, <1>1 DEF IInv, Types, FilesOK, ReceiptsOK, KeptInv, Kept
<1>18. BodyInv'
  <2> SUFFICES ASSUME NEW m \in Outgoing, out[m].at # "none", ~out'[m].excused PROVE Elsewhere(m)'
    BY <1>11 DEF IInv, BodyInv, Elsewhere, OnServer
  <2>1. m \in Messages /\ place[m] # "nowhere" /\ place[m] \in Folders \union {"nowhere", "gone"}
    BY <1>11, SendType DEF IInv, Types, PlaceOK
  <2>2. CASE place[m] \in Folders
    BY <2>2, <1>1 DEF Elsewhere, OnServer
  <2>3. CASE place[m] = "gone"
    BY <2>1, <2>3, <1>17, <1>1, <1>9 DEF IInv, KeptInv, Kept, Elsewhere
  <2> QED
    BY <2>1, <2>2, <2>3
<1> QED
  BY <1>2, <1>4, <1>5, <1>7, <1>8, <1>10, <1>13, <1>14, <1>16, <1>17, <1>18 DEF IInv, Types

-----------------------------------------------------------------------------
(* The theorems.                                                            *)

LEMMA Initially ==
  ASSUME Init
  PROVE  IInv
<1>1. \A r \in Receivers : rcv[r] = Resting
  BY DEF Init
<1>2. PICK u \in SendRecord :
        /\ u = Unsent /\ u.at = "none" /\ ~u.body /\ ~u.staged
  <2>1. Unsent \in SendRecord
    BY Zenon DEF Unsent, SendRecord, SendSteps
  <2>2. Unsent.at = "none" /\ Unsent.body = FALSE /\ Unsent.staged = FALSE
    BY Zenon DEF Unsent
  <2> QED
    BY <2>1, <2>2
<1>3. out = [m \in Outgoing |-> u]
  BY <1>2 DEF Init
<1>4. PlaceOK /\ MarkedOK /\ FilesOK /\ ReceiptsOK /\ EventsOK /\ HistoryOK
  BY EventLimitAssumption
     DEF Init, PlaceOK, MarkedOK, FilesOK, ReceiptsOK, EventsOK, HistoryOK
<1>5. ReceiverOK /\ LockOK
  BY Rest DEF Init, ReceiverOK, LockOK
<1>6. OutOK
  BY <1>2, <1>3 DEF OutOK
<1>7. WorkInv /\ SeenInv /\ FlushedInv
  BY <1>1, Rest, MessagesAssumption
     DEF WorkInv, Listed, DoneHasReceipt, AtFile, SeenInv, FlushedInv
<1>8. UnsentInv /\ KeptInv
  BY <1>2, <1>3 DEF Init, UnsentInv, KeptInv, Messages
<1>9. CopiesInv
  BY DEF Init, CopiesInv
<1>10. NamesInv
  <2>1. NoName # Published /\ \A n \in 0..EventLimit : NoName <= Fresh(n)
    BY EventLimitAssumption DEF Fresh, NoName, Published
  <2>2. NoName <= Fresh(events)
    BY <2>1, EventLimitAssumption DEF Init
  <2> QED
    BY <1>1, <2>1, <2>2, Rest DEF NamesInv, NamesFit
<1>11. BodyInv
  BY <1>2, <1>3 DEF BodyInv
<1> QED
  BY <1>4, <1>5, <1>6, <1>7, <1>8, <1>9, <1>10, <1>11 DEF IInv, Types

LEMMA Stutter ==
  ASSUME IInv, UNCHANGED vars
  PROVE  IInv'
BY Unchanged DEF vars, server, store, history, IInv, Types

LEMMA NextStep ==
  ASSUME IInv, Next
  PROVE  IInv'
<1>1. ASSUME NEW r \in Receivers, Start(r) \/ Check(r) \/ Fail(r) PROVE IInv'
  BY <1>1, StartStep, ListStep, FetchStep, TakeStep, PlaceStep, SyncStep, WriteReceiptStep,
     MoveToTrashStep, MarkStep, ExpungeStep, FinishStep, IncompleteStep, FailStep DEF Check
<1>2. ASSUME NEW m \in Messages, NEW from \in Names, Move(m, from) \/ Delete(m, from) PROVE IInv'
  BY <1>2, MoveStep, DeleteStep
<1>3. ASSUME NEW m \in Incoming, Arrive(m) PROVE IInv'
  BY <1>3, ArriveStep
<1>4. ASSUME NEW m \in Messages, OtherMoves(m) \/ OtherReads(m) \/ OtherMarks(m) PROVE IInv'
  BY <1>4, OtherMovesStep, OtherReadsStep, OtherMarksStep
<1>5. ASSUME NEW m \in Outgoing, Sending(m) PROVE IInv'
  BY <1>5, SendStep, SmtpStep, PublishStep, SaveDraftStep, CleanupStep, KilledStep DEF Sending
<1> QED
  BY <1>1, <1>2, <1>3, <1>4, <1>5, PowerCutStep DEF Next

(* The strengthened invariant holds in every reachable state, however many  *)
(* receivers, messages and events there are.                                *)
THEOREM Invariant == Spec => []IInv
<1>1. Init => IInv
  BY Initially
<1>2. IInv /\ [Next]_vars => IInv'
  BY NextStep, Stutter
<1> QED
  BY <1>1, <1>2, PTL DEF Spec

(* The state always has its type; only the owner of the lock is at work,    *)
(* and what is marked \Deleted is in Trash.                                 *)
THEOREM TypeCorrect == Spec => []TypeOK
<1>1. IInv => TypeOK
  BY ReceiverType DEF IInv, Types, TypeOK, PlaceOK, MarkedOK, FilesOK, ReceiptsOK, LockOK,
     EventsOK, HistoryOK
<1> QED
  BY <1>1, Invariant, PTL

(* A message that a receiver has expunged from the server has a receipt,    *)
(* and its file stays through a power cut unless the user has deleted it.   *)
THEOREM NothingIsLost == Spec => []RemovedIsKept
<1>1. IInv => RemovedIsKept
  BY DEF IInv, KeptInv, RemovedIsKept
<1> QED
  BY <1>1, Invariant, PTL

(* A message the user has sent is always somewhere, however the sending     *)
(* ends, power cuts included.                                               *)
THEOREM NothingSentIsLost == Spec => []SentIsKept
<1>1. IInv => SentIsKept
  BY DEF IInv, BodyInv, Elsewhere, SentIsKept
<1> QED
  BY <1>1, Invariant, PTL

(* No step adds a file to a message with a receipt.                         *)
LEMMA NamesFinite ==
  ASSUME NEW S \in SUBSET Names
  PROVE  IsFiniteSet(S) /\ Cardinality(S) \in Nat
<1>1. Names = 1..(9 + EventLimit) /\ 9 + EventLimit \in Nat
  BY EventLimitAssumption DEF Names, Fresh, Published
<1>2. IsFiniteSet(Names)
  BY <1>1, FS_Interval
<1> QED
  BY <1>2, FS_Subset, FS_CardinalityType

LEMMA OneForOne ==
  ASSUME NEW S \in SUBSET Names, NEW a \in S, NEW b
  PROVE  Cardinality((S \ {a}) \union {b}) <= Cardinality(S)
<1>1. IsFiniteSet(S) /\ Cardinality(S) \in Nat
  BY NamesFinite
<1>2. IsFiniteSet(S \ {a}) /\ Cardinality(S \ {a}) = Cardinality(S) - 1
  BY <1>1, FS_RemoveElement
<1>3. Cardinality((S \ {a}) \union {b}) \in {Cardinality(S \ {a}), Cardinality(S \ {a}) + 1}
  BY <1>2, FS_AddElement
<1> QED
  BY <1>1, <1>2, <1>3

LEMMA NoMore ==
  ASSUME NEW S \in SUBSET Names, NEW T \in SUBSET S
  PROVE  Cardinality(T) <= Cardinality(S)
BY NamesFinite, FS_Subset

Sticks(m) == \/ Cardinality(copies'[m]) <= Cardinality(copies[m])
             \/ m \in Outgoing /\ out[m].at = "accepted"

LEMMA StickStep ==
  ASSUME IInv, [Next]_vars, NEW m \in receipts
  PROVE  Sticks(m)
<1>1. m \in Messages /\ copies[m] \in SUBSET Names /\ copies \in [Messages -> SUBSET Names]
  BY DEF IInv, Types, ReceiptsOK, FilesOK
<1>2. CASE copies'[m] \subseteq copies[m]
  BY <1>1, <1>2, NoMore DEF Sticks
<1>3. ASSUME NEW r \in Receivers, Place(r) PROVE copies'[m] = copies[m]
  BY <1>1, <1>3 DEF Place, IInv, WorkInv, DoneHasReceipt, AtFile
<1>4. ASSUME NEW q \in Messages, NEW from \in Names, Move(q, from) PROVE Sticks(m)
  <2>1. from \in copies[q]
        /\ copies' = [copies EXCEPT ![q] = (@ \ {from}) \union {Fresh(events')}]
    BY <1>4 DEF Move
  <2>2. CASE q = m
    BY <2>1, <2>2, <1>1, OneForOne DEF Sticks
  <2>3. CASE q # m
    BY <2>1, <2>3, <1>1, <1>2
  <2> QED
    BY <2>2, <2>3
<1>5. ASSUME NEW q \in Messages, NEW from \in Names, Delete(q, from)
      PROVE  copies'[m] \subseteq copies[m]
  BY <1>1, <1>5 DEF Delete
<1>6. ASSUME NEW q \in Outgoing, Publish(q) PROVE copies'[m] = copies[m] \/ Sticks(m)
  <2>1. CASE q = m
    BY <2>1, <1>6 DEF Publish, Sticks
  <2>2. CASE q # m
    BY <2>2, <1>1, <1>6 DEF Publish
  <2> QED
    BY <2>1, <2>2
<1>7. ASSUME PowerCut PROVE copies'[m] \subseteq copies[m]
  BY <1>1, <1>7 DEF PowerCut, IInv, Types, FilesOK
<1>8. CASE UNCHANGED vars
  BY <1>2, <1>8 DEF vars, store
<1>9. CASE Next
  <2>1. ASSUME NEW r \in Receivers, Start(r) \/ Check(r) \/ Fail(r) PROVE copies'[m] = copies[m]
    <3>1. CASE Start(r) \/ Fail(r)
      BY <3>1 DEF Start, Fail, store
    <3>2. CASE Check(r)
      BY <3>2, <1>3 DEF Check, List, Fetch, Take, Sync, WriteReceipt, MoveToTrash, Mark, Expunge,
         Finish, Incomplete, store
    <3> QED
      BY <2>1, <3>1, <3>2
  <2>2. ASSUME NEW q \in Messages, Arrive(q) \/ OtherMoves(q) \/ OtherReads(q) \/ OtherMarks(q)
        PROVE  copies'[m] = copies[m]
    BY <2>2 DEF Arrive, OtherMoves, OtherReads, OtherMarks, store
  <2>3. ASSUME NEW q \in Outgoing, Sending(q) PROVE copies'[m] = copies[m] \/ Sticks(m)
    BY <2>3, <1>6 DEF Sending, Send, Smtp, SaveDraft, Cleanup, Killed, store
  <2> QED
    BY <1>2, <1>4, <1>5, <1>7, <1>9, <2>1, <2>2, <2>3 DEF Next, Messages
<1> QED
  BY <1>8, <1>9

(* A local move or deletion of a message with a receipt is final: only its  *)
(* sender, who publishes the copy, ever adds a file to it.                  *)
THEOREM NothingComesBack == Spec => DecisionsStick
<1>1. IInv /\ [Next]_vars =>
        \A m \in receipts : \/ Cardinality(copies'[m]) <= Cardinality(copies[m])
                            \/ m \in Outgoing /\ out[m].at = "accepted"
  BY StickStep DEF Sticks
<1> QED
  BY <1>1, Invariant, PTL DEF Spec, DecisionsStick

-----------------------------------------------------------------------------
(* One copy.  A receiver adds a file only where it knows of none, and then  *)
(* the message has none, or the very file it would add.                     *)

AtMostOne(S) == \A a, b \in S : a = b
InHand(r, m) == rcv[r].at \in {"sync", "receipt"} /\ rcv[r].msg = m
Known(m) == copies[m] # {} \/ \E r \in Receivers : m \in rcv[r].pending
Open == Messages \ (touched \union receipts)

(* No message that is left alone has two files.                             *)
AtMostInv == \A m \in Messages \ touched : AtMostOne(copies[m])

(* Without a fingerprint: a file has the name that the server's folder and  *)
(* flag give it now, and so has the one a receiver is about to make.        *)
ShownInv ==
  \A m \in Open \ Keyed :
    /\ copies[m] # {} => OnServer(m) /\ copies[m] \subseteq {Path(m)}
    /\ \A r \in Receivers : m \in rcv[r].pending => OnServer(m) /\ rcv[r].path[m] = Path(m)

(* With a fingerprint: an index that has been read names the file there is, *)
(* or there is none, or it is the one its receiver has just made.           *)
IndexInv ==
  \A r \in Receivers : rcv[r].indexed =>
    \A m \in Keyed \intersect Open : rcv[r].index[m] \in copies[m] \/ copies[m] = {} \/ InHand(r, m)

OneInv == AtMostInv /\ ShownInv /\ IndexInv

LEMMA OneCopyMeans ==
  ASSUME NEW S \in SUBSET Names, AtMostOne(S) PROVE Cardinality(S) <= 1
<1>1. CASE S = {}
  BY <1>1, FS_EmptySet
<1>2. ASSUME NEW a \in S PROVE Cardinality(S) <= 1
  <2>1. S = {a}
    BY <1>2 DEF AtMostOne
  <2> QED
    BY <2>1, FS_Singleton
<1> QED
  BY <1>1, <1>2

LEMMA RestingKnowsNothing == ~Resting.indexed
BY DEF Resting

(* What a receiver knows after a step: no more, but what it lists anew.     *)
NoNewIndex == \A r \in Receivers : rcv'[r].indexed =>
  /\ rcv[r].indexed /\ rcv'[r].index = rcv[r].index
  /\ \A m \in Messages : InHand(r, m) => InHand(r, m)'
AsListed == \A r \in Receivers : \A m \in rcv'[r].pending \intersect Messages :
  \/ m \in rcv[r].pending /\ rcv'[r].path[m] = rcv[r].path[m]
  \/ OnServer(m)' /\ rcv'[r].path[m] = Path(m)'
SameShown(m) == place'[m] = place[m] /\ (m \in read' <=> m \in read)

LEMMA ShownKept ==
  ASSUME OneInv, touched \subseteq touched', receipts \subseteq receipts', AsListed,
         \A m \in Open' \ Keyed : /\ copies'[m] \subseteq copies[m]
                                  /\ Known(m) /\ OnServer(m) => SameShown(m)
  PROVE  ShownInv'
<1> SUFFICES ASSUME NEW m \in Open' \ Keyed
    PROVE  /\ copies'[m] # {} => OnServer(m)' /\ copies'[m] \subseteq {Path(m)'}
           /\ \A r \in Receivers : m \in rcv'[r].pending => OnServer(m)' /\ rcv'[r].path[m] = Path(m)'
  BY DEF ShownInv
<1>1. m \in Messages /\ m \in Open \ Keyed
  BY DEF Open
<1>2. ASSUME Known(m) PROVE OnServer(m) /\ OnServer(m)' /\ Path(m)' = Path(m)
  <2>1. OnServer(m)
    BY <1>1, <1>2 DEF OneInv, ShownInv, Known
  <2>2. SameShown(m)
    BY <1>2, <2>1
  <2> QED
    BY <2>1, <2>2 DEF SameShown, OnServer, Path
<1>3. copies'[m] # {} => OnServer(m)' /\ copies'[m] \subseteq {Path(m)'}
  <2>1. copies'[m] # {} => copies[m] # {} /\ copies'[m] \subseteq copies[m]
    OBVIOUS
  <2>2. copies[m] # {} => copies[m] \subseteq {Path(m)} /\ Known(m)
    BY <1>1 DEF OneInv, ShownInv, Known
  <2> QED
    BY <2>1, <2>2, <1>2
<1>4. ASSUME NEW r \in Receivers, m \in rcv'[r].pending
      PROVE  OnServer(m)' /\ rcv'[r].path[m] = Path(m)'
  <2>1. CASE m \in rcv[r].pending /\ rcv'[r].path[m] = rcv[r].path[m]
    <3>1. Known(m) /\ rcv[r].path[m] = Path(m)
      BY <2>1, <1>1 DEF OneInv, ShownInv, Known
    <3> QED
      BY <2>1, <3>1, <1>2
  <2> QED
    BY <2>1, <1>1, <1>4 DEF AsListed
<1> QED
  BY <1>3, <1>4

(* Steps that only take files away and read no index.                       *)
LEMMA OneKept ==
  ASSUME OneInv, touched \subseteq touched', receipts \subseteq receipts', AsListed, NoNewIndex,
         \A m \in Messages : copies'[m] \subseteq copies[m],
         \A m \in Open' \ Keyed : Known(m) /\ OnServer(m) => SameShown(m)
  PROVE  OneInv'
<1>1. AtMostInv'
  BY DEF OneInv, AtMostInv, AtMostOne
<1>2. ShownInv'
  BY ShownKept DEF Open
<1>3. IndexInv'
  <2> SUFFICES ASSUME NEW r \in Receivers, rcv'[r].indexed, NEW m \in Keyed \intersect Open'
      PROVE  rcv'[r].index[m] \in copies'[m] \/ copies'[m] = {} \/ InHand(r, m)'
    BY DEF IndexInv
  <2>1. m \in Messages /\ m \in Open /\ m \notin touched
    BY DEF Open
  <2>2. AtMostOne(copies[m]) /\ copies'[m] \subseteq copies[m]
    BY <2>1 DEF OneInv, AtMostInv
  <2>3. rcv'[r].index[m] = rcv[r].index[m] /\ (InHand(r, m) => InHand(r, m)')
    BY <2>1 DEF NoNewIndex
  <2>4. rcv[r].index[m] \in copies[m] \/ copies[m] = {} \/ InHand(r, m)
    BY <2>1 DEF NoNewIndex, OneInv, IndexInv
  <2>5. CASE rcv[r].index[m] \in copies[m]
    BY <2>2, <2>3, <2>5 DEF AtMostOne
  <2> QED
    BY <2>2, <2>3, <2>4, <2>5
<1> QED
  BY <1>1, <1>2, <1>3 DEF OneInv

(* What a receiver does beside Place and WriteReceipt changes no file, moves*)
(* what has a receipt only, and names what it lists as it is shown.         *)
LEMMA ReceiverKnows ==
  ASSUME IInv, NEW r \in Receivers,
         \/ Start(r) \/ List(r) \/ Fetch(r) \/ (\E m \in Messages : Take(r, m)) \/ Sync(r)
         \/ MoveToTrash(r) \/ Mark(r) \/ Expunge(r) \/ Finish(r) \/ Incomplete(r) \/ Fail(r)
  PROVE  /\ UNCHANGED <<copies, receipts, touched, read>> /\ AsListed /\ NoNewIndex
         /\ \A m \in Messages \ receipts : place'[m] = place[m]
<1>0. rcv \in [Receivers -> Receiver] /\ place \in [Messages -> Folders \union {"nowhere", "gone"}]
  BY DEF IInv, Types, ReceiverOK, PlaceOK
<1>1. CASE Fetch(r) \/ Sync(r) \/ Mark(r)
  <2>1. PICK label \in {"save", "receipt", "expunge"} :
          rcv' = [rcv EXCEPT ![r].at = label] /\ (rcv[r].at = "sync" => label = "receipt")
    BY <1>1 DEF Fetch, Sync, Mark, Goto, Saved
  <2>2. \A s \in Receivers : /\ rcv'[s].indexed = rcv[s].indexed /\ rcv'[s].index = rcv[s].index
                             /\ rcv'[s].pending = rcv[s].pending /\ rcv'[s].path = rcv[s].path
                             /\ rcv'[s].msg = rcv[s].msg
    BY <1>0, <2>1 DEF Receiver
  <2>3. rcv[r].at # "receipt"
    BY <1>1 DEF Fetch, Sync, Mark, Saved
  <2>4. \A s \in Receivers : rcv[s].at \in {"sync", "receipt"} => rcv'[s].at \in {"sync", "receipt"}
    BY <1>0, <2>1, <2>3 DEF Receiver
  <2>5. UNCHANGED <<place, copies, receipts, touched, read>>
    BY <1>1 DEF Fetch, Sync, Mark, server, store, history
  <2> QED
    BY <2>2, <2>4, <2>5 DEF AsListed, NoNewIndex, InHand
<1>2. CASE Finish(r) \/ Incomplete(r) \/ Fail(r)
  <2>1. rcv' = [rcv EXCEPT ![r] = Resting] /\ UNCHANGED <<place, copies, receipts, touched, read>>
    BY <1>2 DEF Finish, Incomplete, Fail, Abandon, server, store, history
  <2>2. /\ rcv'[r] = Resting /\ \A s \in Receivers : s # r => rcv'[s] = rcv[s]
    BY <1>0, <2>1
  <2>3. AsListed
    BY <2>2, Rest DEF AsListed
  <2>4. NoNewIndex
    BY <2>2, RestingKnowsNothing DEF NoNewIndex, InHand
  <2> QED
    BY <2>1, <2>3, <2>4
<1>3. CASE List(r)
  <2>1. /\ rcv[r].at = "list" /\ UNCHANGED <<place, copies, receipts, touched, read>>
        /\ rcv[r].todo # <<>> /\ rcv[r].todo \in Seq(Folders)
    BY <1>0, <1>3 DEF List, Receiver, server, store, history
  <2>2. PICK found \in SUBSET Messages : found = In(Head(rcv[r].todo))
    BY DEF In
  <2>3. \A s \in Receivers : s # r => rcv'[s] = rcv[s]
    BY <1>0, <1>3 DEF List
  <2>4. /\ rcv'[r].indexed = rcv[r].indexed /\ rcv'[r].index = rcv[r].index
        /\ rcv'[r].pending = {} \/ (/\ rcv'[r].pending = found \ receipts
                                    /\ rcv'[r].path = PathsOf(found \ receipts))
    <3>1. CASE found = {}
      BY <1>0, <1>3, <2>2, <3>1 DEF List, NextFolder, Receiver
    <3>2. CASE found # {}
      BY <1>0, <1>3, <2>2, <3>2 DEF List, Receiver
    <3> QED
      BY <3>1, <3>2
  <2>5. \A m \in found \ receipts :
          OnServer(m) /\ (rcv'[r].path = PathsOf(found \ receipts) => rcv'[r].path[m] = Path(m))
    BY <2>1, <2>2, RestOfRun DEF In, Shows, OnServer, Folders, PathsOf
  <2>6. \A m \in Messages : (OnServer(m) <=> OnServer(m)') /\ Path(m)' = Path(m)
    BY <2>1 DEF OnServer, Path
  <2>7. AsListed
    BY <2>3, <2>4, <2>5, <2>6 DEF AsListed
  <2>8. NoNewIndex
    BY <2>1, <2>3, <2>4 DEF NoNewIndex, InHand
  <2> QED
    BY <2>1, <2>7, <2>8
<1>4. ASSUME NEW m \in Messages, Take(r, m)
      PROVE  /\ UNCHANGED <<place, copies, receipts, touched, read>> /\ AsListed /\ NoNewIndex
  <2>1. UNCHANGED <<place, copies, receipts, touched, read>> /\ rcv[r].at = "save"
    BY <1>4 DEF Take, server, store, history
  <2>2. \A s \in Receivers : s # r => rcv'[s] = rcv[s]
    BY <1>0, <1>4 DEF Take
  <2>3. /\ rcv'[r].indexed = rcv[r].indexed /\ rcv'[r].index = rcv[r].index
        /\ rcv'[r].pending \subseteq rcv[r].pending /\ rcv'[r].path = rcv[r].path
    BY <1>0, <1>4 DEF Take, Receiver
  <2> QED
    BY <2>1, <2>2, <2>3 DEF AsListed, NoNewIndex, InHand
<1>5. CASE MoveToTrash(r) \/ Expunge(r)
  <2>1. UNCHANGED <<copies, receipts, touched, read>> /\ rcv[r].at \in {"save", "expunge"}
    BY <1>5 DEF MoveToTrash, Expunge, Saved, store, history
  <2>2. rcv[r].live \subseteq receipts
    BY <1>5 DEF MoveToTrash, Expunge, Saved, IInv, WorkInv, DoneHasReceipt
  <2>3. \A m \in Messages \ receipts : place'[m] = place[m]
    BY <1>5, <2>2 DEF MoveToTrash, Expunge
  <2>4. \A s \in Receivers : s # r => rcv'[s] = rcv[s]
    BY <1>0, <1>5 DEF MoveToTrash, Expunge
  <2>5. /\ rcv'[r].indexed = rcv[r].indexed /\ rcv'[r].index = rcv[r].index
        /\ rcv'[r].pending = {}
    <3> DEFINE next == NextFolder(r)
               more == [next EXCEPT !.todo = Append(@, "Trash")]
    <3>1. rcv'[r] = next \/ rcv'[r] = more
      BY <1>0, <1>5 DEF MoveToTrash, Expunge
    <3>2. next.indexed = rcv[r].indexed /\ next.index = rcv[r].index /\ next.pending = {}
          /\ more.indexed = next.indexed /\ more.index = next.index /\ more.pending = next.pending
      BY <1>0 DEF NextFolder, Receiver
    <3> HIDE DEF next, more
    <3> QED
      BY <3>1, <3>2
  <2>6. AsListed
    BY <2>4, <2>5 DEF AsListed
  <2>7. NoNewIndex
    BY <2>1, <2>4, <2>5 DEF NoNewIndex, InHand
  <2> QED
    BY <2>1, <2>3, <2>6, <2>7
<1>6. CASE Start(r)
  <2>1. PICK todo : rcv' = [rcv EXCEPT ![r] = [@ EXCEPT !.at = "list", !.todo = todo]]
    BY <1>6 DEF Start
  <2>2. /\ rcv'[r].indexed = rcv[r].indexed /\ rcv'[r].index = rcv[r].index
        /\ rcv'[r].pending = rcv[r].pending /\ rcv'[r].path = rcv[r].path
    BY <1>0, <2>1 DEF Receiver
  <2>3. \A s \in Receivers : s # r => rcv'[s] = rcv[s]
    BY <1>0, <2>1
  <2>4. UNCHANGED <<place, copies, receipts, touched, read>> /\ rcv[r].at = "off"
    BY <1>6 DEF Start, server, store, history
  <2> QED
    BY <2>2, <2>3, <2>4 DEF AsListed, NoNewIndex, InHand
<1> QED
  BY <1>1, <1>2, <1>3, <1>4, <1>5, <1>6

(* What is placed: a file that is known already, or the receiver's own for  *)
(* a message of which no other file exists.                                 *)
LEMMA OnePlace == ASSUME IInv, OneInv, NEW r \in Receivers, Place(r) PROVE OneInv'
<1> DEFINE m == rcv[r].msg
<1>1. /\ rcv[r].at = "place" /\ m \in Messages \ receipts /\ m \in rcv[r].pending
      /\ copies \in [Messages -> SUBSET Names] /\ rcv \in [Receivers -> Receiver]
  BY ReceiverType DEF Place, IInv, Types, FilesOK, ReceiverOK, WorkInv, DoneHasReceipt, AtFile
<1>2. UNCHANGED <<place, read, receipts, touched>>
  BY DEF Place, server, history
<1>3. PICK index \in [Messages -> Names \union {NoName}] :
        /\ IF rcv[r].indexed THEN index = rcv[r].index ELSE IndexOf(index)
        /\ rcv' = [rcv EXCEPT ![r] =
             [@ EXCEPT !.at = "sync",
                       !.file = IF index[m] \in copies[m] THEN index[m] ELSE rcv[r].path[m],
                       !.index = index, !.indexed = TRUE]]
        /\ copies' = [copies EXCEPT
             ![m] = @ \union {IF index[m] \in copies[m] THEN index[m] ELSE rcv[r].path[m]}]
  BY DEF Place
<1>4. \A k \in Keyed \intersect Open : index[k] \in copies[k] \/ copies[k] = {}
  <2>1. CASE rcv[r].indexed
    BY <1>1, <1>3, <2>1 DEF OneInv, IndexInv, InHand
  <2>2. CASE ~rcv[r].indexed
    <3>1. IndexOf(index)
      BY <1>3, <2>2
    <3> QED
      BY <3>1, MessagesAssumption DEF IndexOf
  <2> QED
    BY <2>1, <2>2
<1>5. /\ rcv'[r].index = index /\ rcv'[r].at = "sync" /\ rcv'[r].msg = m
      /\ rcv'[r].pending = rcv[r].pending /\ rcv'[r].path = rcv[r].path
      /\ \A s \in Receivers : s # r => rcv'[s] = rcv[s]
  BY <1>1, <1>3 DEF Receiver
<1>6. /\ \A k \in Messages : k # m => copies'[k] = copies[k]
      /\ copies'[m] = copies[m]
           \/ (index[m] \notin copies[m] /\ copies'[m] = copies[m] \union {rcv[r].path[m]})
  BY <1>1, <1>3
<1>7. ASSUME m \notin touched PROVE copies'[m] = copies[m] \/ copies'[m] = {rcv[r].path[m]}
  <2>1. CASE m \in Keyed
    BY <2>1, <1>1, <1>4, <1>6, <1>7 DEF Open
  <2>2. CASE m \notin Keyed
    <3>1. copies[m] \subseteq {rcv[r].path[m]}
      BY <2>2, <1>1, <1>7 DEF OneInv, ShownInv, Open
    <3> QED
      BY <3>1, <1>6
  <2> QED
    BY <2>1, <2>2
<1>8. AtMostInv'
  BY <1>2, <1>6, <1>7 DEF OneInv, AtMostInv, AtMostOne
<1>9. ShownInv'
  <2> SUFFICES ASSUME NEW k \in Open \ Keyed
      PROVE  /\ copies'[k] # {} => OnServer(k) /\ copies'[k] \subseteq {Path(k)}
             /\ \A s \in Receivers : k \in rcv'[s].pending => OnServer(k) /\ rcv'[s].path[k] = Path(k)
    BY <1>2 DEF ShownInv, Open, OnServer, Path
  <2>1. \A s \in Receivers : k \in rcv'[s].pending => OnServer(k) /\ rcv'[s].path[k] = Path(k)
    BY <1>5 DEF OneInv, ShownInv
  <2>2. CASE k = m
    <3>1. OnServer(m) /\ rcv[r].path[m] = Path(m)
      BY <2>2, <1>1 DEF OneInv, ShownInv
    <3>2. copies'[m] = copies[m] \/ copies'[m] = {rcv[r].path[m]}
      BY <2>2, <1>7 DEF Open
    <3> QED
      BY <2>1, <2>2, <3>1, <3>2 DEF OneInv, ShownInv
  <2>3. CASE k # m
    BY <2>1, <2>3, <1>6 DEF OneInv, ShownInv, Open
  <2> QED
    BY <2>2, <2>3
<1>10. IndexInv'
  <2> SUFFICES ASSUME NEW s \in Receivers, rcv'[s].indexed, NEW k \in Keyed \intersect Open
      PROVE  rcv'[s].index[k] \in copies'[k] \/ copies'[k] = {} \/ InHand(s, k)'
    BY <1>2 DEF IndexInv, Open
  <2>1. s = r
    BY <1>1, <1>5, Rest, RestingKnowsNothing DEF IInv, Types, LockOK
  <2>2. CASE k = m
    BY <2>1, <2>2, <1>5 DEF InHand
  <2>3. CASE k # m
    BY <2>1, <2>3, <1>4, <1>5, <1>6 DEF Open
  <2> QED
    BY <2>2, <2>3
<1> QED
  BY <1>8, <1>9, <1>10 DEF OneInv

(* A receipt takes the message out of the receiver's care.                  *)
LEMMA OneReceipt == ASSUME IInv, OneInv, NEW r \in Receivers, WriteReceipt(r) PROVE OneInv'
<1> DEFINE m == rcv[r].msg
<1>1. rcv[r].index \in [Messages -> Names \union {NoName}] /\ rcv \in [Receivers -> Receiver]
  BY ReceiverType DEF IInv, Types, ReceiverOK
<1>2. receipts' = receipts \union {m} /\ UNCHANGED <<place, read, copies, touched>>
  BY DEF WriteReceipt, server, history
<1>3. /\ rcv'[r].indexed = rcv[r].indexed
      /\ \A k \in Messages : k # m => rcv'[r].index[k] = rcv[r].index[k]
      /\ rcv'[r].pending \subseteq rcv[r].pending /\ rcv'[r].path = rcv[r].path
      /\ \A s \in Receivers : s # r => rcv'[s] = rcv[s]
  BY <1>1 DEF WriteReceipt, Receiver
<1>4. AtMostInv'
  BY <1>2 DEF OneInv, AtMostInv
<1>5. ShownInv'
  <2>1. AsListed
    BY <1>3 DEF AsListed
  <2> QED
    BY <2>1, <1>2, ShownKept DEF SameShown
<1>6. IndexInv'
  <2> SUFFICES ASSUME NEW s \in Receivers, rcv'[s].indexed, NEW k \in Keyed \intersect Open'
      PROVE  rcv'[s].index[k] \in copies[k] \/ copies[k] = {} \/ InHand(s, k)'
    BY <1>2 DEF IndexInv
  <2>1. k # m /\ k \in Messages /\ k \in Open
    BY <1>2 DEF Open
  <2>2. rcv[s].indexed /\ rcv'[s].index[k] = rcv[s].index[k]
    BY <1>3, <2>1
  <2>3. InHand(s, k) => InHand(s, k)'
    BY <1>3, <2>1 DEF InHand
  <2> QED
    BY <2>1, <2>2, <2>3 DEF OneInv, IndexInv
<1> QED
  BY <1>4, <1>5, <1>6 DEF OneInv

(* A move replaces one file by one, and either no index is about it or the  *)
(* message is set aside.                                                    *)
LEMMA OneMove ==
  ASSUME IInv, OneInv, NEW m \in Messages, NEW from \in Names, Move(m, from) PROVE OneInv'
<1>1. /\ from \in copies[m] /\ UNCHANGED <<place, read, receipts, rcv>>
      /\ copies' = [copies EXCEPT ![m] = (@ \ {from}) \union {Fresh(events')}]
      /\ touched' = touched \union (IF Unseen(m) THEN {m} ELSE {})
      /\ copies \in [Messages -> SUBSET Names]
  BY DEF Move, Touch, server, IInv, Types, FilesOK
<1>2. \A k \in Messages : k # m => copies'[k] = copies[k]
  BY <1>1
<1>3. m \notin touched => copies'[m] = {Fresh(events')}
  BY <1>1 DEF OneInv, AtMostInv, AtMostOne
<1>4. AtMostInv'
  BY <1>1, <1>2, <1>3 DEF OneInv, AtMostInv, AtMostOne
<1>5. \A k \in Open' \ Keyed : copies'[k] = copies[k]
  BY <1>1, <1>2 DEF Unseen, Open
<1>6. ShownInv'
  <2>1. AsListed
    BY <1>1 DEF AsListed
  <2> QED
    BY <2>1, <1>1, <1>5, ShownKept DEF SameShown
<1>7. ASSUME NEW r \in Receivers, rcv[r].indexed, NEW k \in Keyed \intersect Open'
      PROVE  copies'[k] = copies[k] /\ k \in Open
  BY <1>1, <1>2, <1>7, MessagesAssumption DEF Unseen, Open
<1>8. IndexInv'
  BY <1>1, <1>7 DEF OneInv, IndexInv, InHand
<1> QED
  BY <1>4, <1>6, <1>8 DEF OneInv

(* A sent copy is the first file of its message and no index has been read, *)
(* or the message is set aside.                                             *)
LEMMA OnePublish == ASSUME IInv, OneInv, NEW m \in Outgoing, Publish(m) PROVE OneInv'
<1>1. PICK linked \in BOOLEAN :
        /\ copies' = [copies EXCEPT ![m] = IF linked THEN @ \union {Published} ELSE @]
        /\ touched' = touched \union
             (IF linked /\ (copies[m] # {} \/ \E r \in Receivers : rcv[r].indexed) THEN {m} ELSE {})
        /\ UNCHANGED <<place, read, receipts, rcv>>
  BY DEF Publish, Touch, server
<1>2. m \in Messages /\ m \in Keyed /\ copies \in [Messages -> SUBSET Names]
  BY KeyedAssumption DEF Messages, IInv, Types, FilesOK
<1>3. \A k \in Messages : k # m => copies'[k] = copies[k]
  BY <1>1, <1>2
<1>4. m \notin touched' => copies'[m] = copies[m]
                           \/ (copies'[m] = {Published} /\ \A r \in Receivers : ~rcv[r].indexed)
  BY <1>1, <1>2
<1>5. AtMostInv'
  BY <1>1, <1>3, <1>4 DEF OneInv, AtMostInv, AtMostOne
<1>6. ShownInv'
  <2>1. AsListed
    BY <1>1 DEF AsListed
  <2>2. \A k \in Open' \ Keyed : copies'[k] = copies[k]
    BY <1>2, <1>3 DEF Open
  <2> QED
    BY <2>1, <2>2, <1>1, ShownKept DEF SameShown
<1>7. ASSUME NEW r \in Receivers, rcv[r].indexed, NEW k \in Keyed \intersect Open'
      PROVE  copies'[k] = copies[k] /\ k \in Open
  BY <1>1, <1>3, <1>4, <1>7 DEF Open
<1>8. IndexInv'
  BY <1>1, <1>7 DEF OneInv, IndexInv, InHand
<1> QED
  BY <1>5, <1>6, <1>8 DEF OneInv

(* Another client changes what a name is made of only where no file has it, *)
(* or the message is set aside.                                             *)
LEMMA OneOther ==
  ASSUME IInv, OneInv, NEW m \in Messages, OtherMoves(m) \/ OtherReads(m) PROVE OneInv'
<1>1. UNCHANGED <<copies, receipts>> /\ touched' = touched \union (IF Unnamed(m) THEN {m} ELSE {})
  BY DEF OtherMoves, OtherReads, Touch, store
<1>2. \A k \in Messages : k # m => SameShown(k)
  BY DEF OtherMoves, OtherReads, SymDiff, SameShown, IInv, Types, PlaceOK
<1>3. \A k \in Open' \ Keyed : Known(k) => SameShown(k)
  BY <1>1, <1>2 DEF Known, Unnamed, Open
<1>4. \A r \in Receivers : /\ rcv'[r].indexed = rcv[r].indexed /\ rcv'[r].index = rcv[r].index
                           /\ rcv'[r].pending = rcv[r].pending /\ rcv'[r].path = rcv[r].path
                           /\ rcv'[r].at = rcv[r].at /\ rcv'[r].msg = rcv[r].msg
  <2>1. CASE OtherReads(m)
    BY <2>1 DEF OtherReads
  <2>2. CASE OtherMoves(m)
    <3>1. PICK f : Forget(m, f)
      BY <2>2 DEF OtherMoves
    <3> QED
      BY <3>1 DEF Forget, IInv, Types, ReceiverOK, Receiver
  <2> QED
    BY <2>1, <2>2
<1>5. AsListed /\ NoNewIndex
  BY <1>4 DEF AsListed, NoNewIndex, InHand
<1> QED
  BY <1>1, <1>3, <1>5, OneKept

LEMMA OneStep == ASSUME IInv, OneInv, [Next]_vars PROVE OneInv'
<1>0. /\ copies \in [Messages -> SUBSET Names] /\ durable \in [Messages -> SUBSET Names]
      /\ \A m \in Messages : durable[m] \subseteq copies[m]
      /\ place \in [Messages -> Folders \union {"nowhere", "gone"}]
  BY DEF IInv, Types, FilesOK, PlaceOK
<1>1. ASSUME NEW r \in Receivers, Start(r) \/ Check(r) \/ Fail(r) PROVE OneInv'
  <2>1. CASE Place(r) \/ WriteReceipt(r)
    BY <2>1, OnePlace, OneReceipt
  <2>2. CASE ~(Place(r) \/ WriteReceipt(r))
    <3>1. /\ UNCHANGED <<copies, receipts, touched, read>> /\ AsListed /\ NoNewIndex
          /\ \A m \in Messages \ receipts : place'[m] = place[m]
      BY <1>1, <2>2, ReceiverKnows DEF Check
    <3>2. \A m \in Open' \ Keyed : SameShown(m)
      BY <3>1 DEF SameShown, Open
    <3> QED
      BY <3>1, <3>2, OneKept
  <2> QED
    BY <2>1, <2>2
<1>2. UNCHANGED rcv => AsListed /\ NoNewIndex
  BY DEF AsListed, NoNewIndex, InHand
<1>3. ASSUME NEW m \in Messages, NEW from \in Names, Delete(m, from) PROVE OneInv'
  <2>1. /\ UNCHANGED <<place, read, receipts, rcv, touched>>
        /\ \A k \in Messages : copies'[k] \subseteq copies[k]
    BY <1>0, <1>3 DEF Delete, server
  <2> QED
    BY <2>1, <1>2, OneKept DEF SameShown
<1>4. CASE PowerCut
  <2>1. /\ UNCHANGED <<place, read, receipts, touched>>
        /\ \A k \in Messages : copies'[k] \subseteq copies[k]
        /\ \A r \in Receivers : rcv'[r] = Resting
    BY <1>0, <1>4 DEF PowerCut, server, history
  <2>2. AsListed /\ NoNewIndex
    BY <2>1, Rest, RestingKnowsNothing DEF AsListed, NoNewIndex
  <2> QED
    BY <2>1, <2>2, OneKept DEF SameShown
<1>5. ASSUME NEW m \in Incoming, Arrive(m) PROVE OneInv'
  <2>1. UNCHANGED <<copies, receipts, touched, read, rcv>> /\ m \in Messages
        /\ ~OnServer(m) /\ \A k \in Messages : k # m => place'[k] = place[k]
    BY <1>5, <1>0 DEF Arrive, OnServer, Folders, store, history, Messages
  <2> QED
    BY <2>1, <1>2, OneKept DEF SameShown, Open
<1>6. ASSUME NEW m \in Messages, OtherMarks(m) PROVE OneInv'
  BY <1>2, <1>6, OneKept DEF OtherMarks, store, history, SameShown
<1>7. ASSUME NEW m \in Outgoing, Sending(m) PROVE OneInv'
  <2>1. CASE Publish(m)
    BY <2>1, OnePublish
  <2>2. CASE ~Publish(m)
    <3>1. UNCHANGED <<copies, receipts, touched, read, rcv>>
      BY <1>7, <2>2 DEF Sending, Send, Smtp, SaveDraft, Cleanup, Killed, server, store, history
    <3>2. \A k \in Messages \ Keyed : place'[k] = place[k]
      BY <1>0, <1>7, <2>2, KeyedAssumption DEF Sending, Send, Smtp, SaveDraft, Cleanup, Killed, server
    <3> QED
      BY <3>1, <3>2, <1>2, OneKept DEF SameShown, Open
  <2> QED
    BY <2>1, <2>2
<1>8. CASE UNCHANGED vars
  BY <1>2, <1>8, OneKept DEF vars, server, store, history, SameShown
<1> QED
  BY <1>1, <1>3, <1>4, <1>5, <1>6, <1>7, <1>8, OneMove, OneOther DEF Next, Messages

(* Labels, retries, several receivers and Gmail's own copy of what is sent  *)
(* bring no second local file of a message whose files, and if it has no    *)
(* Message-ID the folder and flag they are named by, are left alone until   *)
(* it has a receipt: load_copy_index and the receiver's own file name find  *)
(* the one there is.                                                        *)
THEOREM NoSecondCopy == Spec => []OneCopy
<1>1. Init => OneInv
  BY RestingKnowsNothing, Rest DEF Init, OneInv, AtMostInv, ShownInv, IndexInv, Open, AtMostOne
<1>2. IInv /\ OneInv /\ [Next]_vars => OneInv'
  BY OneStep
<1>3. IInv /\ OneInv => OneCopy
  BY OneCopyMeans DEF IInv, Types, FilesOK, OneInv, AtMostInv, OneCopy
<1> QED
  BY <1>1, <1>2, <1>3, Invariant, PTL DEF Spec
=============================================================================
