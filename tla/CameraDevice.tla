---------------------------- MODULE CameraDevice ----------------------------
(***************************************************************************)
(* One camera device (Model/CameraDevice.cpp) and the list of devices that *)
(* it is found in (System/DevicesHelper.cpp), in the build that opens by   *)
(* index (the #else of __linux).                                           *)
(*                                                                         *)
(* The thread that owns the device opens it (MultiCamera::openCamera or a  *)
(* grab task), applies the pending properties and reads in the turns of a  *)
(* grab task, and releases it (closeCamera).  Request threads of the web   *)
(* interface set properties and rebuild the list meanwhile, and cameras    *)
(* are plugged in and out.  Neither the list nor the pending properties    *)
(* have a lock.                                                            *)
(*                                                                         *)
(* Two values shared by threads are read and written in one step each: the *)
(* map devList is taken to survive being changed while it is looked up.    *)
(***************************************************************************)
EXTENDS Naturals, Sequences, FiniteSets, SequencesExt

CONSTANTS
  Name,      \* names of cameras
  DevName,   \* the name of this device
  Null,      \* nullptr
  NumProp,   \* the properties, in the order of their numbers; 1 is the size
  MaxTry,    \* attempts of open(); 3 in the code
  MaxPlug,   \* bound: cameras plugged in or out
  MaxList    \* bound: listings by request threads

ASSUME NameAssumption ==
  IsFiniteSet(Name) /\ DevName \in Name /\ Null \notin Name /\ "shut" \notin Name
ASSUME PropAssumption == NumProp \in Nat \ {0}
ASSUME TryAssumption == MaxTry \in Nat \ {0}
ASSUME BoundAssumption == MaxPlug \in Nat /\ MaxList \in Nat

Prop   == 1..NumProp
Size   == 1
Lister == {"owner", "web"}

VARIABLES
  plugged,    \* the cameras, in the order the system enumerates them
  plugs,      \* times a camera was plugged in or out
  devList,    \* DevicesHelper::devList, a map from index to name
  snapshot,   \* per lister, what listDevices enumerated ...
  pos,        \* ... and how far it has copied that into devList
  listings,   \* listings by request threads
  pc,         \* per thread, where it is
  op,         \* the call of the owner: open, exist, a turn of the task, or none
  look,       \* getIndexWithName's i; 0 outside of it, as the locals below
  devID,      \* kept while open() uses it, and 0 after that
  count,      \* open()'s
  isOpening, isError,
  capture,    \* null, "shut", or the name of the camera it is open on
  prop,       \* applyCapProp's i, or 1
  pending,    \* the properties whose _setCapProp is not FLT_MIN
  result,     \* history: how the last open() ended
  replugged,  \* history: a camera was plugged during this open or a listing
  settled,    \* history: the properties whose last value needs no applying any more
  lost        \* history: those set between applying and marking them as done

plugVars == <<plugged, plugs, replugged>>
listVars == <<devList, snapshot, pos, listings>>
findVars == <<look, devID, count>>
capVars  == <<isOpening, isError, capture, result>>
propVars == <<prop, pending, settled, lost>>
vars     == <<plugVars, listVars, pc, op, findVars, capVars, propVars>>

\* The constructor leaves the brightness pending.
Init ==
  /\ \E s \in [1..Cardinality(Name) -> Name] :
       (\A i, j \in DOMAIN s : s[i] = s[j] => i = j) /\ plugged = s
  /\ plugs = 0 /\ replugged = FALSE
  /\ devList = <<>>
  /\ snapshot = [th \in Lister |-> <<>>]
  /\ pos = [th \in Lister |-> 0]
  /\ listings = 0
  /\ pc = [th \in Lister |-> "idle"]
  /\ op = "none"
  /\ look = 0 /\ devID = 0 /\ count = 0
  /\ isOpening = FALSE /\ isError = FALSE
  /\ capture = Null
  /\ result = "none"
  /\ prop = 1
  /\ pending = Prop \ {Size}
  /\ settled = {Size}
  /\ lost = {}

\* The locals go out of scope.
Forget == look' = 0 /\ devID' = 0 /\ count' = 0

Goto(th, label) == pc' = [pc EXCEPT ![th] = label]

\* capture->isOpened(), which isOpened() returns unless isError is set.
IsOpen == capture \in Name

-----------------------------------------------------------------------------
(* listDevices.                                                            *)

ListClear(th) ==
  /\ pc[th] = "list"
  /\ devList' = <<>>
  /\ Goto(th, "enumerate")
  /\ UNCHANGED <<plugVars, snapshot, pos, listings, op, findVars, capVars, propVars>>

\* The system's enumeration, under its own mutex.
Enumerate(th) ==
  /\ pc[th] = "enumerate"
  /\ snapshot' = [snapshot EXCEPT ![th] = plugged]
  /\ pos' = [pos EXCEPT ![th] = 0]
  /\ Goto(th, "fill")
  /\ UNCHANGED <<plugVars, devList, listings, op, findVars, capVars, propVars>>

\* devList[kvp.first] = kvp.second;
Fill(th) ==
  /\ pc[th] = "fill"
  /\ pos[th] < Len(snapshot[th])
  /\ devList' = [k \in DOMAIN devList \cup {pos[th]} |->
                   IF k = pos[th] THEN snapshot[th][k + 1] ELSE devList[k]]
  /\ pos' = [pos EXCEPT ![th] = @ + 1]
  /\ UNCHANGED <<plugVars, snapshot, listings, pc, op, findVars, capVars, propVars>>

FillDone(th) ==
  /\ pc[th] = "fill"
  /\ pos[th] = Len(snapshot[th])
  /\ snapshot' = [snapshot EXCEPT ![th] = <<>>]
  /\ pos' = [pos EXCEPT ![th] = 0]
  /\ Goto(th, IF th = "web" THEN "idle" ELSE "listed")
  /\ UNCHANGED <<plugVars, devList, listings, op, findVars, capVars, propVars>>

-----------------------------------------------------------------------------
(* open and exist.                                                         *)

\* The pending values are dropped, by release().
Drop ==
  /\ pending' = {}
  /\ settled' = Prop
  /\ lost' = {}

\* Mutant: a list that is there is taken for good.
MutOpen ==
  /\ pc["owner"] \in {"idle", "ready"}
  /\ op' = "open"
  /\ isOpening' = TRUE
  /\ capture' = "shut"
  /\ result' = "none"
  /\ pending' = pending \cup {Size}
  /\ settled' = settled \cup {Size} /\ lost' = lost \ {Size}
  /\ replugged' = (replugged /\ pc["web"] # "idle")
  /\ Goto("owner", IF devList = <<>> THEN "list" ELSE "listed")
  /\ UNCHANGED <<plugged, plugs, listVars, findVars, isError, prop>>

\* Mutant: an open capture is left open.
MutOpenKeep ==
  /\ pc["owner"] \in {"idle", "ready"}
  /\ op' = "open"
  /\ isOpening' = TRUE
  /\ capture' = IF IsOpen THEN capture ELSE "shut"
  /\ result' = "none"
  /\ pending' = pending \cup {Size}
  /\ settled' = settled \cup {Size} /\ lost' = lost \ {Size}
  /\ replugged' = (replugged /\ pc["web"] # "idle")
  /\ Goto("owner", "list")
  /\ UNCHANGED <<plugged, plugs, listVars, findVars, isError, prop>>

\* open() up to listDevices: also on a device that is open.
Open ==
  /\ pc["owner"] \in {"idle", "ready"}
  /\ op' = "open"
  /\ isOpening' = TRUE
  /\ capture' = "shut"
  /\ result' = "none"
  /\ pending' = pending \cup {Size}
  /\ settled' = settled \cup {Size} /\ lost' = lost \ {Size}
  /\ replugged' = (replugged /\ pc["web"] # "idle")
  /\ Goto("owner", "list")
  /\ UNCHANGED <<plugged, plugs, listVars, findVars, isError, prop>>

Exist ==
  /\ pc["owner"] = "idle"
  /\ op' = "exist"
  /\ result' = "none"
  /\ Goto("owner", "list")
  /\ UNCHANGED <<plugVars, listVars, findVars, isOpening, isError, capture, propVars>>

\* The owner is back from its call with this outcome.
Ended(ok) ==
  /\ isError' = ~ok
  /\ isOpening' = (op # "open" /\ isOpening)
  /\ result' = IF op = "open" THEN (IF ok THEN "true" ELSE "false") ELSE "none"
  /\ op' = "none"
  /\ Forget
  /\ Goto("owner", IF op = "open" /\ ok THEN "ready" ELSE "idle")

\* No camera at all: open() returns without release().
ListEmpty ==
  /\ pc["owner"] = "listed"
  /\ DOMAIN devList = {}
  /\ Ended(FALSE)
  /\ UNCHANGED <<plugVars, listVars, capture, propVars>>

ListNonempty ==
  /\ pc["owner"] = "listed"
  /\ DOMAIN devList # {}
  /\ Goto("owner", "look")
  /\ UNCHANGED <<plugVars, listVars, findVars, op, capVars, propVars>>

\* getIndexWithName: the size is compared ...
LookMore ==
  /\ pc["owner"] = "look"
  /\ look < Cardinality(DOMAIN devList)
  /\ Goto("owner", "lookAt")
  /\ UNCHANGED <<plugVars, listVars, findVars, op, capVars, propVars>>

\* ... and then the name, when the list may be another.
LookOn ==
  /\ pc["owner"] = "lookAt"
  /\ look \in DOMAIN devList
  /\ devList[look] # DevName
  /\ look' = look + 1
  /\ Goto("owner", "look")
  /\ UNCHANGED <<plugVars, listVars, devID, count, op, capVars, propVars>>

\* An exception that nothing in open() or exist() catches.
Threw ==
  /\ result' = IF op = "open" THEN "threw" ELSE "none"
  /\ op' = "none"
  /\ Forget
  /\ Goto("owner", "idle")
  /\ UNCHANGED <<isOpening, isError, capture>>

\* devList.at(i) throws.
LookThrow ==
  /\ pc["owner"] = "lookAt"
  /\ look \notin DOMAIN devList
  /\ Threw
  /\ UNCHANGED <<plugVars, listVars, propVars>>

Found ==
  /\ pc["owner"] = "lookAt"
  /\ look \in DOMAIN devList
  /\ devList[look] = DevName
  /\ IF op = "open"
       THEN /\ devID' = look /\ look' = 0
            /\ Goto("owner", "attempt")
            /\ UNCHANGED <<count, op, isOpening, isError, result>>
       ELSE Ended(TRUE)
  /\ UNCHANGED <<plugVars, listVars, capture, propVars>>

\* -1: open() releases, exist() only reports.
NotFound ==
  /\ pc["owner"] = "look"
  /\ look >= Cardinality(DOMAIN devList)
  /\ IF op = "open" THEN capture' = Null /\ Drop ELSE UNCHANGED <<capture, pending, settled, lost>>
  /\ Ended(FALSE)
  /\ UNCHANGED <<plugVars, listVars, prop>>

\* capture->open(devID) succeeds on whatever camera has that index now.
AttemptOk ==
  /\ pc["owner"] = "attempt"
  /\ devID < Len(plugged)
  /\ capture' = plugged[devID + 1]
  /\ Goto("owner", "apply")
  /\ UNCHANGED <<plugVars, listVars, op, findVars, isOpening, isError, result, propVars>>

\* capture->open opens a dialog and does not return.
AttemptHang ==
  /\ pc["owner"] = "attempt"
  /\ Goto("owner", "hung")
  /\ UNCHANGED <<plugVars, listVars, op, findVars, capVars, propVars>>

\* Mutant: the attempts are not counted.
MutTryAgain ==
  /\ count + 1 < MaxTry
  /\ capture' = "shut"
  /\ Goto("owner", "attempt")
  /\ UNCHANGED <<op, findVars, isOpening, isError, result, pending, settled, lost>>

\* An attempt that fails is followed by another two seconds later ...
TryAgain ==
  /\ count + 1 < MaxTry
  /\ count' = count + 1
  /\ capture' = "shut"
  /\ Goto("owner", "attempt")
  /\ UNCHANGED <<op, look, devID, isOpening, isError, result, pending, settled, lost>>

\* ... but not for ever.
GiveUp ==
  /\ count + 1 = MaxTry
  /\ capture' = Null
  /\ Drop
  /\ Ended(FALSE)

\* capture->open fails or throws.
AttemptFail ==
  /\ pc["owner"] = "attempt"
  /\ TryAgain \/ GiveUp
  /\ UNCHANGED <<plugVars, listVars, prop>>

-----------------------------------------------------------------------------
(* applyCapProp.                                                           *)

\* An exception of capture->set or get, or in an attempt's outputProp: the
\* attempt has failed after all, the turn is over.
ApplyThrow ==
  /\ pc["owner"] = "apply"
  /\ prop' = 1
  /\ IF op = "open" THEN TryAgain \/ GiveUp
     ELSE /\ op' = "none"
          /\ Goto("owner", "ready")
          /\ UNCHANGED <<findVars, capVars, pending, settled, lost>>
  /\ UNCHANGED <<plugVars, listVars>>

\* An exception of open()'s last outputProp, behind the attempts.
OutputThrow ==
  /\ pc["owner"] = "apply" /\ op = "open"
  /\ prop > NumProp
  /\ prop' = 1
  /\ Threw
  /\ UNCHANGED <<plugVars, listVars, pending, settled, lost>>

ApplyDone ==
  /\ pc["owner"] = "apply"
  /\ prop > NumProp
  /\ prop' = 1
  /\ IF op = "open" THEN Ended(TRUE)
     ELSE Goto("owner", "read") /\ UNCHANGED <<findVars, op, isOpening, isError, result>>
  /\ UNCHANGED <<plugVars, listVars, capture, pending, settled, lost>>

ApplySkip ==
  /\ pc["owner"] = "apply"
  /\ prop <= NumProp
  /\ prop \notin pending
  /\ prop' = prop + 1
  /\ UNCHANGED <<plugVars, listVars, pc, op, findVars, capVars, pending,
                 settled, lost>>

\* capture->set, whose failure is only logged.
ApplySet ==
  /\ pc["owner"] = "apply"
  /\ prop <= NumProp
  /\ prop \in pending
  /\ settled' = settled \cup {prop}
  /\ Goto("owner", "mark")
  /\ UNCHANGED <<plugVars, listVars, op, findVars, capVars, prop, pending, lost>>

\* Mutant: every property is marked as done.
MutApplyMark ==
  /\ pc["owner"] = "mark"
  /\ pending' = {}
  /\ prop' = prop + 1
  /\ Goto("owner", "apply")
  /\ UNCHANGED <<plugVars, listVars, op, findVars, capVars, settled, lost>>

\* Mutant: the loop counts twice.
MutApplyMarkTwice ==
  /\ pc["owner"] = "mark"
  /\ pending' = pending \ {prop}
  /\ prop' = prop + 2
  /\ Goto("owner", "apply")
  /\ UNCHANGED <<plugVars, listVars, op, findVars, capVars, settled, lost>>

\* _setCapProp[i] = FLT_MIN;
ApplyMark ==
  /\ pc["owner"] = "mark"
  /\ pending' = pending \ {prop}
  /\ prop' = prop + 1
  /\ Goto("owner", "apply")
  /\ UNCHANGED <<plugVars, listVars, op, findVars, capVars, settled, lost>>

-----------------------------------------------------------------------------
(* A turn of the grab task, and release.                                   *)

Turn ==
  /\ pc["owner"] = "ready"
  /\ op' = "turn"
  /\ Goto("owner", "apply")
  /\ UNCHANGED <<plugVars, listVars, findVars, capVars, propVars>>

\* read(): it fails at any time, and from then on without trying.
Read(ok) ==
  /\ pc["owner"] = "read"
  /\ ok => ~isError /\ \E i \in 1..Len(plugged) : plugged[i] = capture
  /\ isError' = (isError \/ ~ok)
  /\ op' = "none"
  /\ Goto("owner", "ready")
  /\ UNCHANGED <<plugVars, listVars, findVars, isOpening, capture, result, propVars>>

\* release() of closeCamera, also of a device that did not open.
Release ==
  /\ pc["owner"] \in {"idle", "ready"}
  /\ capture' = Null
  /\ Drop
  /\ result' = "none"
  /\ Goto("owner", "idle")
  /\ UNCHANGED <<plugVars, listVars, op, findVars, prop, isOpening, isError>>

-----------------------------------------------------------------------------
(* The request threads and the cameras.                                    *)

\* setProp: it comes too late for the value if applyCapProp is about to mark
\* this property as done.
SetProp(p) ==
  /\ pending' = pending \cup {p}
  /\ settled' = settled \ {p}
  /\ lost' = IF pc["owner"] = "mark" /\ prop = p THEN lost \cup {p} ELSE lost \ {p}
  /\ UNCHANGED <<plugVars, listVars, pc, op, findVars, capVars, prop>>

WebList ==
  /\ pc["web"] = "idle"
  /\ listings < MaxList
  /\ listings' = listings + 1
  /\ Goto("web", "list")
  /\ UNCHANGED <<plugVars, devList, snapshot, pos, op, findVars, capVars, propVars>>

Replug(s) ==
  /\ plugs < MaxPlug
  /\ plugs' = plugs + 1
  /\ plugged' = s
  /\ replugged' = (replugged \/ op = "open" \/ pc["web"] # "idle")
  /\ UNCHANGED <<listVars, pc, op, findVars, capVars, propVars>>

PlugIn(n, i) ==
  /\ \A j \in 1..Len(plugged) : plugged[j] # n
  /\ i <= Len(plugged) + 1
  /\ Replug(InsertAt(plugged, i, n))

PlugOut(i) ==
  /\ i <= Len(plugged)
  /\ Replug(RemoveAt(plugged, i))

-----------------------------------------------------------------------------
List(th) == ListClear(th) \/ Enumerate(th) \/ Fill(th) \/ FillDone(th)

\* The owner goes on with the call it is in.
Proceed ==
  \/ List("owner")
  \/ ListEmpty \/ ListNonempty \/ LookMore \/ LookOn \/ LookThrow \/ Found \/ NotFound
  \/ AttemptOk \/ AttemptFail
  \/ ApplyDone \/ ApplySkip \/ ApplySet \/ ApplyMark \/ ApplyThrow \/ OutputThrow
  \/ \E ok \in BOOLEAN : Read(ok)

Next ==
  \/ Proceed \/ AttemptHang \/ Open \/ Exist \/ Turn \/ Release
  \/ List("web") \/ WebList
  \/ \E p \in Prop : SetProp(p)
  \/ \E n \in Name, i \in 1..Cardinality(Name) : PlugIn(n, i)
  \/ \E i \in 1..Cardinality(Name) : PlugOut(i)

Spec == Init /\ [][Next]_vars

\* Threads are scheduled.  A call of capture->open may stay in its dialog for
\* ever; the other calls of the capture return.  Nobody has to call anything.
FairSpec == Spec /\ WF_vars(Proceed) /\ WF_vars(List("web"))

-----------------------------------------------------------------------------
(* Properties.                                                             *)

Labels == {"idle", "list", "enumerate", "fill", "listed", "look", "lookAt",
           "attempt", "hung", "apply", "mark", "read", "ready"}

\* Type invariant.
TypeOK ==
  /\ plugged \in Seq(Name)
  /\ DOMAIN devList \subseteq Nat /\ \A k \in DOMAIN devList : devList[k] \in Name
  /\ snapshot \in [Lister -> Seq(Name)]
  /\ pos \in [Lister -> Nat]
  /\ \A th \in Lister : pos[th] <= Len(snapshot[th])
  /\ pc \in [Lister -> Labels]
  /\ op \in {"none", "open", "exist", "turn"}
  /\ look \in Nat /\ devID \in Nat /\ count \in 0..MaxTry
  /\ isOpening \in BOOLEAN /\ isError \in BOOLEAN /\ replugged \in BOOLEAN
  /\ capture \in Name \cup {Null, "shut"}
  /\ result \in {"none", "true", "false", "threw"}
  /\ prop \in 1..NumProp + 1
  /\ pending \subseteq Prop
  /\ settled \subseteq Prop /\ lost \subseteq Prop
  /\ plugs \in Nat /\ listings \in Nat

\* If no camera was plugged while the device was being opened or the list
\* rebuilt, the device is opened on the camera of its name ("the index of the
\* device of that name", getIndexWithName), although the list is cleared and
\* rebuilt by other threads while the name is looked up in it.
RightCamera ==
  IsOpen /\ ~replugged => capture = DevName

\* When open() has returned false, the capture is open on nothing, and the
\* device says so: CameraDeviceTest.cpp:100 to 102, for every way to fail.
FailedOpenClosed == result = "false" => ~IsOpen /\ isError /\ ~isOpening

\* The last value a property was set to is pending still, unless it was given
\* to the capture, dropped by release(), replaced by the device's own size, or
\* set in the moment before applyCapProp marks that same property as done.
NoSilentLoss == Prop \subseteq settled \cup pending \cup lost

\* open() returns, whatever other threads and the devices do, or stays in a
\* dialog of capture->open (CameraDevice.cpp:188).
OpenEnds == op = "open" ~> op # "open" \/ pc["owner"] = "hung"
=============================================================================
