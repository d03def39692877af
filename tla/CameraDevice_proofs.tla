------------------------- MODULE CameraDevice_proofs -------------------------
(***************************************************************************)
(* Proofs about the camera device, for any cameras, properties and number  *)
(* of attempts.                                                            *)
(*                                                                         *)
(* Four arguments, each an inductive invariant of its own that rests on    *)
(* Flow, which says in which call the owner can be where:                  *)
(*   - Applying: where a property is marked as done, it is settled or lost;*)
(*   - TypeOK, which needs Applying for the number of the property;        *)
(*   - Closed: until open() has got through its attempts, the capture that *)
(*     Open shut stays shut;                                               *)
(*   - RightList: if no camera was plugged meanwhile, all listings agree   *)
(*     with what is plugged, and so does a list that any of them rebuilds. *)
(***************************************************************************)
EXTENDS CameraDevice, FiniteSetTheorems, SequenceTheorems, TLAPS

Opening == {"list", "enumerate", "fill", "listed", "look", "lookAt", "attempt"}

\* Where the owner is in which call, and when an open() has ended.
Flow ==
  /\ pc \in [Lister -> Labels]
  /\ op \in {"none", "open", "exist", "turn"}
  /\ pc["owner"] \in {"idle", "ready"} <=> op = "none"
  /\ pc["owner"] \in Opening => op \in {"open", "exist"}
  /\ pc["owner"] \in {"attempt", "hung"} => op = "open"
  /\ pc["owner"] = "read" => op = "turn"
  /\ pc["owner"] \in {"apply", "mark"} => op \in {"open", "turn"}
  /\ result = "false" => pc["owner"] = "idle"
  /\ pc["web"] \in {"idle", "list", "enumerate", "fill"}

Applying ==
  /\ NoSilentLoss
  /\ pc["owner"] = "mark" => prop \in settled \cup lost

Closed ==
  /\ FailedOpenClosed
  /\ op = "open" /\ pc["owner"] \in Opening => ~IsOpen

\* devList and the listings hold the cameras at their places.
RightList ==
  /\ pos \in [Lister -> Nat] /\ snapshot = [th \in Lister |-> snapshot[th]]
  /\ ~replugged =>
       /\ pc["web"] = "fill" => snapshot["web"] = plugged
       /\ op = "open" /\ pc["owner"] = "fill" => snapshot["owner"] = plugged
       /\ op = "open" /\ pc["owner"] \in Opening \ {"list", "attempt"} =>
            \A k \in DOMAIN devList : k \in Nat /\ devList[k] = plugged[k + 1]
       /\ op = "open" /\ pc["owner"] \in {"attempt", "apply", "mark"} =>
            plugged[devID + 1] = DevName
       /\ IsOpen => capture = DevName

\* At the start nobody is in a call.
LEMMA FlowInit == Init => Flow
BY DEF Init, Flow, Lister, Labels, Opening

\* Each action of the owner, of the request threads and of the cameras.
LEMMA FlowNext == Flow /\ [Next]_vars => Flow'
<1> SUFFICES ASSUME Flow, [Next]_vars
             PROVE  Flow'
  OBVIOUS
<1> USE DEF Flow, Opening, Goto, Lister, Labels
<1>1. ASSUME NEW th \in Lister, List(th)
      PROVE  Flow'
  BY <1>1 DEF List, ListClear, Enumerate, Fill, FillDone, capVars, findVars
<1>2. CASE Open \/ Exist \/ Turn \/ Release
  BY <1>2 DEF Open, Exist, Turn, Release, capVars
<1>3. CASE ListEmpty \/ ListNonempty \/ NotFound
  BY <1>3 DEF ListEmpty, ListNonempty, NotFound, Ended, capVars
<1>4. CASE LookMore \/ LookOn \/ LookThrow \/ Found
  BY <1>4 DEF LookMore, LookOn, LookThrow, Found, Threw, Ended, capVars
<1>5. CASE AttemptOk \/ AttemptHang \/ AttemptFail
  BY <1>5 DEF AttemptOk, AttemptHang, AttemptFail, TryAgain, GiveUp, Drop, Ended, capVars
<1>6. CASE ApplyDone \/ ApplySkip \/ ApplySet \/ ApplyMark \/ ApplyThrow \/ OutputThrow
  BY <1>6 DEF ApplyDone, ApplySkip, ApplySet, ApplyMark, ApplyThrow, OutputThrow,
     TryAgain, GiveUp, Threw, Drop, Ended, capVars
<1>7. ASSUME NEW ok \in BOOLEAN, Read(ok)
      PROVE  Flow'
  BY <1>7 DEF Read
<1>8. CASE WebList
  BY <1>8 DEF WebList, capVars
<1>9. ASSUME UNCHANGED <<pc, op, result>>
      PROVE  Flow'
  BY <1>9
<1>10. ASSUME NEW p \in Prop, SetProp(p)
       PROVE  Flow'
  BY <1>9, <1>10 DEF SetProp, capVars
<1>11. ASSUME NEW n, NEW i, PlugIn(n, i) \/ PlugOut(i)
       PROVE  Flow'
  BY <1>9, <1>11 DEF PlugIn, PlugOut, Replug, capVars
<1>12. CASE UNCHANGED vars
  BY <1>9, <1>12 DEF vars, capVars
<1>13. QED
  BY <1>1, <1>2, <1>3, <1>4, <1>5, <1>6, <1>7, <1>8, <1>10, <1>11, <1>12
     DEF Next, Proceed

-----------------------------------------------------------------------------
(* The pending properties.                                                 *)

\* At the start only the size needs no applying.
LEMMA ApplyingInit == Init => Applying
BY DEF Init, Applying, NoSilentLoss, Prop, Lister

\* A value goes from pending to settled, and leaves pending only when it is
\* settled: applyCapProp marks what it has just set.
LEMMA ApplyingNext == Flow /\ Applying /\ [Next]_vars => Applying'
<1> SUFFICES ASSUME Flow, Applying, [Next]_vars
             PROVE  Applying'
  OBVIOUS
<1>0. pc \in [Lister -> Labels] /\ {"owner", "web"} \subseteq Lister
  BY DEF Flow, Lister
<1> USE DEF Applying, NoSilentLoss, Goto
<1>1. ASSUME NEW th \in Lister, List(th)
      PROVE  Applying'
  BY <1>0, <1>1 DEF List, ListClear, Enumerate, Fill, FillDone, propVars
<1>2. CASE Open \/ Exist \/ Turn \/ Release
  BY <1>0, <1>2 DEF Open, Exist, Turn, Release, Drop, propVars
<1>3. CASE ListEmpty \/ ListNonempty \/ NotFound
  BY <1>0, <1>3 DEF ListEmpty, ListNonempty, NotFound, Ended, Drop, propVars
<1>4. CASE LookMore \/ LookOn \/ LookThrow \/ Found
  BY <1>0, <1>4 DEF LookMore, LookOn, LookThrow, Found, Threw, Ended, propVars
<1>5. CASE AttemptOk \/ AttemptHang \/ AttemptFail
  BY <1>0, <1>5 DEF AttemptOk, AttemptHang, AttemptFail, TryAgain, GiveUp, Drop, Ended, propVars
<1>6. CASE ApplyDone \/ ApplySkip \/ ApplyThrow \/ OutputThrow
  BY <1>0, <1>6 DEF ApplyDone, ApplySkip, ApplyThrow, OutputThrow, TryAgain, GiveUp,
     Threw, Drop, Ended
<1>7. CASE ApplySet \/ ApplyMark
  BY <1>0, <1>7 DEF ApplySet, ApplyMark
<1>8. ASSUME NEW ok \in BOOLEAN, Read(ok)
      PROVE  Applying'
  BY <1>0, <1>8 DEF Read, propVars
<1>9. CASE WebList
  BY <1>0, <1>9 DEF WebList, propVars
<1>10. ASSUME NEW p \in Prop, SetProp(p)
       PROVE  Applying'
  BY <1>0, <1>10 DEF SetProp
<1>11. ASSUME NEW n, NEW i, PlugIn(n, i) \/ PlugOut(i)
       PROVE  Applying'
  BY <1>11 DEF PlugIn, PlugOut, Replug, propVars
<1>12. CASE UNCHANGED vars
  BY <1>12 DEF vars, propVars
<1>13. QED
  BY <1>0, <1>1, <1>2, <1>3, <1>4, <1>5, <1>6, <1>7, <1>8, <1>9, <1>10, <1>11, <1>12
     DEF Next, Proceed

-----------------------------------------------------------------------------
(* The types.                                                              *)

\* A camera plugged in, or out, leaves a sequence of cameras.
LEMMA PlugType ==
  ASSUME NEW S, NEW s \in Seq(S), NEW n \in S, NEW i \in Nat \ {0}
  PROVE  /\ i <= Len(s) + 1 => InsertAt(s, i, n) \in Seq(S)
         /\ i <= Len(s) => RemoveAt(s, i) \in Seq(S)
<1>1. i <= Len(s) + 1 => SubSeq(s, 1, i - 1) \in Seq(S) /\ SubSeq(s, i, Len(s)) \in Seq(S)
  BY SubSeqProperties
<1>2. i <= Len(s) => SubSeq(s, 1, i - 1) \in Seq(S) /\ SubSeq(s, i + 1, Len(s)) \in Seq(S)
  BY SubSeqProperties
<1>3. <<n>> \in Seq(S)
  OBVIOUS
<1>4. i <= Len(s) + 1 => InsertAt(s, i, n) \in Seq(S)
  BY <1>1, <1>3, ConcatProperties DEF InsertAt
<1>5. QED
  BY <1>2, <1>4, ConcatProperties DEF RemoveAt

\* At the start the cameras are in some order and all else is at rest.
LEMMA TypeInit == Init => TypeOK
<1> SUFFICES ASSUME Init
             PROVE  TypeOK
  OBVIOUS
<1>1. Cardinality(Name) \in Nat
  BY NameAssumption, FS_CardinalityType
<1>2. PICK s \in [1..Cardinality(Name) -> Name] : plugged = s
  BY DEF Init
<1>3. plugged \in Seq(Name)
  BY <1>1, <1>2 DEF Seq
<1>4. snapshot \in [Lister -> Seq(Name)] /\ \A th \in Lister : pos[th] <= Len(snapshot[th])
  BY DEF Init
<1>5. DOMAIN devList = {}
  BY DEF Init
<1>6. /\ pos \in [Lister -> Nat] /\ pc \in [Lister -> Labels]
      /\ look \in Nat /\ devID \in Nat /\ count \in 0..MaxTry
      /\ prop \in 1..NumProp + 1 /\ pending \subseteq Prop /\ settled \subseteq Prop
      /\ lost \subseteq Prop
  BY PropAssumption, TryAssumption DEF Init, Labels, Prop, Size
<1>7. QED
  BY <1>3, <1>4, <1>5, <1>6 DEF Init, TypeOK

\* Each action keeps the types: of the listings, of what the look-up and the
\* attempts count, of the device, of the properties and of the cameras.
LEMMA TypeNext == Flow /\ Applying /\ TypeOK /\ [Next]_vars => TypeOK'
<1> SUFFICES ASSUME Flow, Applying, TypeOK, [Next]_vars
             PROVE  TypeOK'
  OBVIOUS
<1> DEFINE ListType   == /\ DOMAIN devList \subseteq Nat
                         /\ \A k \in DOMAIN devList : devList[k] \in Name
                         /\ snapshot \in [Lister -> Seq(Name)]
                         /\ pos \in [Lister -> Nat]
                         /\ \A th \in Lister : pos[th] <= Len(snapshot[th])
                         /\ listings \in Nat
           FindType   == look \in Nat /\ devID \in Nat /\ count \in 0..MaxTry
           CapType    == /\ isOpening \in BOOLEAN /\ isError \in BOOLEAN
                         /\ capture \in Name \cup {Null, "shut"}
                         /\ result \in {"none", "true", "false", "threw"}
           PropType   == /\ prop \in 1..NumProp + 1
                         /\ pending \subseteq Prop /\ settled \subseteq Prop
                         /\ lost \subseteq Prop
           CameraType == plugged \in Seq(Name) /\ plugs \in Nat /\ replugged \in BOOLEAN
<1>0. /\ Lister = {"owner", "web"} /\ pc \in [Lister -> Labels]
      /\ NumProp \in Nat \ {0} /\ MaxTry \in Nat \ {0}
      /\ Prop = 1..NumProp /\ Size \in Prop
  BY PropAssumption, TryAssumption DEF Lister, Flow, Prop, Size
<1>1. ListType /\ FindType /\ CapType /\ PropType /\ CameraType
  BY DEF TypeOK
<1>2. SUFFICES ListType' /\ FindType' /\ CapType' /\ PropType' /\ CameraType'
  BY FlowNext DEF TypeOK, Flow
<1>u. /\ UNCHANGED listVars => ListType'
      /\ UNCHANGED findVars => FindType'
      /\ UNCHANGED capVars => CapType'
      /\ UNCHANGED propVars => PropType'
      /\ UNCHANGED plugVars => CameraType'
      /\ Forget => FindType'
      /\ UNCHANGED prop /\ Drop => PropType'
  <2>1. /\ UNCHANGED listVars => ListType'
        /\ UNCHANGED capVars => CapType'
        /\ UNCHANGED propVars => PropType'
        /\ UNCHANGED plugVars => CameraType'
    BY <1>1 DEF listVars, capVars, propVars, plugVars
  <2>2. (UNCHANGED findVars \/ Forget) => FindType'
    BY <1>0, <1>1 DEF findVars, Forget
  <2>3. UNCHANGED prop /\ Drop => PropType'
    BY <1>0, <1>1 DEF Drop
  <2>4. QED
    BY <2>1, <2>2, <2>3
<1>e. ASSUME NEW ok \in BOOLEAN, Ended(ok), UNCHANGED capture
      PROVE  CapType'
  BY <1>1, <1>e DEF Ended
<1>3. ASSUME NEW th \in Lister, List(th)
      PROVE  ListType'
  <2>1. CASE ListClear(th)
    BY <1>1, <2>1 DEF ListClear
  <2>2. CASE Enumerate(th)
    <3>1. /\ snapshot' \in [Lister -> Seq(Name)] /\ pos' \in [Lister -> Nat]
          /\ \A t \in Lister : pos'[t] <= Len(snapshot'[t])
      BY <1>1, <2>2 DEF Enumerate
    <3>2. QED
      BY <1>1, <2>2, <3>1 DEF Enumerate
  <2>3. CASE Fill(th)
    <3>1. PICK n \in Nat : n = pos[th] /\ pos' = [pos EXCEPT ![th] = n + 1]
      BY <1>1, <2>3 DEF Fill
    <3>2. PICK s \in Seq(Name) : s = snapshot[th] /\ n < Len(s) /\ snapshot' = snapshot
      BY <1>1, <2>3, <3>1 DEF Fill
    <3>3. s[n + 1] \in Name /\ n + 1 <= Len(s)
      BY <3>1, <3>2
    <3>4. DOMAIN devList' \subseteq Nat /\ \A k \in DOMAIN devList' : devList'[k] \in Name
      BY <1>1, <2>3, <3>1, <3>2, <3>3 DEF Fill
    <3>5. /\ pos' \in [Lister -> Nat]
          /\ \A t \in Lister : pos'[t] <= Len(snapshot'[t])
      BY <1>1, <3>1, <3>2, <3>3
    <3>6. QED
      BY <1>1, <2>3, <3>2, <3>4, <3>5 DEF Fill
  <2>4. CASE FillDone(th)
    <3>1. /\ snapshot' \in [Lister -> Seq(Name)] /\ pos' \in [Lister -> Nat]
          /\ \A t \in Lister : pos'[t] <= Len(snapshot'[t])
      BY <1>1, <2>4 DEF FillDone
    <3>2. QED
      BY <1>1, <2>4, <3>1 DEF FillDone
  <2>5. QED
    BY <1>3, <2>1, <2>2, <2>3, <2>4 DEF List
<1>4. ASSUME NEW th \in Lister, List(th)
      PROVE  FindType' /\ CapType' /\ PropType' /\ CameraType'
  BY <1>u, <1>4 DEF List, ListClear, Enumerate, Fill, FillDone
<1>5. CASE Open
  <2>1. CapType' /\ PropType' /\ CameraType'
    BY <1>0, <1>1, <1>5 DEF Open
  <2>2. QED
    BY <1>u, <1>5, <2>1 DEF Open
<1>6. CASE Exist \/ Turn \/ Release
  <2>1. CapType'
    BY <1>1, <1>6 DEF Exist, Turn, Release, capVars
  <2>2. QED
    BY <1>u, <1>6, <2>1 DEF Exist, Turn, Release
<1>7. CASE ListEmpty \/ ListNonempty
  <2>1. CapType'
    BY <1>e, <1>u, <1>7 DEF ListEmpty, ListNonempty
  <2>2. QED
    BY <1>u, <1>7, <2>1 DEF ListEmpty, ListNonempty, Ended
<1>8. CASE LookMore \/ LookOn
  <2>1. FindType'
    BY <1>1, <1>u, <1>8 DEF LookMore, LookOn
  <2>2. QED
    BY <1>u, <1>8, <2>1 DEF LookMore, LookOn
<1>9. CASE LookThrow \/ OutputThrow
  <2>1. CapType'
    BY <1>1, <1>9 DEF LookThrow, OutputThrow, Threw
  <2>2. PropType'
    <3>1. CASE LookThrow
      BY <1>u, <3>1 DEF LookThrow
    <3>2. CASE OutputThrow
      BY <1>0, <1>1, <3>2 DEF OutputThrow
    <3>3. QED
      BY <1>9, <3>1, <3>2
  <2>3. QED
    BY <1>u, <1>9, <2>1, <2>2 DEF LookThrow, OutputThrow, Threw
<1>10. CASE Found
  <2>1. FindType'
    BY <1>1, <1>u, <1>10 DEF Found, Ended
  <2>2. CapType'
    BY <1>1, <1>e, <1>10 DEF Found
  <2>3. QED
    BY <1>u, <1>10, <2>1, <2>2 DEF Found
<1>11. CASE NotFound
  <2>1. CapType'
    BY <1>1, <1>11 DEF NotFound, Ended
  <2>2. PropType'
    BY <1>0, <1>1, <1>11 DEF NotFound, Drop
  <2>3. QED
    BY <1>u, <1>11, <2>1, <2>2 DEF NotFound, Ended
<1>12. CASE AttemptOk
  <2>1. capture' \in Name
    BY <1>1, <1>12 DEF AttemptOk
  <2>2. QED
    BY <1>1, <1>u, <1>12, <2>1 DEF AttemptOk, propVars
<1>f. ASSUME TryAgain \/ GiveUp, prop' \in 1..NumProp + 1
      PROVE  FindType' /\ CapType' /\ PropType'
  <2>1. CASE TryAgain
    <3>1. count' \in 0..MaxTry
      BY <1>0, <1>1, <2>1 DEF TryAgain
    <3>2. QED
      BY <1>1, <1>f, <2>1, <3>1 DEF TryAgain
  <2>2. CASE GiveUp
    <3>1. CapType' /\ PropType'
      BY <1>0, <1>1, <1>f, <2>2 DEF GiveUp, Ended, Drop
    <3>2. QED
      BY <1>u, <2>2, <3>1 DEF GiveUp, Ended
  <2>3. QED
    BY <1>f, <2>1, <2>2
<1>13. CASE AttemptFail \/ AttemptHang
  <2>1. AttemptFail => FindType' /\ CapType' /\ PropType'
    BY <1>0, <1>1, <1>f DEF AttemptFail
  <2>2. QED
    BY <1>u, <1>13, <2>1 DEF AttemptFail, AttemptHang
<1>t. CASE ApplyThrow
  <2>1. prop' \in 1..NumProp + 1
    BY <1>0, <1>t DEF ApplyThrow
  <2>2. CASE op = "open"
    BY <1>f, <1>u, <1>t, <2>1, <2>2 DEF ApplyThrow
  <2>3. CASE op # "open"
    BY <1>1, <1>u, <1>t, <2>1, <2>3 DEF ApplyThrow
  <2>4. QED
    BY <2>2, <2>3
<1>14. CASE ApplyDone
  <2>1. PropType'
    BY <1>0, <1>1, <1>14 DEF ApplyDone
  <2>2. CapType' /\ FindType'
    BY <1>1, <1>e, <1>u, <1>14 DEF ApplyDone, Ended, findVars
  <2>3. QED
    BY <1>u, <1>14, <2>1, <2>2 DEF ApplyDone
<1>15. CASE ApplySkip \/ ApplySet \/ ApplyMark
  <2>1. ApplyMark => prop <= NumProp
    BY <1>0, <1>1 DEF ApplyMark, Applying
  <2>2. ASSUME ApplySkip \/ ApplyMark
        PROVE  PropType'
    <3>1. prop \in 1..NumProp /\ prop' = prop + 1
      BY <1>0, <1>1, <2>1, <2>2 DEF ApplySkip, ApplyMark
    <3>2. prop' \in 1..NumProp + 1
      BY <1>0, <3>1
    <3>3. pending' \subseteq Prop /\ settled' \subseteq Prop /\ lost' \subseteq Prop
      BY <1>1, <2>2 DEF ApplySkip, ApplyMark
    <3>4. QED
      BY <3>2, <3>3
  <2>3. ApplySet => PropType'
    BY <1>0, <1>1 DEF ApplySet
  <2>4. QED
    BY <1>u, <1>15, <2>2, <2>3 DEF ApplySkip, ApplySet, ApplyMark
<1>16. ASSUME NEW ok \in BOOLEAN, Read(ok)
       PROVE  ListType' /\ FindType' /\ CapType' /\ PropType' /\ CameraType'
  <2>1. CapType'
    BY <1>1, <1>16 DEF Read
  <2>2. QED
    BY <1>u, <1>16, <2>1 DEF Read
<1>17. CASE WebList
  <2>1. ListType'
    BY <1>1, <1>17 DEF WebList
  <2>2. QED
    BY <1>u, <1>17, <2>1 DEF WebList
<1>18. ASSUME NEW p \in Prop, SetProp(p)
       PROVE  ListType' /\ FindType' /\ CapType' /\ PropType' /\ CameraType'
  <2>1. PropType'
    BY <1>1, <1>18 DEF SetProp
  <2>2. QED
    BY <1>u, <1>18, <2>1 DEF SetProp
<1>19. ASSUME NEW s \in Seq(Name), Replug(s)
       PROVE  ListType' /\ FindType' /\ CapType' /\ PropType' /\ CameraType'
  <2>1. CameraType'
    BY <1>1, <1>19 DEF Replug
  <2>2. QED
    BY <1>u, <1>19, <2>1 DEF Replug
<1>20. ASSUME NEW n \in Name, NEW i \in 1..Cardinality(Name), PlugIn(n, i) \/ PlugOut(i)
       PROVE  ListType' /\ FindType' /\ CapType' /\ PropType' /\ CameraType'
  <2>1. Cardinality(Name) \in Nat
    BY NameAssumption, FS_CardinalityType
  <2>2. i \in Nat \ {0}
    BY <2>1
  <2>3. /\ i <= Len(plugged) + 1 => InsertAt(plugged, i, n) \in Seq(Name)
        /\ i <= Len(plugged) => RemoveAt(plugged, i) \in Seq(Name)
    BY <1>1, <2>2, PlugType
  <2>4. QED
    BY <1>19, <1>20, <2>3 DEF PlugIn, PlugOut
<1>21. CASE UNCHANGED vars
  BY <1>u, <1>21 DEF vars
<1> HIDE DEF ListType, FindType, CapType, PropType, CameraType
<1>22. QED
  BY <1>0, <1>3, <1>4, <1>5, <1>6, <1>7, <1>8, <1>9, <1>10, <1>11, <1>12, <1>13, <1>t, <1>14,
     <1>15, <1>16, <1>17, <1>18, <1>20, <1>21, NameAssumption DEF Next, Proceed

-----------------------------------------------------------------------------
(* Ways to fail.                                                           *)

\* At the start nothing has failed and nothing is open.
LEMMA ClosedInit == Init => Closed
BY NameAssumption DEF Init, Closed, FailedOpenClosed, IsOpen

\* open() leaves no capture open on the ways that return false.
LEMMA ClosedNext == Flow /\ Closed /\ [Next]_vars => Closed'
<1> SUFFICES ASSUME Flow, Closed, [Next]_vars
             PROVE  Closed'
  OBVIOUS
<1>0. pc \in [Lister -> Labels] /\ {"owner", "web"} \subseteq Lister
  BY DEF Flow, Lister
<1> USE NameAssumption DEF Flow, Closed, FailedOpenClosed, Opening, IsOpen, Goto
<1>1. ASSUME NEW th \in Lister, List(th)
      PROVE  Closed'
  BY <1>0, <1>1 DEF List, ListClear, Enumerate, Fill, FillDone, capVars
<1>2. CASE Open \/ Exist \/ Turn \/ Release
  BY <1>0, <1>2 DEF Open, Exist, Turn, Release, capVars
<1>3. CASE ListEmpty \/ ListNonempty \/ NotFound
  BY <1>0, <1>3 DEF ListEmpty, ListNonempty, NotFound, Ended, capVars
<1>4. CASE LookMore \/ LookOn \/ LookThrow \/ Found
  BY <1>0, <1>4 DEF LookMore, LookOn, LookThrow, Found, Threw, Ended, capVars
<1>5. CASE AttemptOk \/ AttemptHang \/ AttemptFail
  BY <1>0, <1>5 DEF AttemptOk, AttemptHang, AttemptFail, TryAgain, GiveUp, Drop, Ended, capVars
<1>6. CASE ApplyDone \/ ApplySkip \/ ApplySet \/ ApplyMark \/ ApplyThrow \/ OutputThrow
  BY <1>0, <1>6 DEF ApplyDone, ApplySkip, ApplySet, ApplyMark, ApplyThrow, OutputThrow,
     TryAgain, GiveUp, Threw, Drop, Ended, capVars
<1>7. ASSUME NEW ok \in BOOLEAN, Read(ok)
      PROVE  Closed'
  BY <1>0, <1>7 DEF Read
<1>8. CASE WebList
  BY <1>0, <1>8 DEF WebList, capVars
<1>9. ASSUME UNCHANGED <<pc, op, capVars>>
      PROVE  Closed'
  BY <1>9 DEF capVars
<1>10. ASSUME NEW p \in Prop, SetProp(p)
       PROVE  Closed'
  BY <1>9, <1>10 DEF SetProp
<1>11. ASSUME NEW n, NEW i, PlugIn(n, i) \/ PlugOut(i)
       PROVE  Closed'
  BY <1>9, <1>11 DEF PlugIn, PlugOut, Replug
<1>12. CASE UNCHANGED vars
  BY <1>9, <1>12 DEF vars
<1>13. QED
  BY <1>0, <1>1, <1>2, <1>3, <1>4, <1>5, <1>6, <1>7, <1>8, <1>10, <1>11, <1>12
     DEF Next, Proceed

-----------------------------------------------------------------------------
(* The list.                                                               *)

\* At the start no list is under way and nothing is open.
LEMMA RightListInit == Init => RightList
BY NameAssumption DEF Init, RightList, IsOpen, Opening, Lister

\* While no camera is plugged, whatever is in the list, and in any listing under
\* way, is what is plugged; so the index found is the camera's.
LEMMA RightListNext == Flow /\ RightList /\ [Next]_vars => RightList'
<1> SUFFICES ASSUME Flow, RightList, [Next]_vars
             PROVE  RightList'
  OBVIOUS
<1>0. pc \in [Lister -> Labels] /\ Lister = {"owner", "web"}
  BY DEF Flow, Lister
<1> USE NameAssumption DEF Flow, RightList, Opening, IsOpen, Goto
<1>1. ASSUME NEW th \in Lister, ListClear(th)
      PROVE  RightList'
  BY <1>0, <1>1 DEF ListClear, plugVars, findVars, capVars
<1>2. ASSUME NEW th \in Lister, Enumerate(th)
      PROVE  RightList'
  BY <1>0, <1>2 DEF Enumerate, plugVars, findVars, capVars
<1>3. ASSUME NEW th \in Lister, Fill(th)
      PROVE  RightList'
  BY <1>0, <1>3 DEF Fill, plugVars, findVars, capVars
<1>4. ASSUME NEW th \in Lister, FillDone(th)
      PROVE  RightList'
  BY <1>0, <1>4 DEF FillDone, plugVars, findVars, capVars
<1>5. CASE Open \/ Exist \/ Turn \/ Release
  BY <1>0, <1>5 DEF Open, Exist, Turn, Release, plugVars, listVars, findVars, capVars
<1>6. CASE ListEmpty \/ ListNonempty \/ NotFound
  BY <1>0, <1>6 DEF ListEmpty, ListNonempty, NotFound, Ended, plugVars, listVars,
     findVars, capVars
<1>7. CASE LookMore \/ LookOn \/ LookThrow
  BY <1>0, <1>7 DEF LookMore, LookOn, LookThrow, Threw, plugVars, listVars, capVars
<1>8. CASE Found
  BY <1>0, <1>8 DEF Found, Ended, plugVars, listVars
<1>9. CASE AttemptOk \/ AttemptHang \/ AttemptFail
  <2>1. CASE AttemptOk
    BY <1>0, <2>1 DEF AttemptOk, plugVars, listVars, findVars
  <2>2. CASE AttemptHang
    BY <1>0, <2>2 DEF AttemptHang, plugVars, listVars, findVars, capVars
  <2>3. CASE AttemptFail
    BY <1>0, <2>3 DEF AttemptFail, TryAgain, GiveUp, Drop, Ended, plugVars, listVars
  <2>4. QED
    BY <1>9, <2>1, <2>2, <2>3
<1>10. CASE ApplyDone \/ ApplySkip \/ ApplySet \/ ApplyMark \/ ApplyThrow \/ OutputThrow
  BY <1>0, <1>10 DEF ApplyDone, ApplySkip, ApplySet, ApplyMark, ApplyThrow, OutputThrow,
     TryAgain, GiveUp, Threw, Drop, Ended, plugVars, listVars, findVars, capVars
<1>11. ASSUME NEW ok \in BOOLEAN, Read(ok)
       PROVE  RightList'
  BY <1>0, <1>11 DEF Read, plugVars, listVars, findVars
<1>12. CASE WebList
  BY <1>0, <1>12 DEF WebList, plugVars, findVars, capVars
<1>13. ASSUME UNCHANGED <<plugVars, listVars, pc, op, findVars, capVars>>
       PROVE  RightList'
  BY <1>13 DEF plugVars, listVars, findVars, capVars
<1>14. ASSUME NEW p \in Prop, SetProp(p)
       PROVE  RightList'
  BY <1>13, <1>14 DEF SetProp
<1>15. ASSUME NEW n, NEW i, PlugIn(n, i) \/ PlugOut(i)
       PROVE  RightList'
  BY <1>0, <1>15 DEF PlugIn, PlugOut, Replug, listVars, findVars, capVars
<1>16. CASE UNCHANGED vars
  BY <1>13, <1>16 DEF vars
<1>17. QED
  BY <1>0, <1>1, <1>2, <1>3, <1>4, <1>5, <1>6, <1>7, <1>8, <1>9, <1>10, <1>11, <1>12,
     <1>14, <1>15, <1>16 DEF Next, Proceed, List

-----------------------------------------------------------------------------
(* The theorems.                                                           *)

\* The owner of the device is in one call at a time, and where that call has it.
THEOREM FlowInvariance == Spec => []Flow
BY FlowInit, FlowNext, PTL DEF Spec

\* No value that a property was set to is lost but in the ways the code means
\* and in the one moment of applyCapProp.
THEOREM NothingLost == Spec => []NoSilentLoss
<1>1. Applying => NoSilentLoss
  BY DEF Applying
<1>2. QED
  BY <1>1, ApplyingInit, ApplyingNext, FlowInvariance, PTL DEF Spec

\* A failed open leaves a closed device that says so.
THEOREM FailureCloses == Spec => []FailedOpenClosed
<1>1. Closed => FailedOpenClosed
  BY DEF Closed
<1>2. QED
  BY <1>1, ClosedInit, ClosedNext, FlowInvariance, PTL DEF Spec

\* The device's variables keep their types: in particular the count of the
\* attempts and the place in the properties never leave their bounds, and no
\* listing copies more than it enumerated.
THEOREM TypeCorrect == Spec => []TypeOK
BY TypeInit, TypeNext, ApplyingInit, ApplyingNext, FlowInvariance, PTL DEF Spec

\* The device is open on the camera of its name, unless one was plugged
\* meanwhile.
THEOREM OpensRightCamera == Spec => []RightCamera
<1>1. RightList => RightCamera
  BY DEF RightList, RightCamera
<1>2. QED
  BY <1>1, RightListInit, RightListNext, FlowInvariance, PTL DEF Spec
=============================================================================
