--------------------------- MODULE DiscoveryProofs ---------------------------
(***************************************************************************)
(* Proofs about Discovery, for any devices, paths and requests.            *)
(*                                                                         *)
(* OpenIsHonest speaks of the end of a call.  DiscoveryInv says what a     *)
(* call knows on its way there: what it has found was true of the device   *)
(* that was at the path when the call began, or the path has changed.      *)
(***************************************************************************)
EXTENDS Discovery, FiniteSetTheorems, TLAPS

Maps == [Paths -> Devices \cup {None}]

Steps == {"idle", "scan", "opening", "listed", "describing", "done"}

Jobs ==
  [call : {"none", "refresh", "open", "open_path"},
   ask : Requests \cup {Wildcard},
   step : Steps,
   snapshot : Maps \cup {<<>>},
   changed : SUBSET Paths,
   unread : SUBSET Paths,
   todo : Seq(Paths),
   found : Seq(DeviceInfos),
   path : Paths \cup {None},
   listed : Devices \cup {None},
   held : Devices \cup {None},
   mode : HandleModes \cup {"none"},
   lost : BOOLEAN,
   result : {"none", "ok", "failed", "not_found"}]

WorldTypes ==
  /\ backend \in Backends
  /\ at \in Maps
  /\ used \subseteq Paths
  /\ device_list \in Seq(DeviceInfos)
  /\ job \in Jobs
  /\ handle \in Handles \cup {None}

\* A call knows where everything was when it began, except what has changed since.
CallInv ==
  /\ backend = "web" => job.step = "idle" /\ job.result = "none"
  /\ InProgress =>
    /\ handle = None /\ job.result = "none"
    /\ job.snapshot \in Maps
    /\ \A p \in Paths \ job.changed : at[p] = job.snapshot[p]
    /\ job.step \in {"opening", "listed", "describing"} => job.path \in Paths
    /\ job.step = "listed" =>
         /\ job.listed \in Devices
         /\ job.path \in job.changed \/ at[job.path] = job.listed
    /\ job.step = "describing" =>
         /\ job.held \in Devices /\ job.mode \in HandleModes
         /\ job.lost \/ at[job.path] = job.held
         /\ backend = "nusb" => /\ job.listed \in Devices
                                /\ job.path \in job.changed \/ job.held = job.listed

\* A registry entry is used once.
MacInv ==
  backend = "macos" =>
    /\ \A p \in Paths : at[p] # None => p \in used
    /\ InProgress => \A p \in Paths :
         job.snapshot[p] # None => p \in used /\ at[p] \in {None, job.snapshot[p]}

MayHaveChanged(p) == backend # "macos" /\ p \in job.changed

\* A scan visits the paths of devices that were there; what it has found matches,
\* and is no lie unless the path has changed.
FoundInv ==
  job.step = "scan" =>
    /\ \A n \in DOMAIN job.todo : job.snapshot[job.todo[n]] # None
    /\ \A n \in DOMAIN job.found :
         LET info == job.found[n]
         IN /\ job.snapshot[info.path] # None
            /\ Matches(info, job.ask.vid, job.ask.pid)
            /\ MayHaveChanged(info.path) \/ TrueOf(info, job.snapshot[info.path])

\* A device that is asked for, stays and can be identified is still to be visited,
\* or the scan has found one.
MissInv ==
  job.step = "scan" /\ job.call = "open" =>
    \A p \in Paths \ (job.changed \cup job.unread) :
      job.snapshot[p] # None /\ Fits(job.snapshot[p], job.ask) =>
        (\E n \in DOMAIN job.todo : job.todo[n] = p) \/ Found # {}

\* What open has chosen, and what it holds, is what was asked for unless its path
\* has changed.
PickInv ==
  job.call = "open" =>
    /\ job.step \in {"opening", "listed"} =>
         /\ job.snapshot[job.path] # None
         /\ MayHaveChanged(job.path) \/ Fits(job.snapshot[job.path], job.ask)
    /\ job.step = "describing" =>
         MayHaveChanged(job.path) \/ Fits(job.held, job.ask)

DiscoveryInv ==
  /\ WorldTypes /\ CallInv /\ MacInv /\ FoundInv /\ MissInv /\ PickInv /\ OpenIsHonest

-----------------------------------------------------------------------------
(* The call in progress *)

JobFields ==
  {"call", "ask", "step", "snapshot", "changed", "unread", "todo", "found", "path",
   "listed", "held", "mode", "lost", "result"}

\* The fields that calls set.
LEMMA FieldNames ==
  /\ "call" \in JobFields /\ "ask" \in JobFields /\ "step" \in JobFields
  /\ "snapshot" \in JobFields /\ "changed" \in JobFields /\ "unread" \in JobFields
  /\ "todo" \in JobFields /\ "found" \in JobFields /\ "path" \in JobFields
  /\ "listed" \in JobFields /\ "held" \in JobFields /\ "mode" \in JobFields
  /\ "lost" \in JobFields /\ "result" \in JobFields
BY DEF JobFields

\* w is j with field f set to v.
Updated(w, j, f, v) == w[f] = v /\ \A g \in JobFields \ {f} : w[g] = j[g]

\* A field that is set has its new value, and the others keep theirs.
LEMMA JobUpdate ==
  ASSUME NEW j \in Jobs, NEW f \in JobFields, NEW v
  PROVE  Updated([j EXCEPT ![f] = v], j, f, v)
BY DEF Jobs, JobFields, Updated

\* A field that is set within its type leaves a call a call.
LEMMA UpdateTyped ==
  ASSUME NEW j \in Jobs
  PROVE  /\ \A v \in {"none", "refresh", "open", "open_path"} : [j EXCEPT !.call = v] \in Jobs
         /\ \A v \in Requests \cup {Wildcard} : [j EXCEPT !.ask = v] \in Jobs
         /\ \A v \in Steps : [j EXCEPT !.step = v] \in Jobs
         /\ \A v \in Maps : [j EXCEPT !.snapshot = v] \in Jobs
         /\ \A v \in SUBSET Paths : [j EXCEPT !.changed = v] \in Jobs
         /\ \A v \in SUBSET Paths : [j EXCEPT !.unread = v] \in Jobs
         /\ \A v \in Seq(Paths) : [j EXCEPT !.todo = v] \in Jobs
         /\ \A v \in Seq(DeviceInfos) : [j EXCEPT !.found = v] \in Jobs
         /\ \A v \in Paths \cup {None} : [j EXCEPT !.path = v] \in Jobs
         /\ \A v \in Devices : [j EXCEPT !.listed = v] \in Jobs
         /\ \A v \in Devices : [j EXCEPT !.held = v] \in Jobs
         /\ \A v \in HandleModes : [j EXCEPT !.mode = v] \in Jobs
         /\ \A v \in BOOLEAN : [j EXCEPT !.lost = v] \in Jobs
         /\ \A v \in {"none", "ok", "failed", "not_found"} : [j EXCEPT !.result = v] \in Jobs
<1>1. \A v \in {"none", "refresh", "open", "open_path"} : [j EXCEPT !.call = v] \in Jobs
  BY DEF Jobs
<1>2. \A v \in Requests \cup {Wildcard} : [j EXCEPT !.ask = v] \in Jobs
  BY DEF Jobs
<1>3. \A v \in Steps : [j EXCEPT !.step = v] \in Jobs
  BY DEF Jobs
<1>4. \A v \in Maps : [j EXCEPT !.snapshot = v] \in Jobs
  BY DEF Jobs
<1>5. \A v \in SUBSET Paths : [j EXCEPT !.changed = v] \in Jobs
  BY DEF Jobs
<1>6. \A v \in SUBSET Paths : [j EXCEPT !.unread = v] \in Jobs
  BY DEF Jobs
<1>7. \A v \in Seq(Paths) : [j EXCEPT !.todo = v] \in Jobs
  BY DEF Jobs
<1>8. \A v \in Seq(DeviceInfos) : [j EXCEPT !.found = v] \in Jobs
  BY DEF Jobs
<1>9. \A v \in Paths \cup {None} : [j EXCEPT !.path = v] \in Jobs
  BY DEF Jobs
<1>10. \A v \in Devices : [j EXCEPT !.held = v] \in Jobs
  BY DEF Jobs
<1>11. \A v \in HandleModes : [j EXCEPT !.mode = v] \in Jobs
  BY DEF Jobs
<1>12. \A v \in BOOLEAN : [j EXCEPT !.lost = v] \in Jobs
  BY DEF Jobs
<1>13. \A v \in {"none", "ok", "failed", "not_found"} : [j EXCEPT !.result = v] \in Jobs
  BY DEF Jobs
<1>14. \A v \in Devices : [j EXCEPT !.listed = v] \in Jobs
  BY DEF Jobs
<1> QED
  BY <1>1, <1>2, <1>3, <1>4, <1>5, <1>6, <1>7, <1>8, <1>9, <1>10, <1>11, <1>12, <1>13, <1>14

\* What changes in a call when it goes on or ends; the rest of it stays.
LEMMA EndedFacts ==
  ASSUME job \in Jobs, NEW result \in {"ok", "failed", "not_found"}
  PROVE  /\ Ended(result) \in Jobs
         /\ Ended(result).step = "done" /\ Ended(result).result = result
         /\ Ended(result).call = job.call /\ Ended(result).ask = job.ask
         /\ Ended(result).snapshot = job.snapshot /\ Ended(result).changed = job.changed
         /\ Ended(result).unread = job.unread /\ Ended(result).path = job.path
<1> DEFINE e == [job EXCEPT !.step = "done"]
           w == [e EXCEPT !.result = result]
<1>1. w = Ended(result)
  BY DEF Ended
<1>2. e \in Jobs /\ "step" \in JobFields /\ "result" \in JobFields
  BY UpdateTyped DEF JobFields, Steps
<1>3. Updated(e, job, "step", "done")
  BY <1>2, JobUpdate, FieldNames
<1> HIDE DEF e
<1>4. w \in Jobs
  BY <1>2, UpdateTyped
<1>5. Updated(w, e, "result", result)
  BY <1>2, JobUpdate, FieldNames
<1> HIDE DEF w
<1>6. w.step = "done" /\ w.result = result /\ w.call = job.call /\ w.ask = job.ask
  BY <1>3, <1>5 DEF JobFields, Updated
<1>7. /\ w.snapshot = job.snapshot /\ w.changed = job.changed
      /\ w.unread = job.unread /\ w.path = job.path
  BY <1>3, <1>5 DEF JobFields, Updated
<1> QED
  BY <1>1, <1>4, <1>6, <1>7

\* What a plug or unplug at p does to the call in progress.
LEMMA MovedFacts ==
  ASSUME job \in Jobs, NEW p \in Paths
  PROVE  /\ Moved(p) \in Jobs
         /\ Moved(p).step = job.step /\ Moved(p).result = job.result
         /\ Moved(p).call = job.call /\ Moved(p).ask = job.ask
         /\ Moved(p).snapshot = job.snapshot /\ Moved(p).unread = job.unread
         /\ Moved(p).path = job.path /\ Moved(p).todo = job.todo
         /\ Moved(p).found = job.found /\ Moved(p).held = job.held
         /\ Moved(p).mode = job.mode /\ Moved(p).listed = job.listed
         /\ Moved(p).changed = IF InProgress THEN job.changed \cup {p} ELSE job.changed
         /\ job.lost => Moved(p).lost
         /\ job.step = "describing" /\ p = job.path => Moved(p).lost
<1> DEFINE changed == job.changed \cup {p}
           lost == job.lost \/ (job.step = "describing" /\ p = job.path)
           e == [job EXCEPT !.changed = changed]
           w == [e EXCEPT !.lost = lost]
<1>1. CASE InProgress
  <2>1. w = Moved(p)
    BY <1>1 DEF Moved
  <2>2. changed \in SUBSET Paths /\ lost \in BOOLEAN /\ (job.lost => lost)
        /\ (job.step = "describing" /\ p = job.path => lost)
    BY DEF Jobs
  <2> HIDE DEF changed, lost
  <2>3. e \in Jobs /\ "changed" \in JobFields /\ "lost" \in JobFields
    BY <2>2, UpdateTyped DEF JobFields
  <2>4. Updated(e, job, "changed", changed)
    BY <2>3, JobUpdate, FieldNames
  <2> HIDE DEF e
  <2>5. w \in Jobs
    BY <2>2, <2>3, UpdateTyped
  <2>6. Updated(w, e, "lost", lost)
    BY <2>3, JobUpdate, FieldNames
  <2> HIDE DEF w
  <2>7. w.step = job.step /\ w.result = job.result /\ w.call = job.call /\ w.ask = job.ask
    BY <2>4, <2>6 DEF JobFields, Updated
  <2>8. /\ w.snapshot = job.snapshot /\ w.unread = job.unread
        /\ w.path = job.path /\ w.todo = job.todo
    BY <2>4, <2>6 DEF JobFields, Updated
  <2>9. w.found = job.found /\ w.held = job.held /\ w.mode = job.mode /\ w.listed = job.listed
    BY <2>4, <2>6 DEF JobFields, Updated
  <2>10. w.changed = changed /\ w.lost = lost
    BY <2>4, <2>6 DEF JobFields, Updated
  <2> QED
    BY <1>1, <2>1, <2>2, <2>5, <2>7, <2>8, <2>9, <2>10 DEF changed
<1>2. CASE ~InProgress
  BY <1>2 DEF Moved, InProgress
<1> QED
  BY <1>1, <1>2

\* The call of a program that has made none.
LEMMA IdleFacts ==
  /\ Idle \in Jobs
  /\ Idle.step = "idle" /\ Idle.call = "none" /\ Idle.result = "none"
  /\ Idle.found = <<>> /\ Idle.changed = {} /\ Idle.unread = {}
BY DEF Idle, Jobs, Steps

\* A visit.
Visited(todo, unread, found) ==
  [job EXCEPT !.todo = todo, !.unread = unread, !.found = found]

\* What a visit leaves of the call.
LEMMA VisitedFacts ==
  ASSUME job \in Jobs, NEW todo \in Seq(Paths), NEW unread \in SUBSET Paths,
         NEW found \in Seq(DeviceInfos)
  PROVE  LET visited == Visited(todo, unread, found)
         IN /\ visited \in Jobs
            /\ visited.todo = todo /\ visited.unread = unread /\ visited.found = found
            /\ visited.call = job.call /\ visited.ask = job.ask /\ visited.step = job.step
            /\ visited.snapshot = job.snapshot /\ visited.changed = job.changed
            /\ visited.result = job.result
<1> DEFINE a == [job EXCEPT !.todo = todo]
           b == [a EXCEPT !.unread = unread]
           w == [b EXCEPT !.found = found]
<1>1. w = Visited(todo, unread, found)
  BY DEF Visited
<1>2. a = [job EXCEPT !.todo = todo] /\ b = [a EXCEPT !.unread = unread]
      /\ w = [b EXCEPT !.found = found]
  OBVIOUS
<1> HIDE DEF a, b, w
<1>3. a \in Jobs /\ b \in Jobs
  BY <1>2, UpdateTyped
<1>4. w \in Jobs
  BY <1>2, <1>3, UpdateTyped
<1>5. Updated(a, job, "todo", todo)
  BY <1>2, JobUpdate, FieldNames
<1>6. Updated(b, a, "unread", unread)
  BY <1>2, <1>3, JobUpdate, FieldNames
<1>7. Updated(w, b, "found", found)
  BY <1>2, <1>3, JobUpdate, FieldNames
<1> USE DEF JobFields, Updated
<1>8. w.todo = todo /\ w.unread = unread /\ w.found = found
  BY <1>5, <1>6, <1>7
<1>9. w.call = job.call /\ w.ask = job.ask /\ w.step = job.step
  BY <1>5, <1>6, <1>7
<1>10. w.snapshot = job.snapshot /\ w.changed = job.changed /\ w.result = job.result
  BY <1>5, <1>6, <1>7
<1> QED
  BY <1>1, <1>4, <1>8, <1>9, <1>10

\* `open` has chosen a path, nusb has listed what is there, the device is open.
Chosen(path) == [job EXCEPT !.step = "opening", !.path = path]

Listed == [job EXCEPT !.step = "listed", !.listed = at[job.path]]

Held(mode) == [job EXCEPT !.step = "describing", !.held = at[job.path], !.mode = mode]

\* What the choice of a path leaves of the call.
LEMMA ChosenFacts ==
  ASSUME job \in Jobs, NEW path \in Paths
  PROVE  LET chosen == Chosen(path)
         IN /\ chosen \in Jobs
            /\ chosen.step = "opening" /\ chosen.path = path
            /\ chosen.call = job.call /\ chosen.ask = job.ask
            /\ chosen.snapshot = job.snapshot /\ chosen.changed = job.changed
            /\ chosen.result = job.result
<1> DEFINE a == [job EXCEPT !.step = "opening"]
           w == [a EXCEPT !.path = path]
<1>1. w = Chosen(path)
  BY DEF Chosen
<1>2. a = [job EXCEPT !.step = "opening"] /\ w = [a EXCEPT !.path = path]
  OBVIOUS
<1> HIDE DEF a, w
<1>3. a \in Jobs /\ w \in Jobs
  BY <1>2, UpdateTyped DEF Steps
<1>4. Updated(a, job, "step", "opening")
  BY <1>2, JobUpdate, FieldNames
<1>5. Updated(w, a, "path", path)
  BY <1>2, <1>3, JobUpdate, FieldNames
<1> USE DEF JobFields, Updated
<1>6. w.step = "opening" /\ w.path = path /\ w.call = job.call /\ w.ask = job.ask
  BY <1>4, <1>5
<1>7. w.snapshot = job.snapshot /\ w.changed = job.changed /\ w.result = job.result
  BY <1>4, <1>5
<1> QED
  BY <1>1, <1>3, <1>6, <1>7

\* What the second listing leaves of the call: it knows the device that is there.
LEMMA ListedFacts ==
  ASSUME job \in Jobs, at[job.path] \in Devices
  PROVE  /\ Listed \in Jobs
         /\ Listed.step = "listed" /\ Listed.listed = at[job.path]
         /\ Listed.path = job.path /\ Listed.call = job.call /\ Listed.ask = job.ask
         /\ Listed.snapshot = job.snapshot /\ Listed.changed = job.changed
         /\ Listed.result = job.result
<1> DEFINE device == at[job.path]
           a == [job EXCEPT !.step = "listed"]
           w == [a EXCEPT !.listed = device]
<1>1. w = Listed
  BY DEF Listed
<1>2. a = [job EXCEPT !.step = "listed"] /\ w = [a EXCEPT !.listed = device]
  OBVIOUS
<1> HIDE DEF device, a, w
<1>3. a \in Jobs
  BY <1>2, UpdateTyped DEF Steps
<1>4. w \in Jobs
  BY <1>2, <1>3, UpdateTyped DEF device
<1>5. Updated(a, job, "step", "listed")
  BY <1>2, JobUpdate, FieldNames
<1>6. Updated(w, a, "listed", device)
  BY <1>2, <1>3, JobUpdate, FieldNames
<1> USE DEF JobFields, Updated
<1>7. w.step = "listed" /\ w.listed = device
  BY <1>5, <1>6
<1>8. w.path = job.path /\ w.call = job.call /\ w.ask = job.ask
  BY <1>5, <1>6
<1>9. w.snapshot = job.snapshot /\ w.changed = job.changed /\ w.result = job.result
  BY <1>5, <1>6
<1> QED
  BY <1>1, <1>4, <1>7, <1>8, <1>9 DEF device

\* What opening the path leaves of the call: it holds the device that is there.
LEMMA HeldFacts ==
  ASSUME job \in Jobs, at[job.path] \in Devices, NEW mode \in HandleModes
  PROVE  LET held == Held(mode)
         IN /\ held \in Jobs
            /\ held.step = "describing" /\ held.held = at[job.path] /\ held.mode = mode
            /\ held.path = job.path /\ held.call = job.call /\ held.ask = job.ask
            /\ held.listed = job.listed
            /\ held.snapshot = job.snapshot /\ held.changed = job.changed
            /\ held.result = job.result
<1> DEFINE device == at[job.path]
           a == [job EXCEPT !.step = "describing"]
           b == [a EXCEPT !.held = device]
           w == [b EXCEPT !.mode = mode]
<1>1. w = Held(mode)
  BY DEF Held
<1>2. a = [job EXCEPT !.step = "describing"] /\ b = [a EXCEPT !.held = device]
      /\ w = [b EXCEPT !.mode = mode]
  OBVIOUS
<1> HIDE DEF device, a, b, w
<1>3. a \in Jobs /\ b \in Jobs
  BY <1>2, UpdateTyped DEF device, Steps
<1>4. w \in Jobs
  BY <1>2, <1>3, UpdateTyped
<1>5. Updated(a, job, "step", "describing")
  BY <1>2, JobUpdate, FieldNames
<1>6. Updated(b, a, "held", device)
  BY <1>2, <1>3, JobUpdate, FieldNames
<1>7. Updated(w, b, "mode", mode)
  BY <1>2, <1>3, JobUpdate, FieldNames
<1> USE DEF JobFields, Updated
<1>8. w.step = "describing" /\ w.held = device /\ w.mode = mode
  BY <1>5, <1>6, <1>7
<1>9. w.path = job.path /\ w.call = job.call /\ w.ask = job.ask /\ w.listed = job.listed
  BY <1>5, <1>6, <1>7
<1>10. w.snapshot = job.snapshot /\ w.changed = job.changed /\ w.result = job.result
  BY <1>5, <1>6, <1>7
<1> QED
  BY <1>1, <1>4, <1>8, <1>9, <1>10 DEF device

-----------------------------------------------------------------------------
(* Entries *)

USE DiscoveryAssumption DEF DiscoveryAssumption

\* What a backend may read of a device is an entry for its path, and no lie.
LEMMA ReadingFacts ==
  ASSUME NEW p \in Paths, NEW d \in Devices, NEW info \in WinReadings(p, d) \cup {Info(p, d)}
  PROVE  info \in DeviceInfos /\ info.path = p /\ TrueOf(info, d)
BY DEF WinReadings, Info, Anonymous, DeviceInfos, TrueOf

\* The entries of one device differ in their usage only.
LEMMA PerUsageFacts ==
  ASSUME NEW info \in DeviceInfos, NEW usages \in Seq(Nat)
  PROVE  /\ PerUsage(info, usages) \in Seq(DeviceInfos)
         /\ \A n \in DOMAIN PerUsage(info, usages) :
              LET e == PerUsage(info, usages)[n]
              IN /\ e.path = info.path /\ e.serial = info.serial
                 /\ e.vid = info.vid /\ e.pid = info.pid
<1>1. CASE usages = <<>>
  BY <1>1 DEF PerUsage
<1>2. CASE usages # <<>>
  <2> DEFINE E == [n \in DOMAIN usages |-> [info EXCEPT !.usage = usages[n]]]
  <2>1. ASSUME NEW u \in Nat
        PROVE  LET e == [info EXCEPT !.usage = u]
               IN /\ e \in DeviceInfos
                  /\ e.path = info.path /\ e.serial = info.serial
                  /\ e.vid = info.vid /\ e.pid = info.pid
    BY DEF DeviceInfos
  <2>2. \A n \in DOMAIN usages : usages[n] \in Nat
    OBVIOUS
  <2>3. E \in Seq(DeviceInfos)
    BY <2>1, <2>2
  <2>4. PerUsage(info, usages) = E
    BY <1>2 DEF PerUsage
  <2>5. ASSUME NEW n \in DOMAIN usages
        PROVE  /\ E[n].path = info.path /\ E[n].serial = info.serial
               /\ E[n].vid = info.vid /\ E[n].pid = info.pid
    BY <2>1, <2>2
  <2>6. DOMAIN E = DOMAIN usages
    OBVIOUS
  <2> HIDE DEF E
  <2> QED
    BY <2>3, <2>4, <2>5, <2>6
<1> QED
  BY <1>1, <1>2

\* The entries a path has when it is the path of device d.
EntriesOf(entries, p, d) ==
  \A n \in DOMAIN entries :
    /\ entries[n].path = p /\ TrueOf(entries[n], d)
    /\ entries[n].vid = entries[1].vid /\ entries[n].pid = entries[1].pid
    /\ entries[n].serial = entries[1].serial

\* The entries that per_usage makes of a true reading are true.
LEMMA ReadingsAreEntries ==
  ASSUME NEW p \in Paths, NEW d \in Devices, NEW info \in WinReadings(p, d) \cup {Info(p, d)},
         NEW usages \in Seq(Nat)
  PROVE  /\ PerUsage(info, usages) \in Seq(DeviceInfos)
         /\ EntriesOf(PerUsage(info, usages), p, d)
<1> DEFINE E == PerUsage(info, usages)
<1>1. info \in DeviceInfos /\ info.path = p /\ TrueOf(info, d)
  BY ReadingFacts
<1>2. /\ E \in Seq(DeviceInfos)
      /\ \A n \in DOMAIN E :
            /\ E[n].path = p /\ E[n].serial = info.serial
            /\ E[n].vid = info.vid /\ E[n].pid = info.pid
  BY <1>1, PerUsageFacts
<1> HIDE DEF E
<1>3. \A n \in DOMAIN E : 1 \in DOMAIN E
  BY <1>2
<1>4. EntriesOf(E, p, d)
  BY <1>1, <1>2, <1>3 DEF TrueOf, EntriesOf
<1> QED
  BY <1>2, <1>4 DEF E

\* A visit gives entries of the device that was there when the call began, or on
\* hidraw and Windows of the one that is there now.
VisitedAt(p) == IF backend \in {"hidraw", "windows"} THEN at[p] ELSE job.snapshot[p]

\* What a backend learns at a visit is about the device that the path has now or,
\* where the call holds on to it, had at the start.
LEMMA VisitFacts ==
  ASSUME WorldTypes, backend # "web", NEW p \in Paths, job.snapshot \in Maps,
         job.snapshot[p] # None, NEW entries \in Infos(p)
  PROVE  /\ entries \in Seq(DeviceInfos)
         /\ entries # <<>> => VisitedAt(p) \in Devices /\ EntriesOf(entries, p, VisitedAt(p))
<1>1. ASSUME NEW d \in Devices, NEW info \in WinReadings(p, d) \cup {Info(p, d)},
             NEW usages \in Seq(Nat), entries = PerUsage(info, usages)
      PROVE  entries \in Seq(DeviceInfos) /\ EntriesOf(entries, p, d)
  BY <1>1, ReadingsAreEntries
<1>2. \A d \in Devices : <<>> \in Seq(Nat) /\ d.usages \in Seq(Nat)
                        /\ \A n \in DOMAIN d.usages : <<d.usages[n]>> \in Seq(Nat)
  OBVIOUS
<1>3. CASE backend = "hidraw" /\ entries # <<>>
  <2>1. PICK usages : /\ at[p] \in Devices /\ usages \in {<<>>, at[p].usages}
                      /\ entries = PerUsage(Info(p, at[p]), usages)
    BY <1>3 DEF Infos, HidrawInfos, WorldTypes, Maps
  <2> QED
    BY <1>1, <1>2, <1>3, <2>1 DEF VisitedAt
<1>4. CASE backend = "nusb"
  <2>1. PICK usages \in NusbUsages(p) :
          job.snapshot[p] \in Devices /\ entries = PerUsage(Info(p, job.snapshot[p]), usages)
    BY <1>4 DEF Infos, NusbInfos, Maps
  <2>2. usages \in Seq(Nat)
    BY <1>2, <2>1 DEF NusbUsages, WorldTypes, Maps
  <2> QED
    BY <1>1, <1>4, <2>1, <2>2 DEF VisitedAt
<1>5. CASE backend = "macos"
  <2>1. /\ job.snapshot[p] \in Devices
        /\ entries = PerUsage(Info(p, job.snapshot[p]), job.snapshot[p].usages)
    BY <1>5 DEF Infos, MacInfos, Maps
  <2> QED
    BY <1>1, <1>2, <1>5, <2>1 DEF VisitedAt
<1>6. CASE backend = "windows" /\ entries # <<>>
  <2>1. PICK info, usages :
          /\ at[p] \in Devices /\ info \in WinReadings(p, at[p])
          /\ usages \in {<<>>} \cup {<<at[p].usages[n]>> : n \in DOMAIN at[p].usages}
          /\ entries = PerUsage(info, usages)
    BY <1>6 DEF Infos, WinInfos, WorldTypes, Maps
  <2> QED
    BY <1>1, <1>2, <1>6, <2>1 DEF VisitedAt
<1>7. CASE entries = <<>>
  BY <1>7
<1>8. backend \in {"hidraw", "nusb", "macos", "windows"}
  BY DEF WorldTypes
<1> QED
  BY <1>3, <1>4, <1>5, <1>6, <1>7, <1>8

\* Nobody passes the filter who does not fit.
LEMMA FilterIsHonest ==
  ASSUME NEW info, NEW d, NEW vid, NEW pid, TrueOf(info, d), Matches(info, vid, pid)
  PROVE  Matches(d, vid, pid)
BY DEF TrueOf, Matches

\* The order in which a scan visits its paths leaves none out.
LEMMA OrderFacts ==
  ASSUME NEW paths \in SUBSET Paths, NEW todo \in Orders(paths)
  PROVE  /\ todo \in Seq(Paths)
         /\ \A n \in DOMAIN todo : todo[n] \in paths
         /\ \A p \in paths : \E n \in DOMAIN todo : todo[n] = p
<1>1. IsFiniteSet(paths)
  BY FS_Subset
<1>2. Cardinality(paths) \in Nat
  BY <1>1, FS_CardinalityType
<1>3. todo \in [1..Cardinality(paths) -> paths]
      /\ \A p \in paths : \E n \in DOMAIN todo : todo[n] = p
  BY DEF Orders
<1> DEFINE N == Cardinality(paths)
<1>4. N \in Nat /\ todo \in [1..N -> Paths]
  BY <1>2, <1>3
<1> HIDE DEF N
<1>5. todo \in Seq(Paths)
  BY <1>4
<1> QED
  BY <1>3, <1>5

-----------------------------------------------------------------------------
(* Every step keeps what a call knows. *)

HIDE DiscoveryAssumption DEF DiscoveryAssumption

\* A program that has called nothing knows nothing false.
LEMMA InitKnows ==
  DiscoveryInit => DiscoveryInv
<1> SUFFICES ASSUME DiscoveryInit PROVE DiscoveryInv
  OBVIOUS
<1>1. job = Idle /\ job \in Jobs /\ job.step = "idle" /\ job.call = "none" /\ job.result = "none"
  BY IdleFacts DEF DiscoveryInit
<1>2. WorldTypes
  BY <1>1 DEF DiscoveryInit, WorldTypes, Maps
<1>3. CallInv /\ MacInv /\ FoundInv /\ MissInv /\ PickInv
  BY <1>1 DEF DiscoveryInit, CallInv, MacInv, FoundInv, MissInv, PickInv, InProgress
<1>4. OpenIsHonest
  BY <1>1 DEF DiscoveryInit, OpenIsHonest
<1> QED
  BY <1>2, <1>3, <1>4 DEF DiscoveryInv

\* A device may come at any time: the path counts as changed.
LEMMA PlugKnows ==
  ASSUME DiscoveryInv, NEW p \in Paths, NEW d \in Devices, Plug(p, d)
  PROVE  DiscoveryInv'
<1> USE DEF DiscoveryInv
<1>1. /\ job' = Moved(p) /\ at' = [at EXCEPT ![p] = d] /\ at[p] = None /\ p \notin used
      /\ handle = None /\ UNCHANGED <<backend, device_list, handle>>
      /\ used' = IF backend = "macos" THEN used \cup {p} ELSE used
  BY DEF Plug
<1>2. /\ job' \in Jobs
      /\ job'.step = job.step /\ job'.result = job.result
      /\ job'.call = job.call /\ job'.ask = job.ask
      /\ job'.snapshot = job.snapshot /\ job'.unread = job.unread
      /\ job'.path = job.path /\ job'.todo = job.todo
      /\ job'.found = job.found /\ job'.held = job.held
      /\ job'.mode = job.mode /\ job'.listed = job.listed
      /\ job'.changed = IF InProgress THEN job.changed \cup {p} ELSE job.changed
      /\ job.lost => job'.lost
      /\ job.step = "describing" /\ p = job.path => job'.lost
  BY <1>1, MovedFacts DEF WorldTypes
<1>3. WorldTypes'
  BY <1>1, <1>2 DEF WorldTypes, Maps
<1>4. \A q \in Paths : at'[q] = IF q = p THEN d ELSE at[q]
  BY <1>1 DEF WorldTypes, Maps
<1>5. CallInv'
  BY <1>1, <1>2, <1>4 DEF CallInv, InProgress, WorldTypes
<1>6. MacInv'
  BY <1>1, <1>2, <1>4 DEF MacInv, InProgress, CallInv
<1>7. FoundInv'
  BY <1>1, <1>2 DEF FoundInv, MayHaveChanged
<1>8. MissInv' /\ PickInv'
  BY <1>1, <1>2 DEF MissInv, PickInv, MayHaveChanged, Found
<1>9. OpenIsHonest'
  BY <1>1, <1>2 DEF OpenIsHonest, CallInv, InProgress
<1> QED
  BY <1>3, <1>5, <1>6, <1>7, <1>8, <1>9

\* A device may go at any time, from under the call or the handle.
LEMMA UnplugKnows ==
  ASSUME DiscoveryInv, NEW p \in Paths, Unplug(p)
  PROVE  DiscoveryInv'
<1> USE DEF DiscoveryInv
<1>1. /\ job' = Moved(p) /\ at' = [at EXCEPT ![p] = None]
      /\ UNCHANGED <<backend, used, device_list>>
      /\ handle' = IF handle = None THEN None ELSE [handle EXCEPT !.lost = TRUE]
  BY DEF Unplug
<1>2. /\ job' \in Jobs
      /\ job'.step = job.step /\ job'.result = job.result
      /\ job'.call = job.call /\ job'.ask = job.ask
      /\ job'.snapshot = job.snapshot /\ job'.unread = job.unread
      /\ job'.path = job.path /\ job'.todo = job.todo
      /\ job'.found = job.found /\ job'.held = job.held
      /\ job'.mode = job.mode /\ job'.listed = job.listed
      /\ job'.changed = IF InProgress THEN job.changed \cup {p} ELSE job.changed
      /\ job.lost => job'.lost
      /\ job.step = "describing" /\ p = job.path => job'.lost
  BY <1>1, MovedFacts DEF WorldTypes
<1>3. handle # None =>
        /\ handle' \in Handles /\ handle'.lost /\ handle'.device = handle.device
        /\ handle'.path = handle.path
  BY <1>1 DEF WorldTypes, Handles
<1>4. WorldTypes'
  BY <1>1, <1>2, <1>3 DEF WorldTypes, Maps
<1>5. \A q \in Paths : at'[q] = IF q = p THEN None ELSE at[q]
  BY <1>1 DEF WorldTypes, Maps
<1>6. CallInv'
  BY <1>1, <1>2, <1>5 DEF CallInv, InProgress, WorldTypes
<1>7. MacInv'
  BY <1>1, <1>2, <1>5 DEF MacInv, InProgress, CallInv
<1>8. FoundInv'
  BY <1>1, <1>2 DEF FoundInv, MayHaveChanged
<1>9. MissInv' /\ PickInv'
  BY <1>1, <1>2 DEF MissInv, PickInv, MayHaveChanged, Found
<1>10. OpenIsHonest'
  BY <1>1, <1>2, <1>3 DEF OpenIsHonest, CallInv, InProgress
<1> QED
  BY <1>4, <1>6, <1>7, <1>8, <1>9, <1>10

\* The program calls open_path, enumerate or open.
LEMMA CallKnows ==
  ASSUME DiscoveryInv, backend # "web", handle = None,
         UNCHANGED <<backend, at, used, device_list, handle>>,
         job' \in Jobs, job'.step \in {"scan", "opening"}, job'.snapshot = at,
         job'.result = "none", job'.found = <<>>, job'.changed = {}, job'.unread = {},
         job'.step = "opening" => job'.call = "open_path" /\ job'.path \in Paths,
         job'.step = "scan" =>
           /\ \A n \in DOMAIN job'.todo : at[job'.todo[n]] # None
           /\ \A p \in Paths : at[p] # None => \E n \in DOMAIN job'.todo : job'.todo[n] = p
  PROVE  DiscoveryInv'
<1> USE DEF DiscoveryInv
<1>1. WorldTypes'
  BY DEF WorldTypes
<1>2. CallInv'
  BY DEF CallInv, InProgress, WorldTypes
<1>3. MacInv'
  BY DEF MacInv, InProgress
<1>4. FoundInv' /\ MissInv' /\ PickInv'
  BY DEF FoundInv, MissInv, PickInv
<1>5. OpenIsHonest'
  BY DEF OpenIsHonest
<1> QED
  BY <1>1, <1>2, <1>3, <1>4, <1>5

\* `open_path` starts at a path.
LEMMA OpenPathKnows ==
  ASSUME DiscoveryInv, NEW path \in Paths, OpenPath(path)
  PROVE  DiscoveryInv'
<1> DEFINE a == [Idle EXCEPT !.call = "open_path"]
           b == [a EXCEPT !.step = "opening"]
           c == [b EXCEPT !.snapshot = at]
           w == [c EXCEPT !.path = path]
<1>1. job' = w
  BY DEF OpenPath
<1>2. a = [Idle EXCEPT !.call = "open_path"]
  OBVIOUS
<1>3. b = [a EXCEPT !.step = "opening"]
  OBVIOUS
<1>4. c = [b EXCEPT !.snapshot = at]
  OBVIOUS
<1>5. w = [c EXCEPT !.path = path]
  OBVIOUS
<1> HIDE DEF a, b, c, w
<1>6. a \in Jobs
  BY <1>2, IdleFacts, UpdateTyped
<1>7. b \in Jobs
  BY <1>3, <1>6, UpdateTyped DEF Steps
<1>8. c \in Jobs
  BY <1>4, <1>7, UpdateTyped DEF DiscoveryInv, WorldTypes
<1>9. w \in Jobs
  BY <1>5, <1>8, UpdateTyped
<1>10. Updated(a, Idle, "call", "open_path")
  BY <1>2, IdleFacts, JobUpdate, FieldNames
<1>11. Updated(b, a, "step", "opening")
  BY <1>3, <1>6, JobUpdate, FieldNames
<1>12. Updated(c, b, "snapshot", at)
  BY <1>4, <1>7, JobUpdate, FieldNames
<1>13. Updated(w, c, "path", path)
  BY <1>5, <1>8, JobUpdate, FieldNames
<1>14. w.call = "open_path" /\ w.step = "opening" /\ w.snapshot = at /\ w.path = path
  BY <1>10, <1>11, <1>12, <1>13 DEF JobFields, Updated
<1>15. w.result = Idle.result /\ w.found = Idle.found
  BY <1>10, <1>11, <1>12, <1>13 DEF JobFields, Updated
<1>16. w.changed = Idle.changed /\ w.unread = Idle.unread
  BY <1>10, <1>11, <1>12, <1>13 DEF JobFields, Updated
<1>17. backend # "web" /\ handle = None /\ UNCHANGED <<backend, at, used, device_list, handle>>
  BY DEF OpenPath
<1> QED
  BY <1>1, <1>9, <1>14, <1>15, <1>16, <1>17, IdleFacts, CallKnows

\* `refresh` and `open` start with the paths of the devices that are there.
LEMMA BeginScanKnows ==
  ASSUME DiscoveryInv, NEW begun \in {"refresh", "open"}, NEW ask \in Requests \cup {Wildcard},
         BeginScan(begun, ask)
  PROVE  DiscoveryInv'
<1> DEFINE paths == {p \in Paths : at[p] # None}
<1>1. PICK todo \in Orders(paths) :
        job' = [Idle EXCEPT !.call = begun, !.ask = ask, !.step = "scan",
                            !.snapshot = at, !.todo = todo]
  BY DEF BeginScan
<1>2. paths \in SUBSET Paths
  OBVIOUS
<1>3. /\ todo \in Seq(Paths)
      /\ \A n \in DOMAIN todo : todo[n] \in paths
      /\ \A p \in paths : \E n \in DOMAIN todo : todo[n] = p
  BY <1>1, <1>2, OrderFacts
<1>4. /\ \A n \in DOMAIN todo : at[todo[n]] # None
      /\ \A p \in Paths : at[p] # None => \E n \in DOMAIN todo : todo[n] = p
  BY <1>3
<1> HIDE DEF paths
<1> DEFINE a == [Idle EXCEPT !.call = begun]
           b == [a EXCEPT !.ask = ask]
           c == [b EXCEPT !.step = "scan"]
           d == [c EXCEPT !.snapshot = at]
           w == [d EXCEPT !.todo = todo]
<1>5. job' = w
  BY <1>1
<1>6. a = [Idle EXCEPT !.call = begun]
  OBVIOUS
<1>7. b = [a EXCEPT !.ask = ask]
  OBVIOUS
<1>8. c = [b EXCEPT !.step = "scan"]
  OBVIOUS
<1>9. d = [c EXCEPT !.snapshot = at]
  OBVIOUS
<1>10. w = [d EXCEPT !.todo = todo]
  OBVIOUS
<1> HIDE DEF a, b, c, d, w
<1>11. a \in Jobs
  BY <1>6, IdleFacts, UpdateTyped
<1>12. b \in Jobs
  BY <1>7, <1>11, UpdateTyped
<1>13. c \in Jobs
  BY <1>8, <1>12, UpdateTyped DEF Steps
<1>14. d \in Jobs
  BY <1>9, <1>13, UpdateTyped DEF DiscoveryInv, WorldTypes
<1>15. w \in Jobs
  BY <1>3, <1>10, <1>14, UpdateTyped
<1>16. Updated(a, Idle, "call", begun)
  BY <1>6, IdleFacts, JobUpdate, FieldNames
<1>17. Updated(b, a, "ask", ask)
  BY <1>7, <1>11, JobUpdate, FieldNames
<1>18. Updated(c, b, "step", "scan")
  BY <1>8, <1>12, JobUpdate, FieldNames
<1>19. Updated(d, c, "snapshot", at)
  BY <1>9, <1>13, JobUpdate, FieldNames
<1>20. Updated(w, d, "todo", todo)
  BY <1>10, <1>14, JobUpdate, FieldNames
<1>21. w.step = "scan" /\ w.snapshot = at /\ w.todo = todo
  BY <1>18, <1>19, <1>20 DEF JobFields, Updated
<1>22. w.result = Idle.result /\ w.found = Idle.found
  BY <1>16, <1>17, <1>18, <1>19, <1>20 DEF JobFields, Updated
<1>23. w.changed = Idle.changed /\ w.unread = Idle.unread
  BY <1>16, <1>17, <1>18, <1>19, <1>20 DEF JobFields, Updated
<1>24. backend # "web" /\ handle = None /\ UNCHANGED <<backend, at, used, device_list, handle>>
  BY DEF BeginScan
<1> QED
  BY <1>4, <1>5, <1>15, <1>21, <1>22, <1>23, <1>24, IdleFacts, CallKnows

\* A call that ends has nothing more to know.
LEMMA EndKnows ==
  ASSUME DiscoveryInv, InProgress, NEW result \in {"ok", "failed", "not_found"},
         job' = Ended(result), UNCHANGED <<backend, at, used>>,
         device_list' \in Seq(DeviceInfos), handle' \in Handles \cup {None}, OpenIsHonest'
  PROVE  DiscoveryInv'
<1> USE DEF DiscoveryInv
<1>1. job' \in Jobs /\ job'.step = "done"
  BY EndedFacts DEF WorldTypes
<1>2. WorldTypes'
  BY <1>1 DEF WorldTypes
<1>3. CallInv' /\ MacInv' /\ FoundInv' /\ MissInv' /\ PickInv'
  BY <1>1 DEF CallInv, MacInv, FoundInv, MissInv, PickInv, InProgress
<1> QED
  BY <1>2, <1>3

\* An enumeration that fails ends the call with an error.
LEMMA ListFailsKnows ==
  ASSUME DiscoveryInv, ListFails
  PROVE  DiscoveryInv'
<1>1. InProgress /\ job' = Ended("failed") /\ handle = None
      /\ UNCHANGED <<backend, at, used, device_list, handle>>
  BY DEF ListFails, InProgress, DiscoveryInv, CallInv
<1>2. job'.result = "failed"
  BY <1>1, EndedFacts DEF DiscoveryInv, WorldTypes
<1>3. OpenIsHonest'
  BY <1>1, <1>2 DEF OpenIsHonest
<1> QED
  BY <1>1, <1>3, EndKnows DEF DiscoveryInv, WorldTypes

\* A refresh ends with its list.
LEMMA EndRefreshKnows ==
  ASSUME DiscoveryInv, EndRefresh
  PROVE  DiscoveryInv'
<1>1. InProgress /\ job' = Ended("ok") /\ handle = None /\ job.call = "refresh"
      /\ UNCHANGED <<backend, at, used, handle>> /\ device_list' = job.found
  BY DEF EndRefresh, InProgress, DiscoveryInv, CallInv
<1>2. job'.call = "refresh"
  BY <1>1, EndedFacts DEF DiscoveryInv, WorldTypes
<1>3. OpenIsHonest'
  BY <1>1, <1>2 DEF OpenIsHonest
<1>4. job.found \in Seq(DeviceInfos)
  BY DEF DiscoveryInv, WorldTypes, Jobs
<1> QED
  BY <1>1, <1>3, <1>4, EndKnows DEF DiscoveryInv, WorldTypes

\* A visit adds what matches, and takes the path off the list.
LEMMA VisitKnows ==
  ASSUME DiscoveryInv, Visit
  PROVE  DiscoveryInv'
<1> USE DEF DiscoveryInv
<1>1. job \in Jobs /\ job.step = "scan" /\ job.todo # <<>> /\ InProgress /\ handle = None
      /\ UNCHANGED <<backend, at, used, device_list, handle>>
  BY DEF Visit, WorldTypes, InProgress, CallInv
<1>2. /\ job.todo \in Seq(Paths) /\ job.found \in Seq(DeviceInfos)
      /\ job.unread \in SUBSET Paths
  BY <1>1 DEF Jobs
<1> DEFINE p == Head(job.todo)
<1>3. p \in Paths /\ p = job.todo[1] /\ 1 \in DOMAIN job.todo /\ Tail(job.todo) \in Seq(Paths)
  BY <1>1, <1>2
<1>4. job.snapshot \in Maps /\ job.snapshot[p] # None
  BY <1>1, <1>3 DEF CallInv, FoundInv
<1>5. PICK entries \in Infos(p) :
        job' = [job EXCEPT !.todo = Tail(@),
                          !.unread = IF Identified(entries, p) THEN @ ELSE @ \cup {p},
                          !.found = @ \o Wanted(entries, job.ask)]
  BY DEF Visit
<1> DEFINE unread == IF Identified(entries, p) THEN job.unread ELSE job.unread \cup {p}
           wanted == Wanted(entries, job.ask)
           found == job.found \o wanted
<1>6. job' = Visited(Tail(job.todo), unread, found)
  BY <1>5 DEF Visited
<1>7. /\ entries \in Seq(DeviceInfos)
      /\ entries # <<>> => VisitedAt(p) \in Devices /\ EntriesOf(entries, p, VisitedAt(p))
  BY <1>3, <1>4, <1>1, VisitFacts DEF CallInv
<1>8. /\ wanted \in Seq(DeviceInfos)
      /\ wanted # <<>> => wanted = entries /\ Matches(entries[1], job.ask.vid, job.ask.pid)
      /\ (entries # <<>> /\ Matches(entries[1], job.ask.vid, job.ask.pid)) => wanted = entries
  BY <1>7 DEF Wanted
<1>9. unread \in SUBSET Paths
  BY <1>2, <1>3
<1> HIDE DEF p, unread, wanted
<1>10. found \in Seq(DeviceInfos)
  BY <1>2, <1>8
<1>11. /\ Len(found) = Len(job.found) + Len(wanted)
       /\ \A n \in DOMAIN job.found : n \in DOMAIN found /\ found[n] = job.found[n]
       /\ \A n \in DOMAIN found :
            n \in DOMAIN job.found
            \/ (n - Len(job.found) \in DOMAIN wanted /\ found[n] = wanted[n - Len(job.found)])
       /\ wanted # <<>> => /\ Len(job.found) + 1 \in DOMAIN found
                           /\ found[Len(job.found) + 1] = wanted[1]
  BY <1>2, <1>8
<1> HIDE DEF found
<1>12. /\ job' \in Jobs
       /\ job'.todo = Tail(job.todo) /\ job'.unread = unread /\ job'.found = found
       /\ job'.call = job.call /\ job'.ask = job.ask /\ job'.step = job.step
       /\ job'.snapshot = job.snapshot /\ job'.changed = job.changed
       /\ job'.result = job.result
  BY <1>1, <1>3, <1>6, <1>9, <1>10, VisitedFacts
<1>13. WorldTypes'
  BY <1>1, <1>12 DEF WorldTypes
<1>14. CallInv' /\ MacInv'
  BY <1>1, <1>12 DEF CallInv, MacInv, InProgress
<1>15. PickInv' /\ OpenIsHonest'
  BY <1>1, <1>12 DEF PickInv, OpenIsHonest, CallInv
<1>16. \A n \in DOMAIN Tail(job.todo) :
         n + 1 \in DOMAIN job.todo /\ Tail(job.todo)[n] = job.todo[n + 1]
  BY <1>1, <1>2
<1>17. \A n \in DOMAIN job.todo : n # 1 =>
         n - 1 \in DOMAIN Tail(job.todo) /\ Tail(job.todo)[n - 1] = job.todo[n]
  BY <1>1, <1>2
<1>18. p \notin job.changed => at[p] = job.snapshot[p]
  BY <1>1, <1>3 DEF CallInv
<1>19. ASSUME wanted # <<>>, NEW m \in DOMAIN wanted
       PROVE  /\ wanted[m].path = p
              /\ Matches(wanted[m], job.ask.vid, job.ask.pid)
              /\ MayHaveChanged(p) \/ TrueOf(wanted[m], job.snapshot[p])
  <2>1. wanted = entries /\ EntriesOf(entries, p, VisitedAt(p))
        /\ Matches(entries[1], job.ask.vid, job.ask.pid)
    BY <1>7, <1>8, <1>19
  <2>2. /\ wanted[m].path = p /\ TrueOf(wanted[m], VisitedAt(p))
        /\ Matches(wanted[m], job.ask.vid, job.ask.pid)
    BY <2>1 DEF EntriesOf, Matches
  <2>3. MayHaveChanged(p) \/ VisitedAt(p) = job.snapshot[p]
    BY <1>18 DEF VisitedAt, MayHaveChanged
  <2> QED
    BY <2>2, <2>3
<1>20. FoundInv'
  <2>1. \A n \in DOMAIN job'.todo : job'.snapshot[job'.todo[n]] # None
    BY <1>1, <1>12, <1>16 DEF FoundInv
  <2>2. ASSUME NEW n \in DOMAIN found
        PROVE  /\ job.snapshot[found[n].path] # None
               /\ Matches(found[n], job.ask.vid, job.ask.pid)
               /\ MayHaveChanged(found[n].path)
                  \/ TrueOf(found[n], job.snapshot[found[n].path])
    <3>1. CASE n \in DOMAIN job.found
      BY <1>1, <1>11, <3>1 DEF FoundInv
    <3>2. CASE n \notin DOMAIN job.found
      <4>1. n - Len(job.found) \in DOMAIN wanted /\ found[n] = wanted[n - Len(job.found)]
        BY <1>11, <3>2
      <4>2. wanted # <<>>
        BY <4>1, <1>8
      <4> QED
        BY <4>1, <4>2, <1>19, <1>4
    <3> QED
      BY <3>1, <3>2
  <2>3. \A q : MayHaveChanged(q)' = MayHaveChanged(q)
    BY <1>1, <1>12 DEF MayHaveChanged
  <2> QED
    BY <1>12, <2>1, <2>2, <2>3 DEF FoundInv
<1>21. MissInv'
  <2> SUFFICES ASSUME job.call = "open", NEW q \in Paths \ (job.changed \cup unread),
                      job.snapshot[q] # None, Fits(job.snapshot[q], job.ask)
               PROVE  (\E n \in DOMAIN Tail(job.todo) : Tail(job.todo)[n] = q) \/ Found' # {}
    BY <1>12 DEF MissInv
  <2>1. q \notin job.unread /\ (q = p => Identified(entries, p))
    BY DEF unread
  <2>2. (\E n \in DOMAIN job.todo : job.todo[n] = q) \/ Found # {}
    BY <1>1, <2>1 DEF MissInv
  <2>3. CASE Found # {}
    <3>1. PICK n \in DOMAIN job.found :
            job.ask.serial = None \/ job.found[n].serial = job.ask.serial
      BY <2>3 DEF Found
    <3>2. n \in Found'
      BY <3>1, <1>11, <1>12 DEF Found
    <3> QED
      BY <3>2
  <2>4. CASE q # p /\ \E n \in DOMAIN job.todo : job.todo[n] = q
    BY <1>3, <1>17, <2>4
  <2>5. CASE q = p
    <3>1. at[p] = job.snapshot[p] /\ Identified(entries, p)
      BY <1>18, <2>1, <2>5
    <3>2. /\ entries # <<>>
          /\ entries[1].vid = at[p].vid /\ entries[1].pid = at[p].pid
          /\ entries[1].serial = at[p].serial
      BY <1>4, <3>1 DEF Identified
    <3>3. Matches(entries[1], job.ask.vid, job.ask.pid)
      BY <2>5, <3>1, <3>2 DEF Fits, Matches
    <3>4. wanted = entries /\ wanted # <<>>
      BY <1>8, <3>2, <3>3
    <3>5. Len(job.found) + 1 \in Found'
      BY <1>11, <1>12, <2>5, <3>1, <3>2, <3>4 DEF Found, Fits
    <3> QED
      BY <3>5
  <2> QED
    BY <2>2, <2>3, <2>4, <2>5
<1> QED
  BY <1>13, <1>14, <1>15, <1>20, <1>21

\* `open` chooses among what it has found, or says that there is nothing.
LEMMA FindKnows ==
  ASSUME DiscoveryInv, Find
  PROVE  DiscoveryInv'
<1> USE DEF DiscoveryInv
<1>1. /\ job \in Jobs /\ job.step = "scan" /\ InProgress /\ handle = None /\ job.todo = <<>>
      /\ job.call = "open" /\ UNCHANGED <<backend, at, used, device_list, handle>>
  BY DEF Find, WorldTypes, InProgress, CallInv
<1>2. CASE Found = {} /\ job' = Ended("not_found")
  <2>1. /\ job'.result = "not_found" /\ job'.call = job.call /\ job'.ask = job.ask
        /\ job'.snapshot = job.snapshot /\ job'.changed = job.changed
        /\ job'.unread = job.unread
    BY <1>1, <1>2, EndedFacts
  <2>2. \A p \in Paths \ (job.changed \cup job.unread) :
          job.snapshot[p] # None => ~Fits(job.snapshot[p], job.ask)
    BY <1>1, <1>2 DEF MissInv
  <2>3. OpenIsHonest'
    BY <1>1, <2>1, <2>2 DEF OpenIsHonest
  <2> QED
    BY <1>1, <1>2, <2>3, EndKnows DEF WorldTypes
<1>3. ASSUME NEW n \in Found, job' = [job EXCEPT !.step = "opening", !.path = job.found[n].path]
      PROVE  DiscoveryInv'
  <2> DEFINE path == job.found[n].path
  <2>1. n \in DOMAIN job.found /\ job.found \in Seq(DeviceInfos)
        /\ (job.ask.serial = None \/ job.found[n].serial = job.ask.serial)
    BY <1>1 DEF Found, Jobs
  <2>2. path \in Paths
    <3>1. job.found[n] \in DeviceInfos
      BY <2>1
    <3> QED
      BY <3>1 DEF DeviceInfos
  <2>3. /\ job.snapshot[path] # None
        /\ Matches(job.found[n], job.ask.vid, job.ask.pid)
        /\ MayHaveChanged(path) \/ TrueOf(job.found[n], job.snapshot[path])
    BY <1>1, <2>1 DEF FoundInv
  <2>4. MayHaveChanged(path) \/ Fits(job.snapshot[path], job.ask)
    <3> DEFINE d == job.snapshot[path]
    <3> SUFFICES ASSUME TrueOf(job.found[n], d) PROVE Fits(d, job.ask)
      BY <2>3
    <3>1. Matches(d, job.ask.vid, job.ask.pid)
      BY <2>3, FilterIsHonest
    <3>2. job.ask.serial = None \/ d.serial = job.ask.serial
      BY <2>1 DEF TrueOf
    <3> QED
      BY <3>1, <3>2 DEF Fits
  <2>5. job' = Chosen(path)
    BY <1>3 DEF Chosen
  <2> HIDE DEF path
  <2>6. /\ job' \in Jobs
        /\ job'.step = "opening" /\ job'.path = path
        /\ job'.call = job.call /\ job'.ask = job.ask
        /\ job'.snapshot = job.snapshot /\ job'.changed = job.changed
        /\ job'.result = job.result
    BY <1>1, <2>2, <2>5, ChosenFacts
  <2>7. WorldTypes' /\ FoundInv' /\ MissInv'
    BY <1>1, <2>6 DEF WorldTypes, FoundInv, MissInv
  <2>8. CallInv' /\ MacInv'
    BY <1>1, <2>2, <2>6 DEF CallInv, MacInv, InProgress
  <2>9. PickInv'
    BY <1>1, <2>3, <2>4, <2>6 DEF PickInv, MayHaveChanged
  <2>10. OpenIsHonest'
    BY <1>1, <2>6 DEF OpenIsHonest, CallInv
  <2> QED
    BY <2>7, <2>8, <2>9, <2>10
<1> QED
  BY <1>2, <1>3 DEF Find

\* Opening may fail.
LEMMA FailKnows ==
  ASSUME DiscoveryInv, InProgress, job' = Ended("failed"),
         UNCHANGED <<backend, at, used, device_list, handle>>
  PROVE  DiscoveryInv'
<1>1. job \in Jobs /\ handle = None /\ device_list \in Seq(DeviceInfos)
  BY DEF DiscoveryInv, WorldTypes, CallInv
<1>2. job'.result = "failed"
  BY <1>1, EndedFacts
<1>3. OpenIsHonest'
  BY <1>1, <1>2 DEF OpenIsHonest
<1> QED
  BY <1>1, <1>3, EndKnows

\* A device that is not found where it was chosen has gone since the call began.
LEMMA GoneKnows ==
  ASSUME DiscoveryInv, job.step = "opening", at[job.path] = None, job' = Ended("not_found"),
         UNCHANGED <<backend, at, used, device_list, handle>>
  PROVE  DiscoveryInv'
<1>1. /\ job \in Jobs /\ InProgress /\ handle = None /\ job.path \in Paths
      /\ device_list \in Seq(DeviceInfos)
  BY DEF DiscoveryInv, WorldTypes, InProgress, CallInv
<1>2. /\ job'.result = "not_found" /\ job'.call = job.call
      /\ job'.changed = job.changed /\ job'.path = job.path
  BY <1>1, EndedFacts
<1>3. job.call = "open" => job.path \in job.changed
  BY <1>1 DEF DiscoveryInv, PickInv, CallInv
<1>4. OpenIsHonest'
  BY <1>1, <1>2, <1>3 DEF OpenIsHonest
<1> QED
  BY <1>1, <1>4, EndKnows

\* The second listing knows the device that is at the path, or there is none.
LEMMA ListNodeKnows ==
  ASSUME DiscoveryInv, ListNode
  PROVE  DiscoveryInv'
<1> USE DEF DiscoveryInv
<1>1. /\ job \in Jobs /\ job.step = "opening" /\ InProgress /\ handle = None
      /\ job.path \in Paths /\ UNCHANGED <<backend, at, used, device_list, handle>>
  BY DEF ListNode, WorldTypes, InProgress, CallInv
<1>2. CASE job' = Ended("failed")
  BY <1>1, <1>2, FailKnows
<1>3. CASE at[job.path] = None /\ job' = Ended("not_found")
  BY <1>1, <1>3, GoneKnows
<1>4. CASE at[job.path] # None /\ job' = [job EXCEPT !.step = "listed", !.listed = at[job.path]]
  <2>1. at[job.path] \in Devices
    BY <1>1, <1>4 DEF WorldTypes, Maps
  <2>2. job' = Listed
    BY <1>4 DEF Listed
  <2>3. /\ job' \in Jobs
        /\ job'.step = "listed" /\ job'.listed = at[job.path]
        /\ job'.path = job.path /\ job'.call = job.call /\ job'.ask = job.ask
        /\ job'.snapshot = job.snapshot /\ job'.changed = job.changed
        /\ job'.result = job.result
    BY <1>1, <2>1, <2>2, ListedFacts
  <2>4. WorldTypes' /\ FoundInv' /\ MissInv'
    BY <1>1, <2>3 DEF WorldTypes, FoundInv, MissInv
  <2>5. CallInv' /\ MacInv'
    BY <1>1, <2>1, <2>3 DEF CallInv, MacInv, InProgress
  <2>6. PickInv'
    BY <1>1, <2>3 DEF PickInv, MayHaveChanged
  <2>7. OpenIsHonest'
    BY <1>1, <2>3 DEF OpenIsHonest, CallInv
  <2> QED
    BY <2>4, <2>5, <2>6, <2>7
<1> QED
  BY <1>2, <1>3, <1>4 DEF ListNode

\* Opening gets hold of the device that is at the path, or fails.
LEMMA OpenNodeKnows ==
  ASSUME DiscoveryInv, OpenNode
  PROVE  DiscoveryInv'
<1> USE DEF DiscoveryInv
<1>1. /\ job \in Jobs /\ job.step = (IF backend = "nusb" THEN "listed" ELSE "opening")
      /\ InProgress /\ handle = None
      /\ job.path \in Paths /\ UNCHANGED <<backend, at, used, device_list, handle>>
  BY DEF OpenNode, WorldTypes, InProgress, CallInv
<1>2. CASE job' = Ended("failed")
  BY <1>1, <1>2, FailKnows
<1>3. CASE backend # "nusb" /\ at[job.path] = None /\ job' = Ended("not_found")
  BY <1>1, <1>3, GoneKnows
<1>4. ASSUME at[job.path] # None, NEW mode \in Modes,
             job' = [job EXCEPT !.step = "describing", !.held = at[job.path], !.mode = mode]
      PROVE  DiscoveryInv'
  <2>1. mode \in HandleModes /\ at[job.path] \in Devices
    BY <1>1, <1>4 DEF Modes, NusbModes, WinModes, HandleModes, WorldTypes, Maps
  <2>2. job' = Held(mode)
    BY <1>4 DEF Held
  <2>3. /\ job' \in Jobs
        /\ job'.step = "describing" /\ job'.held = at[job.path] /\ job'.mode = mode
        /\ job'.path = job.path /\ job'.call = job.call /\ job'.ask = job.ask
        /\ job'.snapshot = job.snapshot /\ job'.changed = job.changed
        /\ job'.result = job.result /\ job'.listed = job.listed
    BY <1>1, <2>1, <2>2, HeldFacts
  <2>4. WorldTypes' /\ FoundInv' /\ MissInv'
    BY <1>1, <2>3 DEF WorldTypes, FoundInv, MissInv
  <2>5. CallInv' /\ MacInv'
    BY <1>1, <2>1, <2>3 DEF CallInv, MacInv, InProgress
  <2>6. job.call = "open" => MayHaveChanged(job.path) \/ Fits(at[job.path], job.ask)
    BY <1>1, <1>4 DEF PickInv, CallInv, MacInv, MayHaveChanged
  <2>7. PickInv'
    BY <1>1, <2>3, <2>6 DEF PickInv, MayHaveChanged
  <2>8. OpenIsHonest'
    BY <1>1, <2>3 DEF OpenIsHonest, CallInv
  <2> QED
    BY <2>4, <2>5, <2>7, <2>8
<1> QED
  BY <1>2, <1>3, <1>4 DEF OpenNode

\* What a handle is told of its device.
LEMMA DescribedFacts ==
  ASSUME DiscoveryInv, job.step = "describing", NEW info \in Described
  PROVE  /\ info \in DeviceInfos \cup {None}
         /\ (info # None /\ ~job.lost) =>
              TrueOf(info, job.held) \/ (backend = "nusb" /\ job.path \in job.changed)
<1> USE DEF DiscoveryInv
<1>1. /\ job.path \in Paths /\ job.held \in Devices /\ backend \in Backends
      /\ backend # "web" /\ (job.lost \/ at[job.path] = job.held)
  BY DEF CallInv, InProgress, WorldTypes
<1>2. backend \in {"hidraw", "nusb", "macos", "windows"}
  BY <1>1, DiscoveryAssumption DEF DiscoveryAssumption
<1>3. CASE backend = "hidraw"
  <2>1. at[job.path] # None => at[job.path] \in Devices
    BY <1>1 DEF WorldTypes, Maps
  <2>2. at[job.path] # None /\ info \in {Info(job.path, at[job.path]), None}
    BY <1>3 DEF Described, HidrawDescribed
  <2> QED
    BY <1>1, <2>1, <2>2, ReadingFacts
<1>4. CASE backend = "windows"
  <2>1. Anonymous(job.path) \in WinReadings(job.path, job.held)
    BY DEF WinReadings
  <2>2. info \in WinReadings(job.path, job.held)
    BY <1>4, <2>1 DEF Described, WinDescribed
  <2> QED
    BY <1>1, <2>2, ReadingFacts
<1>5. CASE backend = "nusb"
  <2>1. job.listed \in Devices /\ (job.path \in job.changed \/ job.held = job.listed)
    BY <1>5 DEF CallInv, InProgress
  <2>2. info = Info(job.path, job.listed)
    BY <1>5 DEF Described
  <2> QED
    BY <1>1, <1>5, <2>1, <2>2, ReadingFacts
<1>6. CASE backend = "macos"
  BY <1>1, <1>6, ReadingFacts DEF Described
<1> QED
  BY <1>2, <1>3, <1>4, <1>5, <1>6

\* The call ends with a handle for the device that it holds.
LEMMA DescribeKnows ==
  ASSUME DiscoveryInv, Describe
  PROVE  DiscoveryInv'
<1> USE DEF DiscoveryInv
<1>1. /\ job \in Jobs /\ job.step = "describing" /\ InProgress /\ handle = None
      /\ UNCHANGED <<backend, at, used, device_list>>
  BY DEF Describe, WorldTypes, InProgress, CallInv
<1>2. CASE job' = Ended("failed") /\ UNCHANGED handle
  <2>1. job'.result = "failed"
    BY <1>1, <1>2, EndedFacts
  <2>2. OpenIsHonest'
    BY <1>1, <1>2, <2>1 DEF OpenIsHonest
  <2> QED
    BY <1>1, <1>2, <2>2, EndKnows DEF WorldTypes
<1>3. ASSUME NEW info \in Described, job' = Ended("ok"),
             handle' = [device |-> job.held, path |-> job.path, mode |-> job.mode,
                        info |-> info, lost |-> job.lost]
      PROVE  DiscoveryInv'
  <2>1. /\ job'.call = job.call /\ job'.ask = job.ask /\ job'.result = "ok"
        /\ job'.changed = job.changed
    BY <1>1, <1>3, EndedFacts
  <2>2. /\ info \in DeviceInfos \cup {None}
        /\ (info # None /\ ~job.lost) =>
             TrueOf(info, job.held) \/ (backend = "nusb" /\ job.path \in job.changed)
    BY <1>1, DescribedFacts
  <2>3. /\ job.held \in Devices /\ job.path \in Paths /\ job.mode \in HandleModes
        /\ job.lost \in BOOLEAN
    BY <1>1 DEF CallInv, Jobs
  <2>4. handle' \in Handles
    BY <1>3, <2>2, <2>3 DEF Handles
  <2>5. /\ handle'.device = job.held /\ handle'.path = job.path
        /\ handle'.info = info /\ handle'.lost = job.lost
    BY <1>3
  <2>6. job.call = "open" => Fits(job.held, job.ask) \/ MayHaveChanged(job.path)
    BY <1>1 DEF PickInv
  <2>7. OpenIsHonest'
    BY <1>1, <2>1, <2>2, <2>5, <2>6 DEF OpenIsHonest, MayHaveChanged
  <2> QED
    BY <1>1, <1>3, <2>4, <2>7, EndKnows DEF WorldTypes
<1> QED
  BY <1>2, <1>3 DEF Describe

\* The browser's prompt gives a handle.
LEMMA GrantKnows ==
  ASSUME DiscoveryInv, NEW p \in Paths, Grant(p)
  PROVE  DiscoveryInv'
<1> USE DEF DiscoveryInv
<1>1. /\ backend = "web" /\ at[p] # None /\ ~InProgress /\ job.result = "none"
      /\ UNCHANGED <<backend, at, used, device_list, job>>
  BY DEF Grant, CallInv, InProgress
<1>2. at[p] \in Devices
  BY <1>1 DEF WorldTypes, Maps
<1> DEFINE info == WebInfo(p, at[p])
<1>3. info \in WinReadings(p, at[p])
  BY DEF WebInfo, WinReadings
<1>4. info \in DeviceInfos /\ TrueOf(info, at[p])
  BY <1>2, <1>3, ReadingFacts
<1>5. handle' = [device |-> at[p], path |-> p, mode |-> "full", info |-> info, lost |-> FALSE]
  BY DEF Grant
<1> HIDE DEF info
<1>6. handle' \in Handles
  BY <1>2, <1>4, <1>5 DEF Handles, HandleModes
<1>7. handle'.info = info /\ handle'.device = at[p]
  BY <1>5
<1>8. OpenIsHonest'
  BY <1>1, <1>4, <1>7 DEF OpenIsHonest
<1>9. WorldTypes'
  BY <1>1, <1>6 DEF WorldTypes
<1>10. CallInv' /\ MacInv' /\ FoundInv' /\ MissInv' /\ PickInv'
  BY <1>1 DEF CallInv, MacInv, FoundInv, MissInv, PickInv, InProgress
<1> QED
  BY <1>8, <1>9, <1>10

\* Every step of discovery.
LEMMA DiscoveryKnows ==
  DiscoveryInv /\ DiscoveryNext => DiscoveryInv'
<1> SUFFICES ASSUME DiscoveryInv, DiscoveryNext PROVE DiscoveryInv'
  OBVIOUS
<1>1. ASSUME NEW p \in Paths, NEW d \in Devices, Plug(p, d) PROVE DiscoveryInv'
  BY <1>1, PlugKnows
<1>2. ASSUME NEW p \in Paths, Unplug(p) PROVE DiscoveryInv'
  BY <1>2, UnplugKnows
<1>3. ASSUME NEW p \in Paths, OpenPath(p) PROVE DiscoveryInv'
  BY <1>3, OpenPathKnows
<1>4. ASSUME NEW p \in Paths, Grant(p) PROVE DiscoveryInv'
  BY <1>4, GrantKnows
<1>5. CASE Refresh
  BY <1>5, BeginScanKnows DEF Refresh
<1>6. ASSUME NEW ask \in Requests, Open(ask) PROVE DiscoveryInv'
  BY <1>6, BeginScanKnows DEF Open
<1>7. CASE ListFails \/ Visit \/ EndRefresh
  BY <1>7, ListFailsKnows, VisitKnows, EndRefreshKnows
<1>8. CASE Find \/ ListNode \/ OpenNode \/ Describe
  BY <1>8, FindKnows, ListNodeKnows, OpenNodeKnows, DescribeKnows
<1> QED
  BY <1>1, <1>2, <1>3, <1>4, <1>5, <1>6, <1>7, <1>8 DEF DiscoveryNext

\* The program that has its device forgets how it found it.
LEMMA ForgetKnows ==
  ASSUME DiscoveryInv, handle # None, job' = Idle, device_list' = <<>>,
         UNCHANGED <<backend, at, used, handle>>
  PROVE  DiscoveryInv'
<1> USE DEF DiscoveryInv
<1>1. /\ job' \in Jobs /\ job'.step = "idle" /\ job'.call = "none" /\ job'.result = "none"
  BY IdleFacts
<1>2. WorldTypes'
  BY <1>1 DEF WorldTypes
<1>3. CallInv' /\ MacInv' /\ FoundInv' /\ MissInv' /\ PickInv'
  BY <1>1 DEF CallInv, MacInv, FoundInv, MissInv, PickInv, InProgress
<1>4. OpenIsHonest'
  BY <1>1 DEF OpenIsHonest
<1> QED
  BY <1>2, <1>3, <1>4
=============================================================================
