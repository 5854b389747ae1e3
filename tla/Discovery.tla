------------------------------- MODULE Discovery -------------------------------
(***************************************************************************)
(* Enumerating and opening devices: Hidra of src/lib.rs, HidBackend::open  *)
(* of src/backend/mod.rs and the enumerate and open_path of the backends,  *)
(* while devices come and go.  An enumeration is not one look at the       *)
(* world: it lists the paths and then visits them one by one; `open`       *)
(* enumerates, picks a path and only then opens it.                        *)
(***************************************************************************)
EXTENDS Integers, Sequences, FiniteSets

CONSTANTS
  Backends,   \* a subset of {"hidraw", "nusb", "macos", "windows", "web"}
  Devices,    \* records [vid, pid, serial, usages, ...]; serial may be None
  Paths,      \* a set of numbers, in the order of the paths' names
  Requests,   \* what open is asked for: [vid, pid, serial]
  MaxEvents,  \* bound, for each backend: devices plugged in and calls made
  None

VARIABLES
  backend,      \* the B of Hidra<B>, or the browser
  at,           \* the device at each path, or None
  used,         \* macOS: registry entry IDs that have had a device
  events,       \* counter of the bound
  device_list,  \* Hidra::device_list
  job,           \* the call in progress, or the latest
  handle        \* the HidDevice opened, or None

world == <<backend, at, used, device_list, handle>>
discovery == <<world, job, events>>

Wildcard == [vid |-> 0, pid |-> 0, serial |-> None]

DeviceInfos ==
  [path : Paths, vid : Nat, pid : Nat, serial : {d.serial : d \in Devices} \cup {None},
   usage : Nat \cup {None}]

HandleModes == {"full", "no_out", "control", "no_access"}

Handles ==
  [device : Devices, path : Paths, mode : HandleModes,
   info : DeviceInfos \cup {None}, lost : BOOLEAN]

ASSUME DiscoveryAssumption ==
  /\ Backends \subseteq {"hidraw", "nusb", "macos", "windows", "web"}
  /\ Paths \subseteq Nat /\ IsFiniteSet(Paths)
  /\ \A d \in Devices : d.vid \in Nat /\ d.pid \in Nat /\ d.usages \in Seq(Nat)
  /\ None \notin Devices /\ None \notin Paths /\ None \notin Handles

\* step: idle, scan, opening, listed, describing or done.  snapshot, changed, lost
\* and held are about the world, the rest are locals of the call:
\*   snapshot  what was where when the call began
\*   changed   paths plugged or unplugged since
\*   unread    paths whose device could not be identified
\*   listed    nusb: the device that open_path found in its own list
\*   held      the device that was opened, and mode how
\*   lost      it has been unplugged since
Idle ==
  [call |-> "none", ask |-> Wildcard, step |-> "idle", snapshot |-> <<>>,
   changed |-> {}, unread |-> {}, todo |-> <<>>, found |-> <<>>, path |-> None, listed |-> None,
   held |-> None, mode |-> "none", lost |-> FALSE, result |-> "none"]

DiscoveryInit ==
  /\ backend \in Backends
  /\ at = [p \in Paths |-> None]
  /\ used = {}
  /\ events = 0
  /\ device_list = <<>>
  /\ job = Idle
  /\ handle = None

InProgress == job.step \notin {"idle", "done"}

-----------------------------------------------------------------------------
(* The world.                                                              *)

Moved(p) ==
  IF InProgress
  THEN [job EXCEPT !.changed = @ \cup {p},
                  !.lost = @ \/ (job.step = "describing" /\ p = job.path)]
  ELSE job

\* Node numbers, addresses and interface paths are used again; the entry IDs
\* of the IORegistry, which are macOS's paths, are not.
Plug(p, d) ==
  /\ handle = None /\ events < MaxEvents[backend]
  /\ at[p] = None /\ \A q \in Paths : at[q] # d
  /\ p \notin used
  /\ at' = [at EXCEPT ![p] = d]
  /\ used' = IF backend = "macos" THEN used \cup {p} ELSE used
  /\ events' = events + 1
  /\ job' = Moved(p)
  /\ UNCHANGED <<backend, device_list, handle>>

Unplug(p) ==
  /\ at[p] # None
  /\ handle # None => p = handle.path /\ ~handle.lost
  /\ at' = [at EXCEPT ![p] = None]
  /\ job' = Moved(p)
  /\ handle' = IF handle = None THEN None ELSE [handle EXCEPT !.lost = TRUE]
  /\ UNCHANGED <<backend, used, events, device_list>>

-----------------------------------------------------------------------------
(* Entries.                                                                *)

\* DeviceInfo::matches
Matches(info, vid, pid) ==
  (vid = 0 \/ info.vid = vid) /\ (pid = 0 \/ info.pid = pid)

Info(p, d) ==
  [path |-> p, vid |-> d.vid, pid |-> d.pid, serial |-> d.serial, usage |-> None]

\* An entry of a device that has said nothing of itself.
Anonymous(p) ==
  [path |-> p, vid |-> 0, pid |-> 0, serial |-> None, usage |-> None]

\* DeviceInfo::per_usage: one entry for each usage, one without any if none.
PerUsage(info, usages) ==
  IF usages = <<>> THEN <<info>>
  ELSE [n \in DOMAIN usages |-> [info EXCEPT !.usage = usages[n]]]

\* device_infos of hidraw, what a node says of itself in sysfs now: nothing, or
\* its identity from the uevent, and no usages if its descriptor cannot be read.
HidrawInfos(p) ==
  {<<>>} \cup
  (IF at[p] = None THEN {}
   ELSE {PerUsage(Info(p, at[p]), usages) : usages \in {<<>>, at[p].usages}})

\* nusb: the identity came with the list, the usages are asked of the device that
\* has the address now, if there is one and it can be opened.
NusbUsages(p) == {<<>>} \cup (IF at[p] = None THEN {} ELSE {at[p].usages})

NusbInfos(p) == {PerUsage(Info(p, job.snapshot[p]), usages) : usages \in NusbUsages(p)}

\* macOS: the properties of the IOHIDDeviceRef, which the copied set holds.
MacInfos(p) == {PerUsage(Info(p, job.snapshot[p]), job.snapshot[p].usages)}

\* query_device_info: Windows asks for the attributes, each string and the usage
\* apart, and goes on without what it does not get; a device that does not give
\* its attributes is taken to give no string.
WinReadings(p, d) ==
  {Info(p, d), [Info(p, d) EXCEPT !.serial = None], Anonymous(p)}

\* A path for each usage, opened without access; one that cannot be is left out.
WinInfos(p) ==
  {<<>>} \cup
  (IF at[p] = None THEN {}
   ELSE {PerUsage(info, usages) :
           info \in WinReadings(p, at[p]),
           usages \in {<<>>} \cup {<<at[p].usages[n]>> : n \in DOMAIN at[p].usages}})

\* What a visit to path p may find.
Infos(p) ==
  CASE backend = "hidraw"  -> HidrawInfos(p)
    [] backend = "nusb"    -> NusbInfos(p)
    [] backend = "macos"   -> MacInfos(p)
    [] backend = "windows" -> WinInfos(p)

\* The entries tell which device is at the path.
Identified(entries, p) ==
  \/ at[p] = None
  \/ /\ entries # <<>>
     /\ entries[1].vid = at[p].vid /\ entries[1].pid = at[p].pid
     /\ entries[1].serial = at[p].serial

\* The filter of enumerate: the entries of one path differ in their usage only.
Wanted(entries, ask) ==
  IF entries # <<>> /\ Matches(entries[1], ask.vid, ask.pid) THEN entries ELSE <<>>

-----------------------------------------------------------------------------
(* enumerate.                                                              *)

\* hidraw sorts the names of its nodes; elsewhere the system sets the order.
Orders(paths) ==
  {todo \in [1..Cardinality(paths) -> paths] :
     /\ \A p \in paths : \E n \in DOMAIN todo : todo[n] = p
     /\ backend = "hidraw" =>
          \A m, n \in DOMAIN todo : m < n => todo[m] < todo[n]}

\* open takes the enumeration's filter from its request; refresh_devices and
\* HidraBuilder::build list everything.
BeginScan(call, ask) ==
  /\ backend # "web" /\ handle = None /\ ~InProgress /\ events < MaxEvents[backend]
  /\ events' = events + 1
  /\ \E todo \in Orders({p \in Paths : at[p] # None}) :
       job' = [Idle EXCEPT !.call = call, !.ask = ask, !.step = "scan",
                           !.snapshot = at, !.todo = todo]
  /\ UNCHANGED <<backend, at, used, device_list, handle>>

Refresh == BeginScan("refresh", Wildcard)
Open(ask) == BeginScan("open", ask)

Ended(result) == [job EXCEPT !.step = "done", !.result = result]

\* The system refuses to list, on Windows even half way: the cached list stays
\* as it was.
ListFails ==
  /\ job.step = "scan"
  /\ backend # "windows" =>
       Len(job.todo) = Cardinality({p \in Paths : job.snapshot[p] # None})
  /\ job' = Ended("failed")
  /\ UNCHANGED <<backend, at, used, events, device_list, handle>>

Visit ==
  /\ job.step = "scan" /\ job.todo # <<>>
  /\ \E entries \in Infos(Head(job.todo)) :
       job' = [job EXCEPT !.todo = Tail(@),
                         !.unread = IF Identified(entries, Head(job.todo))
                                    THEN @ ELSE @ \cup {Head(job.todo)},
                         !.found = @ \o Wanted(entries, job.ask)]
  /\ UNCHANGED <<backend, at, used, events, device_list, handle>>

EndRefresh ==
  /\ job.step = "scan" /\ job.todo = <<>> /\ job.call = "refresh"
  /\ device_list' = job.found
  /\ job' = Ended("ok")
  /\ UNCHANGED <<backend, at, used, events, handle>>

\* Mutant: the serial number is not looked at.
FoundAnySerial == DOMAIN job.found

\* The entries `find` would stop at.
Found ==
  {n \in DOMAIN job.found :
     job.ask.serial = None \/ job.found[n].serial = job.ask.serial}

Find ==
  /\ job.step = "scan" /\ job.todo = <<>> /\ job.call = "open"
  /\ \/ Found = {} /\ job' = Ended("not_found")
     \/ \E n \in Found :
          /\ \A m \in Found : n <= m
          /\ job' = [job EXCEPT !.step = "opening", !.path = job.found[n].path]
  /\ UNCHANGED <<backend, at, used, events, device_list, handle>>

-----------------------------------------------------------------------------
(* open_path.                                                              *)

\* A path from the cached list, which may be an old one.
OpenPath(path) ==
  /\ backend # "web" /\ handle = None /\ ~InProgress /\ events < MaxEvents[backend]
  /\ \E n \in DOMAIN device_list : device_list[n].path = path
  /\ events' = events + 1
  /\ job' = [Idle EXCEPT !.call = "open_path", !.step = "opening",
                        !.snapshot = at, !.path = path]
  /\ UNCHANGED <<backend, at, used, device_list, handle>>

\* nusb: a refused claim leaves the control pipe; an interface may lack the
\* interrupt OUT endpoint.
NusbModes == {"full", "no_out", "control"}

\* Windows: an access that is denied is tried again without access.
WinModes == {"full", "no_access"}

\* How the open of a present device may go.
Modes ==
  CASE backend = "nusb" -> NusbModes
    [] backend = "windows" -> WinModes
    [] OTHER -> {"full"}

\* nusb lists the devices again and looks for the address.
ListNode ==
  /\ backend = "nusb" /\ job.step = "opening"
  /\ \/ job' = Ended("failed")
     \/ at[job.path] = None /\ job' = Ended("not_found")
     \/ /\ at[job.path] # None
        /\ job' = [job EXCEPT !.step = "listed", !.listed = at[job.path]]
  /\ UNCHANGED <<backend, at, used, events, device_list, handle>>

\* open(2), the IORegistry or CreateFileW: a device that has gone is not found, or
\* found and not opened.  nusb opens by the address of the device that it listed:
\* whatever has that address now, and it fails if nothing has.
OpenNode ==
  /\ job.step = IF backend = "nusb" THEN "listed" ELSE "opening"
  /\ \/ job' = Ended("failed")
     \/ backend # "nusb" /\ at[job.path] = None /\ job' = Ended("not_found")
     \/ /\ at[job.path] # None
        /\ \E mode \in Modes :
             job' = [job EXCEPT !.step = "describing", !.held = at[job.path],
                              !.mode = mode]
  /\ UNCHANGED <<backend, at, used, events, device_list, handle>>

\* What the handle then learns of its device.  hidraw looks it up in sysfs by
\* the number of the node, whatever has that number now, and keeps the first
\* entry if there is any.
HidrawDescribed ==
  IF at[job.path] = None THEN {} ELSE {Info(job.path, at[job.path]), None}

\* Windows asks the handle, which says nothing once the device has gone.
WinDescribed ==
  IF job.lost THEN {Anonymous(job.path)}
  ELSE WinReadings(job.path, job.held)

\* nusb keeps what its list said of the device it had found there, macOS asks the
\* device when it is asked.
Described ==
  CASE backend = "hidraw" -> HidrawDescribed
    [] backend = "windows" -> WinDescribed
    [] backend = "nusb" -> {Info(job.path, job.listed)}
    [] backend = "macos" -> {Info(job.path, job.held)}

\* The rest of open: input buffers, descriptor, endpoints, threads.  A failure
\* closes what was opened.
Describe ==
  /\ job.step = "describing"
  /\ \/ /\ job' = Ended("failed")
        /\ UNCHANGED handle
     \/ /\ \E info \in Described :
             handle' = [device |-> job.held, path |-> job.path, mode |-> job.mode,
                        info |-> info, lost |-> job.lost]
        /\ job' = Ended("ok")
  /\ UNCHANGED <<backend, at, used, events, device_list>>

\* The browser tells no serial number.
WebInfo(p, d) == [Info(p, d) EXCEPT !.serial = None]

\* The browser gives a device object the user has granted; it is opened by a
\* call of its own.
Grant(p) ==
  /\ backend = "web" /\ handle = None /\ at[p] # None
  /\ handle' = [device |-> at[p], path |-> p, mode |-> "full",
                info |-> WebInfo(p, at[p]), lost |-> FALSE]
  /\ UNCHANGED <<backend, at, used, events, device_list, job>>

DiscoveryNext ==
  \/ \E p \in Paths, d \in Devices : Plug(p, d)
  \/ \E p \in Paths : Unplug(p) \/ OpenPath(p) \/ Grant(p)
  \/ Refresh
  \/ \E ask \in Requests : Open(ask)
  \/ ListFails \/ Visit \/ EndRefresh \/ Find
  \/ ListNode \/ OpenNode \/ Describe

-----------------------------------------------------------------------------
(* Properties.                                                             *)

Fits(d, ask) ==
  /\ Matches(d, ask.vid, ask.pid)
  /\ ask.serial = None \/ d.serial = ask.serial

\* What an entry may say of the device d: the truth, or less.
TrueOf(info, d) ==
  /\ info.serial \in {d.serial, None}
  /\ <<info.vid, info.pid>> \in {<<d.vid, d.pid>>, <<0, 0>>}

\* `open` enumerates, picks a path and opens the path, none of it atomic.  What
\* it opens is a device that was asked for unless the path changed hands
\* meanwhile, which it cannot on macOS; it says DeviceNotFound only when the
\* device that it chose has gone (others like it are not tried) or no device
\* that was asked for, and could be identified, stayed where it was throughout
\* the call; and the handle's metadata is its own device's, or none, as long as
\* that device is there.  On nusb, where the metadata is older than the handle,
\* that too is only so if the path did not change hands during the call that
\* opened it (a call the program has forgotten says nothing).
OpenIsHonest ==
  /\ (job.call = "open" /\ job.result = "ok") =>
       \/ Fits(handle.device, job.ask)
       \/ backend # "macos" /\ handle.path \in job.changed
  /\ (job.call = "open" /\ job.result = "not_found") =>
       \/ job.path \in job.changed
       \/ \A p \in Paths \ (job.changed \cup job.unread) :
            job.snapshot[p] # None => ~Fits(job.snapshot[p], job.ask)
  /\ (handle # None /\ ~handle.lost /\ handle.info # None) =>
       \/ TrueOf(handle.info, handle.device)
       \/ backend = "nusb" /\ (job.step = "idle" \/ handle.path \in job.changed)
=============================================================================
