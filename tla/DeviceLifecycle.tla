-------------------------- MODULE DeviceLifecycle --------------------------
(***************************************************************************)
(* The life of devices (chan_dongle.c): the discovery thread makes a       *)
(* device for each modem that is plugged in, and starts, stops, restarts   *)
(* and removes devices as their desired state says; each started device    *)
(* has a monitor thread; operators ask for states, now or when the device  *)
(* serves nobody; the module may be unloaded.                              *)
(*                                                                         *)
(* The threads share the fields of struct pvt, mostly without its lock.    *)
(* The lock is held by the discovery while it looks at a device and        *)
(* released while it joins the monitor; that other threads hold it for a   *)
(* while is seen only in a trylock that fails.  Operators take no lock:    *)
(* they find a device, write what it is to become, and write when.         *)
(***************************************************************************)
EXTENDS Integers, FiniteSets, SequencesExt

CONSTANTS
    Modem,          \* modems, each with a data tty of its own
    Pvt,            \* devices
    Service,        \* what devices do: a subset of {"call", "sms", "ussd"}
    Operator,       \* threads that ask for states of devices
    MaxRequests,    \* bound: requests of operators
    MaxUnplugs,     \* bound: times a modem is pulled out
    None

ASSUME LifecycleAssumption ==
    /\ IsFiniteSet(Modem) /\ Modem # {}
    /\ IsFiniteSet(Pvt)
    /\ Service \subseteq {"call", "sms", "ussd"}
    /\ MaxRequests \in Nat
    /\ MaxUnplugs \in Nat
    /\ None \notin Pvt

VARIABLES
    plugged,            \* the modems the kernel shows
    usbdevs,            \* the table of modems the discovery knows of
    devices,            \* gpublic->devices
    pvt,                \* the fields of each device
    lockfile,           \* whose open tty the lock file of a tty names
    discovery,          \* the thread: where it is, what it has left to do
    unload,             \* public_state_fini: where it is
    operator,           \* each operator's thread: where it is in a request
    wish,               \* what the last request for each device was: to start it
                        \* or restart it until that is done, to stop or remove it
                        \* for as long as there is the device
    dismissed,          \* modems whose devices were to be stopped or removed
    hasty,              \* a request came before the one before it was done
    requests, unplugs   \* counted for the bounds

vars == <<plugged, usbdevs, devices, pvt, lockfile, discovery, unload, operator,
          wish, dismissed, hasty, requests, unplugs>>

dev_state_t    == {"stop", "restart", "remove", "start"}
restate_time_t == {"now", "gracefully", "convenient"}

NoWish == [event |-> "none", when |-> "convenient"]

Idle == [pc |-> "idle", on |-> None, when |-> "now"]

\* pvt_create, with the settings of usbdev_found.
pvt_create(m) ==
    [tty |-> m, desired |-> "start", current |-> "stop", when |-> "now",
     connected |-> FALSE, thread |-> "none", terminate |-> FALSE,
     must_remove |-> FALSE, fd |-> "closed", busy |-> {}, blocked |-> FALSE]

pvt_enabled(d) ==
    /\ d.current = "start"
    /\ d.desired = d.current \/ d.when = "convenient"

\* Mutant: what the device is doing is not looked at.
pvt_time4restate_any(d) == d.desired # d.current

pvt_time4restate(d) ==
    /\ d.desired # d.current
    /\ d.when = "now" \/ d.busy = {}

\* The unloading thread has taken discovery_lock and joins the discovery.
DiscoveryLocked == unload.pc = "joining"

\* pvt_try_restate: discovery_restart waits for discovery_lock (it wakes the
\* discovery, which also wakes by itself).
pvt_try_restate(d) ==
    IF pvt_time4restate(d)
    THEN [d EXCEPT !.when = "now", !.blocked = DiscoveryLocked]
    ELSE d

\* The operators, and what is known of their requests only to state what
\* becomes of them.
asked == <<operator, wish, dismissed, hasty, requests>>

Init ==
    /\ plugged \in SUBSET Modem
    /\ usbdevs = <<>>
    /\ devices = <<>>
    /\ pvt = [p \in Pvt |-> pvt_create(CHOOSE m \in Modem : TRUE)]
    /\ lockfile = [m \in Modem |-> None]
    /\ discovery = [pc |-> "asleep", todo |-> <<>>, doing |-> "start"]
    /\ unload = [pc |-> "loaded", on |-> None]
    /\ operator = [o \in Operator |-> Idle]
    /\ wish = [p \in Pvt |-> NoWish]
    /\ dismissed = {}
    /\ hasty = FALSE
    /\ requests = 0
    /\ unplugs = 0

Listed(p) == Contains(devices, p)
-----------------------------------------------------------------------------
(* The world.                                                              *)

\* A tty that is open when its modem goes is hung up.
Unplug(m) ==
    /\ m \in plugged
    /\ unplugs < MaxUnplugs
    /\ plugged' = plugged \ {m}
    /\ pvt' = [p \in Pvt |->
                  IF pvt[p].tty = m /\ pvt[p].fd = "open"
                  THEN [pvt[p] EXCEPT !.fd = "hung"] ELSE pvt[p]]
    /\ unplugs' = unplugs + 1
    /\ UNCHANGED <<usbdevs, devices, lockfile, discovery, unload, asked>>

Plug(m) ==
    /\ m \notin plugged
    /\ plugged' = plugged \union {m}
    /\ UNCHANGED <<usbdevs, devices, pvt, lockfile, discovery, unload, asked, unplugs>>

\* A call, an SMS or an USSD request begins: each asks for pvt_enabled.
ServiceBegins(p, s) ==
    /\ Listed(p)
    /\ pvt[p].thread = "reading"
    /\ pvt_enabled(pvt[p])
    /\ s \notin pvt[p].busy
    /\ pvt' = [pvt EXCEPT ![p].busy = @ \union {s}]
    /\ UNCHANGED <<plugged, usbdevs, devices, lockfile, discovery, unload, asked, unplugs>>

\* Mutant: nobody looks at the pending request.
Served_only(d, s) == [d EXCEPT !.busy = @ \ {s}]

\* The monitor reads that it is over: cpvt_free, and the results of AT+CMGS
\* and AT+CMGR, try to restate; the results of AT+CUSD do not.
Served(d, s) ==
    LET e == [d EXCEPT !.busy = @ \ {s}]
    IN  IF s = "ussd" THEN e ELSE pvt_try_restate(e)

ServiceEnds(p, s) ==
    /\ pvt[p].thread = "reading" /\ ~pvt[p].blocked
    /\ s \in pvt[p].busy
    /\ pvt' = [pvt EXCEPT ![p] = Served(@, s)]
    /\ UNCHANGED <<plugged, usbdevs, devices, lockfile, discovery, unload, asked, unplugs>>

-----------------------------------------------------------------------------
(* An operator asks for a state: schedule_restart_event, without a lock.   *)

\* find_device finds connected devices only.
find_device(o, p) ==
    /\ operator[o] = Idle
    /\ unload.pc = "loaded"
    /\ requests < MaxRequests
    /\ Listed(p) /\ pvt[p].connected
    /\ operator' = [operator EXCEPT ![o] = [pc |-> "found", on |-> p, when |-> "now"]]
    /\ requests' = requests + 1
    /\ UNCHANGED <<plugged, usbdevs, devices, pvt, lockfile, discovery, unload,
                   wish, dismissed, hasty, unplugs>>

\* The first assignment: restart_time is that of the request before.
DesiredWritten(o, event, when) ==
    LET p == operator[o].on
    IN  /\ operator[o].pc = "found"
        /\ event = "start" => when = "now"
        /\ operator' = [operator EXCEPT ![o].pc = "writing", ![o].when = when]
        /\ pvt' = [pvt EXCEPT ![p].desired = event]
        /\ wish' = [wish EXCEPT ![p] = [event |-> event, when |-> when]]
        /\ dismissed' = IF event \in {"stop", "remove"}
                        THEN dismissed \union {pvt[p].tty} ELSE dismissed
        /\ hasty' = (hasty \/ pvt[p].desired # pvt[p].current)
        /\ UNCHANGED <<plugged, usbdevs, devices, lockfile, discovery, unload,
                       requests, unplugs>>

\* The second one, and pvt_try_restate, in which the operator may wait for
\* discovery_lock, but no monitor does.
RestartTimeWritten(o) ==
    LET p == operator[o].on
        d == [pvt[p] EXCEPT !.when = operator[o].when]
    IN  /\ operator[o].pc = "writing"
        /\ operator' = [operator EXCEPT ![o] = Idle]
        /\ pvt' = [pvt EXCEPT ![p] = [pvt_try_restate(d) EXCEPT !.blocked = d.blocked]]
        /\ wish' = [wish EXCEPT ![p].when = operator[o].when]
        /\ UNCHANGED <<plugged, usbdevs, devices, lockfile, discovery, unload,
                       dismissed, hasty, requests, unplugs>>

\* A request for a state of p is between its two assignments.
HalfWritten(p) == \E o \in Operator : operator[o].pc = "writing" /\ operator[o].on = p
-----------------------------------------------------------------------------
(* The discovery thread: do_discovery.                                     *)

\* usbdevs_find: the last entry takes the place of one that is gone, and is
\* not looked at in this round.
Swept(table) ==
    LET Upto[o \in 1 .. Len(table) + 1] ==
            IF o = 1 THEN table
            ELSE LET t == Upto[o - 1]
                 IN  IF o - 1 > Len(t) \/ t[o - 1] \in plugged THEN t
                     ELSE Front([t EXCEPT ![o - 1] = Last(t)])
    IN  Upto[Len(table) + 1]

Fresh == {p \in Pvt : ~Listed(p) /\ pvt[p].thread = "none"}

\* Mutant: the table is not searched.
Unknown_all(table) == plugged

Unknown(table) == plugged \ ToSet(table)

\* Mutant: the device is to start again when its modem is back.
usbdev_lost_restarts(d) == [d EXCEPT !.desired = "restart"]

usbdev_lost(d) == [d EXCEPT !.desired = "remove"]

\* usbdev_found makes a device, in memory of no other: which it is makes no
\* difference.
usbdevs_find ==
    LET swept == Swept(usbdevs)
        lost  == ToSet(usbdevs) \ ToSet(swept)
        found == SetToSeq(Unknown(swept))
        new   == SubSeq(SetToSeq(Fresh), 1, Len(found))
    IN  /\ Len(found) <= Cardinality(Fresh)
        /\ usbdevs' = swept \o found
        /\ devices' = devices \o new
        /\ pvt' = [p \in Pvt |->
              IF Listed(p) /\ pvt[p].tty \in lost
              THEN usbdev_lost(pvt[p])
              ELSE IF Contains(new, p)
                   THEN pvt_create(found[CHOOSE i \in DOMAIN new : new[i] = p])
                   ELSE pvt[p]]
        /\ dismissed' = dismissed \ ToSet(found)

\* A round begins, unless the module is being unloaded.
DiscoveryWakes ==
    /\ discovery.pc = "asleep"
    /\ unload.pc = "loaded"
    /\ usbdevs_find
    /\ discovery' = [discovery EXCEPT !.pc = "looking", !.todo = devices']
    /\ UNCHANGED <<plugged, lockfile, unload, operator, wish, hasty, requests, unplugs>>

\* lock_try: the lock file is that of an open tty.
lock_try(m) == lockfile[m] = None \/ pvt[lockfile[m]].fd # "open"

\* pvt_start behind pvt_stop: opentty and start_monitor, or nothing if the tty
\* is not in the table, locked, or gone.
Opens(d) == d.tty \in ToSet(usbdevs) /\ d.tty \in plugged /\ lock_try(d.tty)

pvt_start(d) ==
    IF Opens(d)
    THEN [d EXCEPT !.fd = "open", !.thread = "begun", !.connected = TRUE,
                   !.current = "start"]
    ELSE d

\* Mutant: the case of a device to be stopped falls through to pvt_start.
Switched_through(d, state) ==
    CASE state = "remove"  -> [d EXCEPT !.must_remove = TRUE]
      [] state = "stop"    -> pvt_start(d)
      [] state = "start"   -> pvt_start(d)
      [] state = "restart" -> pvt_start([d EXCEPT !.desired = "start"])

\* The switch of do_discovery behind pvt_stop.
Switched(d, state) ==
    CASE state = "remove"  -> [d EXCEPT !.must_remove = TRUE]
      [] state = "stop"    -> d
      [] state = "start"   -> pvt_start(d)
      [] state = "restart" -> pvt_start([d EXCEPT !.desired = "start"])

\* The monitor of p is gone; d are p's fields.
Restate(p, d, state) ==
    LET e == [d EXCEPT !.thread = "none", !.terminate = FALSE]
        f == Switched(e, state)
        opened == f.fd = "open"
    IN  /\ pvt' = [pvt EXCEPT ![p] = f]
        /\ lockfile' = IF opened THEN [lockfile EXCEPT ![e.tty] = p] ELSE lockfile
        /\ wish' = IF opened /\ wish[p].event \in {"start", "restart"}
                   THEN [wish EXCEPT ![p] = NoWish] ELSE wish
        /\ discovery' = [pc |-> "looking", todo |-> Tail(discovery.todo), doing |-> "start"]

\* do_discovery does something about a device.
Acts(d) ==
    /\ d.when = "now"
    /\ d.desired # d.current
    /\ ~(d.desired = "start" /\ d.connected)

\* Mutant: the monitor of a modem that is gone is not joined.
NoMonitor_of_lost(d) == d.thread = "none" \/ d.fd = "hung"

\* pvt_stop: what it joins, and what it tells the monitor before.
NoMonitor(d) == d.thread = "none"

\* Mutant: a monitor that still initialises is not told.
Told_reading(d) == [d EXCEPT !.terminate = @ \/ d.thread = "reading"]

Told(d) == [d EXCEPT !.terminate = @ \/ d.thread # "none"]

\* The trylock succeeds; pvt_stop tells the monitor, if there is one, to end.
DiscoveryLooks(p) ==
    LET d == [pvt[p] EXCEPT !.must_remove = FALSE]
    IN  /\ discovery.pc = "looking" /\ discovery.todo # <<>>
        /\ Head(discovery.todo) = p
        /\ \/ /\ ~Acts(d)
              /\ pvt' = [pvt EXCEPT ![p] = d]
              /\ discovery' = [discovery EXCEPT !.todo = Tail(@)]
              /\ UNCHANGED <<lockfile, wish>>
           \/ /\ Acts(d) /\ NoMonitor(d)
              /\ Restate(p, d, d.desired)
           \/ /\ Acts(d) /\ ~NoMonitor(d)
              /\ pvt' = [pvt EXCEPT ![p] = Told(d)]
              /\ discovery' = [discovery EXCEPT !.pc = "joining", !.doing = d.desired]
              /\ UNCHANGED <<lockfile, wish>>
        /\ UNCHANGED <<plugged, usbdevs, devices, unload, operator, dismissed, hasty,
                       requests, unplugs>>

\* Another thread holds the lock.
CannotTrylock ==
    /\ discovery.pc = "looking" /\ discovery.todo # <<>>
    /\ discovery' = [discovery EXCEPT !.todo = Tail(@)]
    /\ UNCHANGED <<plugged, usbdevs, devices, pvt, lockfile, unload, asked, unplugs>>

\* pvt_stop: the monitor has ended; on with the state read before.
MonitorJoined ==
    LET p == Head(discovery.todo)
    IN  /\ discovery.pc = "joining"
        /\ pvt[p].thread = "done"
        /\ Restate(p, pvt[p], discovery.doing)
        /\ UNCHANGED <<plugged, usbdevs, devices, unload, operator, dismissed, hasty,
                       requests, unplugs>>

\* What is left of a device that is freed.
Freed(d) ==
    [pvt_create(d.tty) EXCEPT !.fd = d.fd,
                              !.thread = IF d.thread = "done" THEN "none" ELSE d.thread]

\* What an operator that has found the device would write into freed memory is
\* left out.
pvt_free(p) ==
    /\ pvt' = [pvt EXCEPT ![p] = Freed(@)]
    /\ operator' = [o \in Operator |->
                       IF operator[o].on = p THEN Idle ELSE operator[o]]
    /\ wish' = [wish EXCEPT ![p] = NoWish]

\* The second loop, which takes no lock: the next device to remove.
DiscoveryRemoves(i) ==
    /\ discovery.pc = "looking" /\ discovery.todo = <<>>
    /\ pvt[devices[i]].must_remove
    /\ \A j \in 1 .. i - 1 : ~pvt[devices[j]].must_remove
    /\ devices' = RemoveAt(devices, i)
    /\ pvt_free(devices[i])
    /\ UNCHANGED <<plugged, usbdevs, lockfile, discovery, unload, dismissed, hasty, requests, unplugs>>

DiscoverySleeps ==
    /\ discovery.pc = "looking" /\ discovery.todo = <<>>
    /\ \A p \in ToSet(devices) : ~pvt[p].must_remove
    /\ discovery' = [discovery EXCEPT !.pc = "asleep"]
    /\ UNCHANGED <<plugged, usbdevs, devices, pvt, lockfile, unload, asked, unplugs>>

DiscoveryEnds ==
    /\ discovery.pc = "asleep"
    /\ unload.pc # "loaded"
    /\ discovery' = [discovery EXCEPT !.pc = "ended"]
    /\ UNCHANGED <<plugged, usbdevs, devices, pvt, lockfile, unload, asked, unplugs>>
-----------------------------------------------------------------------------
(* The monitor thread of a device: do_monitor_phone, disconnect_dongle.    *)

\* It waits for the lock its discovery holds, and initialises.
MonitorBegins(p) ==
    /\ pvt[p].thread = "begun"
    /\ pvt' = [pvt EXCEPT ![p].thread = "reading"]
    /\ UNCHANGED <<plugged, usbdevs, devices, lockfile, discovery, unload, asked, unplugs>>

\* The first part of disconnect_dongle: it releases the calls, the last of
\* which tries to restate, and closes the tty with its lock file.
Disconnecting(d) ==
    LET e == [d EXCEPT !.busy = @ \ {"call"}]
        f == IF "call" \in d.busy THEN pvt_try_restate(e) ELSE e
    IN  [f EXCEPT !.thread = "leaving", !.fd = "closed"]

MonitorLeaves(p, d) ==
    /\ pvt[p].thread \in {"begun", "reading"} /\ ~pvt[p].blocked
    /\ pvt' = [pvt EXCEPT ![p] = Disconnecting(d)]
    /\ lockfile' = [lockfile EXCEPT ![pvt[p].tty] = None]
    /\ UNCHANGED <<plugged, usbdevs, devices, discovery, unload, asked, unplugs>>

\* e_restart: it was told to end.
MonitorTerminates(p) == pvt[p].terminate /\ MonitorLeaves(p, pvt[p])

\* e_cleanup, without request: the modem is gone.
MonitorLosesModem(p) ==
    pvt[p].fd = "hung" /\ MonitorLeaves(p, [pvt[p] EXCEPT !.terminate = FALSE])

\* e_cleanup: the modem does not answer, or says what is not understood.
MonitorGivesUp(p) ==
    pvt[p].fd = "open" /\ MonitorLeaves(p, [pvt[p] EXCEPT !.terminate = FALSE])

\* Mutant: the device counts as started when its monitor has ended.
Disconnected_started(d) ==
    [d EXCEPT !.connected = FALSE, !.busy = {}, !.thread = "done"]

\* The rest of disconnect_dongle, and the end of the thread.
Disconnected(d) ==
    [d EXCEPT !.connected = FALSE, !.busy = {}, !.current = "stop", !.thread = "done"]

MonitorEnds(p) ==
    /\ pvt[p].thread = "leaving" /\ ~pvt[p].blocked
    /\ pvt' = [pvt EXCEPT ![p] = Disconnected(@)]
    /\ UNCHANGED <<plugged, usbdevs, devices, lockfile, discovery, unload, asked, unplugs>>

\* discovery_restart gets discovery_lock.
MonitorUnblocked(p) ==
    /\ pvt[p].blocked /\ ~DiscoveryLocked
    /\ pvt' = [pvt EXCEPT ![p].blocked = FALSE]
    /\ UNCHANGED <<plugged, usbdevs, devices, lockfile, discovery, unload, asked, unplugs>>
-----------------------------------------------------------------------------
(* Unloading: public_state_fini, behind the unregistering of the commands. *)

\* discovery_stop takes discovery_lock and joins the discovery.  A channel
\* counts as a use of the module, which is not unloaded while it is used.
UnloadBegins ==
    /\ unload.pc = "loaded"
    /\ \A p \in ToSet(devices) : "call" \notin pvt[p].busy
    /\ unload' = [unload EXCEPT !.pc = "joining"]
    /\ UNCHANGED <<plugged, usbdevs, devices, pvt, lockfile, discovery, asked, unplugs>>

DiscoveryJoined ==
    /\ unload.pc = "joining"
    /\ discovery.pc = "ended"
    /\ unload' = [unload EXCEPT !.pc = "destroying"]
    /\ UNCHANGED <<plugged, usbdevs, devices, pvt, lockfile, discovery, asked, unplugs>>

\* devices_destroy: the next device goes out of the list and is stopped.
pvt_destroy ==
    /\ unload.pc = "destroying" /\ unload.on = None
    /\ devices # <<>>
    /\ devices' = Tail(devices)
    /\ unload' = [unload EXCEPT !.on = Head(devices)]
    /\ pvt' = [pvt EXCEPT ![Head(devices)] = Told(@)]
    /\ UNCHANGED <<plugged, usbdevs, lockfile, discovery, asked, unplugs>>

Destroyed ==
    /\ unload.on # None
    /\ pvt[unload.on].thread \in {"none", "done"}
    /\ pvt_free(unload.on)
    /\ unload' = [unload EXCEPT !.on = None]
    /\ UNCHANGED <<plugged, usbdevs, devices, lockfile, discovery, dismissed, hasty, requests, unplugs>>

UnloadEnds ==
    /\ unload.pc = "destroying" /\ unload.on = None
    /\ devices = <<>>
    /\ unload' = [unload EXCEPT !.pc = "unloaded"]
    /\ UNCHANGED <<plugged, usbdevs, devices, pvt, lockfile, discovery, asked, unplugs>>

Unloaded == unload.pc = "unloaded" /\ UNCHANGED vars

\* The unloading joins the discovery, which joins a monitor, which waits for
\* the lock that the unloading holds.
Deadlocked ==
    /\ discovery.pc = "joining"
    /\ pvt[Head(discovery.todo)].blocked
    /\ DiscoveryLocked

Stuck == Deadlocked /\ UNCHANGED vars
-----------------------------------------------------------------------------
Monitor(p) ==
    \/ MonitorBegins(p)
    \/ MonitorTerminates(p)
    \/ MonitorLosesModem(p)
    \/ MonitorEnds(p)
    \/ MonitorUnblocked(p)

Discovery ==
    \/ DiscoveryWakes
    \/ MonitorJoined
    \/ \E i \in DOMAIN devices : DiscoveryRemoves(i)
    \/ DiscoverySleeps
    \/ DiscoveryEnds

Unloading == DiscoveryJoined \/ pvt_destroy \/ Destroyed \/ UnloadEnds

Next ==
    \/ \E m \in Modem : Unplug(m) \/ Plug(m)
    \/ Discovery \/ CannotTrylock
    \/ \E p \in Pvt :
          \/ DiscoveryLooks(p)
          \/ Monitor(p) \/ MonitorGivesUp(p)
          \/ \E s \in Service : ServiceBegins(p, s) \/ ServiceEnds(p, s)
    \/ \E o \in Operator :
          \/ \E p \in Pvt : find_device(o, p)
          \/ \E event \in dev_state_t, when \in restate_time_t :
                DesiredWritten(o, event, when)
          \/ RestartTimeWritten(o)
    \/ UnloadBegins \/ Unloading \/ Unloaded \/ Stuck

Spec == Init /\ [][Next]_vars

\* Threads run: a monitor looks at the tty and at terminate_monitor in each turn
\* of its loop, whatever it reads, and an operator ends its request.  Who holds the
\* lock of a device gives it back, so that the trylock succeeds now and then.
\* Calls end.
FairSpec ==
    /\ Spec
    /\ WF_vars(Discovery) /\ WF_vars(Unloading)
    /\ \A p \in Pvt :
          /\ SF_vars(DiscoveryLooks(p)) /\ WF_vars(Monitor(p))
          /\ \A s \in Service : WF_vars(ServiceEnds(p, s))
    /\ \A o \in Operator : WF_vars(RestartTimeWritten(o))
-----------------------------------------------------------------------------
DeviceType ==
    [tty : Modem, desired : dev_state_t, current : {"stop", "start"},
     when : restate_time_t, connected : BOOLEAN,
     thread : {"none", "begun", "reading", "leaving", "done"},
     terminate : BOOLEAN, must_remove : BOOLEAN, fd : {"closed", "open", "hung"},
     busy : SUBSET Service, blocked : BOOLEAN]

\* The fields have their types, and devices and table hold nothing twice.
TypeOK ==
    /\ plugged \subseteq Modem
    /\ usbdevs \in Seq(Modem) /\ IsInjective(usbdevs)
    /\ devices \in Seq(Pvt) /\ IsInjective(devices)
    /\ pvt \in [Pvt -> DeviceType]
    /\ lockfile \in [Modem -> Pvt \union {None}]
    /\ discovery \in [pc : {"asleep", "looking", "joining", "ended"},
                      todo : Seq(Pvt), doing : dev_state_t]
    /\ unload \in [pc : {"loaded", "joining", "destroying", "unloaded"},
                   on : Pvt \union {None}]
    /\ operator \in [Operator -> [pc : {"idle", "found", "writing"},
                                  on : Pvt \union {None}, when : restate_time_t]]
    /\ wish \in [Pvt -> [event : dev_state_t \union {"none"}, when : restate_time_t]]
    /\ dismissed \subseteq Modem

\* No device is freed while its monitor runs (pvt_free takes no lock and asks
\* nobody), nor while its tty is open.
MonitorsOwned ==
    \A p \in Pvt :
        pvt[p].thread # "none" \/ pvt[p].fd # "closed" =>
            Listed(p) \/ unload.on = p

\* However devices are lost, found and restarted, no tty is read by two
\* monitors, when nobody asked before the last request was done.
OneReader ==
    \A p, q \in Pvt :
        pvt[p].fd = "open" /\ pvt[q].fd = "open" /\ pvt[p].tty = pvt[q].tty =>
            p = q \/ hasty

\* The monitor of a device that serves somebody is told to end.
CutOff(p) ==
    /\ ~pvt[p].terminate /\ pvt'[p].terminate
    /\ pvt[p].thread = "reading" /\ pvt[p].busy # {}

\* What may be the reason: a request for now, the unplugging of the modem, or
\* unloading.
Excused(d, w) == w.when = "now" \/ d.fd = "hung" \/ unload.pc # "loaded"

\* What a device does is cut off only for these reasons, by the monitor itself, or
\* while a request has written what the device is to become and not yet when
\* (helpers.c, lines 210 and 211): in that instant the time is that of an earlier
\* request, and the code does cut off what a graceful one is to wait for.
GracefulWaits ==
    [][\A p \in Pvt : CutOff(p) => Excused(pvt[p], wish[p]) \/ HalfWritten(p)]_vars

\* A device that an operator has stopped or removed is not opened again, however
\* its monitor ends and whatever becomes of its modem, unless a request came
\* before the one before it was done.
NotUndone ==
    [][\A p \in Pvt :
          /\ wish[p].event \in {"stop", "remove"}
          /\ pvt[p].fd # "open" /\ pvt'[p].fd = "open"
          => hasty']_vars

Pending(p) ==
    /\ wish[p].when # "convenient"
    /\ \/ wish[p].event = "stop" /\ (pvt[p].current # "stop" \/ pvt[p].fd # "closed")
       \/ wish[p].event = "remove"
       \/ wish[p].event = "restart" /\ pvt[p].tty \in plugged /\ unload.pc = "loaded"

\* A request that waits for the end of an SMS or an USSD request, of which
\* nothing is known any more; or what a device is to become waits so, since the
\* time of an earlier request was written after that one had been done.
Forgotten(p) ==
    /\ pvt[p].thread \in {"none", "done"} /\ pvt[p].when # "now"
    /\ pvt[p].current # pvt[p].desired

\* What was answered with "Stop scheduled" and its like is done, when nobody asked
\* before the last request was done, no unloading deadlocked, and the request was
\* not forgotten in a disconnect.
RequestsHonoured ==
    \A p \in Pvt : Pending(p) ~> hasty \/ Deadlocked \/ Forgotten(p) \/ ~Pending(p)

\* A modem that stays plugged in, and whose device nobody asked to stop or
\* remove and no request to which is forgotten, is opened again and again,
\* whatever its monitors end from.
ModemServed ==
    \A m \in Modem :
        <>[](/\ m \in plugged /\ m \notin dismissed /\ unload.pc = "loaded"
             /\ \A p \in Pvt : pvt[p].tty = m => ~Forgotten(p)) =>
            []<>(\E p \in Pvt : pvt[p].tty = m /\ pvt[p].fd = "open")

\* Unloading joins the discovery, which joins monitors: nobody waits for ever
\* but in the one circle there is.
UnloadCompletes == unload.pc = "joining" ~> unload.pc = "unloaded" \/ Deadlocked
=============================================================================
