------------------------------ MODULE Discovery ------------------------------
(***************************************************************************)
(* How a minidspd comes to its list of devices: the discovery tasks and    *)
(* the configuration register urls with the registry                       *)
(* (daemon/src/discovery/registry.rs), which forgets those it has not seen *)
(* for a while and tells the device manager by a queue of events           *)
(* (daemon/src/device_manager.rs); the manager keeps the list that HTTP    *)
(* and TCP requests address by index.                                      *)
(* A definition named Bad... is the faulty twin of the one that follows,   *)
(* used by the mutation checks only.                                       *)
(***************************************************************************)
EXTENDS Naturals, Sequences, FiniteSets, Functions

CONSTANTS
    Urls,       \* the urls of devices
    Static,     \* config.static_devices
    Findable,   \* devices that discovery can find
    Steady,     \* devices that are always there to be found
    Limit,      \* time units without a sighting after which a device is dropped
    MaxQueue    \* bound: nothing is registered while as many events are pending

ASSUME DiscoveryAssumption ==
    /\ Static \subseteq Urls
    /\ Steady \subseteq Findable /\ Findable \subseteq Urls
    /\ IsFiniteSet(Urls)
    /\ Limit \in Nat \ {0}
    /\ MaxQueue \in Nat \ {0}

VARIABLES
    visible,    \* devices plugged in, or advertising on the network
    found,      \* devices discovery came across and has yet to register
    toRegister, \* static devices App::start has yet to register
    known,      \* the registry's keys
    pinned,     \* the entries with static_device set
    age,        \* time since each entry's last_seen, up to Limit
    events,     \* the registry's events on their way to the manager
    listed      \* Device values in the manager's list, per url

registry == <<known, pinned, age, events>>
vars == <<visible, found, toRegister, registry, listed>>

Event == [kind : {"Added", "Timeout"}, id : Urls]

TypeOK ==
    /\ visible \in SUBSET Findable
    /\ found \in SUBSET Findable
    /\ toRegister \in SUBSET Static
    /\ known \in SUBSET Urls
    /\ pinned \in SUBSET known
    /\ age \in [Urls -> 0 .. Limit]
    /\ events \in Seq(Event)
    /\ listed \in [Urls -> Nat]

Init ==
    /\ visible \in {v \in SUBSET Findable : Steady \subseteq v}
    /\ found = {}
    /\ toRegister = Static
    /\ known = {} /\ pinned = {}
    /\ age = [u \in Urls |-> 0]
    /\ events = <<>>
    /\ listed = [u \in Urls |-> 0]

-----------------------------------------------------------------------------
(* The registry.  Inner::register runs under the registry's lock: a new    *)
(* url is announced and inserted, a known one is marked as seen and keeps  *)
(* the kind it was first registered with; then cleanup drops the entries   *)
(* not seen for too long, in the order of a hash map's iteration.          *)

Insert(u) == u \notin known

Seen(u) == [age EXCEPT ![u] = 0]

BadExpired(keys, ages) == {v \in keys : ages[v] >= Limit}
NoneExpired(keys, ages) == {}
Expired(keys, ages) == {v \in keys \ pinned' : ages[v] >= Limit}

Added(u) == [kind |-> "Added", id |-> u]
Timeout(u) == [kind |-> "Timeout", id |-> u]

(* The sequences in which a hash map may visit the elements of S. *)
Orders(S) == Bijection(1 .. Cardinality(S), S)

BadSurvivors(keys, expired) == keys
Survivors(keys, expired) == keys \ expired

Cleanup(keys, announced) ==
    LET expired == Expired(keys, age')
    IN  /\ known' = Survivors(keys, expired)
        /\ \E o \in Orders(expired) :
               events' = events \o announced
                                \o [i \in DOMAIN o |-> Timeout(o[i])]

Register(u, static) ==
    /\ Len(events) < MaxQueue
    /\ age' = Seen(u)
    /\ pinned' = IF static /\ Insert(u) THEN pinned \cup {u} ELSE pinned
    /\ Cleanup(known \cup {u}, IF Insert(u) THEN <<Added(u)>> ELSE <<>>)

(* hid_discovery_task and net_discovery_task: a device that is there is    *)
(* found, and registered a little later, when it may be gone.              *)
Find(u) ==
    /\ u \in visible
    /\ found' = found \cup {u}
    /\ UNCHANGED <<visible, toRegister, registry, listed>>

RegisterFound(u) ==
    /\ u \in found
    /\ found' = found \ {u}
    /\ Register(u, FALSE)
    /\ UNCHANGED <<visible, toRegister, listed>>

(* App::start registers the static devices after DeviceManager::new        *)
(* started the discovery tasks.                                            *)
RegisterStatic(u) ==
    /\ u \in toRegister
    /\ toRegister' = toRegister \ {u}
    /\ Register(u, TRUE)
    /\ UNCHANGED <<visible, found, listed>>

-----------------------------------------------------------------------------
(* The manager *)

(* DeviceManager::task.  A new Device is pushed without looking whether    *)
(* there is one already, a timeout removes all that have the url.          *)
AddDevice(u) == listed' = [listed EXCEPT ![u] = @ + 1]
RemoveDevice(u) == listed' = [listed EXCEPT ![u] = 0]

NextEvent == Head(events)

HandleEvent ==
    /\ events # <<>>
    /\ events' = Tail(events)
    /\ IF NextEvent.kind = "Added" THEN AddDevice(NextEvent.id)
                                   ELSE RemoveDevice(NextEvent.id)
    /\ UNCHANGED <<visible, found, toRegister, known, pinned, age>>

-----------------------------------------------------------------------------
(* The world *)

Appear(u) ==
    /\ u \in Findable
    /\ visible' = visible \cup {u}
    /\ UNCHANGED <<found, toRegister, registry, listed>>

Vanish(u) ==
    /\ u \in Findable \ Steady
    /\ visible' = visible \ {u}
    /\ UNCHANGED <<found, toRegister, registry, listed>>

Tick ==
    /\ age' = [u \in Urls |-> IF age[u] < Limit THEN age[u] + 1 ELSE Limit]
    /\ UNCHANGED <<visible, found, toRegister, known, pinned, events, listed>>

Next ==
    \/ \E u \in Urls : \/ Find(u) \/ RegisterFound(u) \/ RegisterStatic(u)
                       \/ Appear(u) \/ Vanish(u)
    \/ HandleEvent
    \/ Tick

Spec == Init /\ [][Next]_vars

(* The discovery tasks poll every five seconds and on every advertisement, *)
(* the manager's task always takes the next event, and time passes.        *)
(* Registering is strongly fair: only the bound MaxQueue, which the code's *)
(* unbounded channel does not have, can disable it.                        *)
Fairness ==
    /\ \A u \in Urls : /\ WF_vars(Find(u))
                       /\ SF_vars(RegisterFound(u))
                       /\ SF_vars(RegisterStatic(u))
    /\ WF_vars(HandleEvent)
    /\ WF_vars(Tick)

LiveSpec == Spec /\ Fairness

-----------------------------------------------------------------------------
(* Properties *)

(* The pending events that concern u. *)
Pending(u) == {i \in DOMAIN events : events[i].id = u}

(* u is on the list after the first k events. *)
ListedAfter(u, k) ==
    IF Pending(u) \cap (1 .. k) = {}
    THEN listed[u] > 0
    ELSE \E i \in Pending(u) \cap (1 .. k) :
             /\ events[i].kind = "Added"
             /\ \A j \in Pending(u) \cap (1 .. k) : j <= i

(* The list and the registry are kept in step by events alone: once the    *)
(* manager has handled what is in the queue, its list holds exactly the    *)
(* urls of the registry.                                                   *)
ListMatchesRegistry ==
    \A u \in Urls : (u \in known) <=> ListedAfter(u, Len(events))

(* A url has one Device, and so one task that opens it, in the list.       *)
NoDuplicates == \A u \in Urls : listed[u] <= 1

Settled(u) == listed[u] = 1 /\ Pending(u) = {}

(* An entry registered as static is left alone: once its event has been    *)
(* handled it is on the list with no further event on the way, whatever    *)
(* discovery sees or fails to see.                                         *)
PinnedStaysListed == [][\A u \in pinned : Settled(u) => Settled(u)']_vars

(* A device that stays visible is on the list again and again, whatever    *)
(* timeouts it went through.                                               *)
SeenIsListed ==
    \A u \in Urls : <>[](u \in visible) => []<>(listed[u] > 0)

(* "Removes devices that haven't been seen since 5 minutes" (cleanup): a   *)
(* device that is gone for good leaves the list, unless it is static.      *)
UnseenRemoved ==
    \A u \in Urls \ Static : <>[](u \notin visible) => <>[](listed[u] = 0)
=============================================================================
