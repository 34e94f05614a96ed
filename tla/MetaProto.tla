------------------------------ MODULE MetaProto ------------------------------
(***************************************************************************)
(* metaproto.c: the protocol registry.  routes and subscribers are linked  *)
(* lists protected by one read-write locker; an operation is a guarded     *)
(* section (atomic for the others, see HwLock) followed, outside the lock, *)
(* by hw_metaproto_notify: a second guarded section that snapshots the     *)
(* matching subscribers, then one callback after the other with no lock    *)
(* held.  Threads interleave between these steps.                          *)
(*                                                                         *)
(* A callback that re-enters the registry runs with the lock free, as      *)
(* another thread would; its effect is covered by the other threads' steps.*)
(* calloc failing leaves both lists unchanged and sends no notification,   *)
(* which is a stuttering step.                                             *)
(***************************************************************************)
EXTENDS Naturals, SequencesExt, FiniteSetsExt, Snapshots

CONSTANTS Threads,      \* threads that call the registry
          Protocols,    \* protocol names
          Plugins,      \* plugin ids of providers
          Versions,     \* version strings
          Subscribers,  \* plugin ids that subscribe
          Callbacks,    \* subscriber callbacks
          SnapMax,      \* capacity of the snapshot array (64 in the code)
          Owner         \* the thread that drives a provider's registrations

ANY == "ANY"            \* the empty protocol of a subscription: all protocols
NULL == "NULL"          \* no plugin id given to an unregistration

ASSUME MetaAssumption == /\ SnapMax \in Nat \ {0}
                         /\ Owner \in [Plugins -> Threads]
                         /\ ANY \notin Protocols

VARIABLES routes,       \* route list, head first
          subscribers,  \* subscriber list, head first
          note,         \* per thread, the notification in progress (<<>>: none)
          snaps,        \* per thread, snapshot of the subscribers still to call
          pc,           \* "idle", "notify" (before the snapshot), "dispatch"
          view          \* per subscription, the last event seen of each provider

vars == <<routes, subscribers, note, snaps, pc, view>>

Key == Protocols \X Plugins
SubKey == Subscribers \X (Protocols \cup {ANY})

Route == [protocol : Protocols, plugin_id : Plugins, version : Versions]
Subscription == [plugin_id : Subscribers, protocol : Protocols \cup {ANY},
                 cb : Callbacks]
Event == [protocol : Protocols, plugin_id : Plugins, version : Versions,
          state : {"REGISTERED", "CHANGED", "REMOVED"}]

TypeOK ==
  /\ routes \in Seq(Route)
  /\ subscribers \in Seq(Subscription)
  /\ note \in [Threads -> Seq(Event)]
  /\ snaps \in [Threads -> Seq(SubKey)]
  /\ pc \in [Threads -> {"idle", "notify", "dispatch"}]
  /\ view \in [SubKey -> [Key -> Versions \cup {"unseen", "removed"}]]

\* hw_metaproto_init: empty lists.
Init ==
  /\ routes = <<>>
  /\ subscribers = <<>>
  /\ note = [t \in Threads |-> <<>>]
  /\ snaps = [t \in Threads |-> <<>>]
  /\ pc = [t \in Threads |-> "idle"]
  /\ view = [s \in SubKey |-> [k \in Key |-> "unseen"]]

RouteKey(r) == <<r.protocol, r.plugin_id>>
Entry(p, g, v) == [protocol |-> p, plugin_id |-> g, version |-> v]
Announce(r, st) ==
  [protocol |-> r.protocol, plugin_id |-> r.plugin_id, version |-> r.version, state |-> st]

Matches(p, g) == {i \in DOMAIN routes : RouteKey(routes[i]) = <<p, g>>}

\* The guarded section is over; the thread goes on to hw_metaproto_notify.
StartNotify(t, e) ==
  /\ pc' = [pc EXCEPT ![t] = "notify"]
  /\ note' = [note EXCEPT ![t] = <<e>>]
  /\ UNCHANGED <<subscribers, snaps, view>>

\* hw_metaproto_register: a route of the same protocol and provider is
\* updated in place (hot replacement), otherwise a new one goes to the head.
hw_metaproto_register(t, p, g, v) ==
  /\ pc[t] = "idle" /\ Owner[g] = t
  /\ \/ /\ Matches(p, g) # {}
        /\ \E i \in Matches(p, g) :
             /\ \A j \in Matches(p, g) : i <= j
             /\ routes' = [routes EXCEPT ![i] = Entry(p, g, v)]
        /\ StartNotify(t, Announce(Entry(p, g, v), "CHANGED"))
     \/ /\ Matches(p, g) = {}
        /\ routes' = <<Entry(p, g, v)>> \o routes
        /\ StartNotify(t, Announce(Entry(p, g, v), "REGISTERED"))

\* What an unregistration looks for: without a plugin id any route of the protocol.
Removable(p, g) == {i \in DOMAIN routes : routes[i].protocol = p /\ g \in {routes[i].plugin_id, NULL}}

\* hw_metaproto_unregister: the first match leaves the list.  The caller drives the
\* provider whose route it is.
hw_metaproto_unregister(t, p, g) ==
  /\ pc[t] = "idle"
  /\ \E i \in Removable(p, g) :
       /\ \A j \in Removable(p, g) : i <= j
       /\ Owner[routes[i].plugin_id] = t
       /\ routes' = RemoveAt(routes, i)
       /\ StartNotify(t, Announce(routes[i], "REMOVED"))

\* The duplicate test of hw_metaproto_subscribe.  A NULL protocol (ANY)
\* matches any subscription the plugin already has.
SameSub(s, w, p) == s.plugin_id = w /\ (p = ANY \/ s.protocol = p)
SubMatches(w, p) == {i \in DOMAIN subscribers : SameSub(subscribers[i], w, p)}
NewSub(w, p, c) == [plugin_id |-> w, protocol |-> p, cb |-> c]

\* Mutant: no duplicate test.
SubscribeAlwaysAdds(t, w, p, c) ==
  /\ pc[t] = "idle"
  /\ Len(subscribers) < 2 * Cardinality(SubKey)
  /\ subscribers' = <<NewSub(w, p, c)>> \o subscribers
  /\ UNCHANGED <<routes, note, snaps, pc, view>>

\* hw_metaproto_subscribe: a duplicate only gets the new callback.
hw_metaproto_subscribe(t, w, p, c) ==
  /\ pc[t] = "idle"
  /\ \/ \E i \in SubMatches(w, p) :
          /\ \A j \in SubMatches(w, p) : i <= j
          /\ subscribers' = [subscribers EXCEPT ![i].cb = c]
     \/ /\ SubMatches(w, p) = {}
        /\ subscribers' = <<NewSub(w, p, c)>> \o subscribers
  /\ UNCHANGED <<routes, note, snaps, pc, view>>

Wants(s, e) == s.protocol = ANY \/ s.protocol = e.protocol
SubId(s) == <<s.plugin_id, s.protocol>>

\* The positions of the subscribers of an event.
Interested(e) == {i \in DOMAIN subscribers : Wants(subscribers[i], e)}

\* Mutant: the snapshot array is one entry short.
SnapshotOneShort(e) == FirstOf(Interested(e), SnapMax - 1)

Snapshot(e) == FirstOf(Interested(e), SnapMax)

\* hw_metaproto_notify, the guarded section.
NotifySnapshot(t) ==
  /\ pc[t] = "notify"
  /\ \E f \in Snapshot(note[t][1]) :
       snaps' = [snaps EXCEPT ![t] = [i \in DOMAIN f |-> SubId(subscribers[f[i]])]]
  /\ pc' = [pc EXCEPT ![t] = "dispatch"]
  /\ UNCHANGED <<routes, subscribers, note, view>>

\* Mutant: the loop index is not advanced.
DispatchNoAdvance(t) ==
  /\ pc[t] = "dispatch" /\ snaps[t] # <<>>
  /\ UNCHANGED vars

\* hw_metaproto_notify, one callback.  The subscriber learns the event.
NotifyDispatch(t) ==
  /\ pc[t] = "dispatch" /\ snaps[t] # <<>>
  /\ LET e == note[t][1] IN
     view' = [view EXCEPT ![Head(snaps[t])][RouteKey(e)] =
                IF e.state = "REMOVED" THEN "removed" ELSE e.version]
  /\ snaps' = [snaps EXCEPT ![t] = Tail(@)]
  /\ UNCHANGED <<routes, subscribers, note, pc>>

\* The register or unregister call returns.
NotifyReturn(t) ==
  /\ pc[t] = "dispatch" /\ snaps[t] = <<>>
  /\ pc' = [pc EXCEPT ![t] = "idle"]
  /\ note' = [note EXCEPT ![t] = <<>>]
  /\ UNCHANGED <<routes, subscribers, snaps, view>>

Register(t) == \E p \in Protocols, g \in Plugins, v \in Versions : hw_metaproto_register(t, p, g, v)
Unregister(t) == \E p \in Protocols, g \in Plugins \cup {NULL} : hw_metaproto_unregister(t, p, g)
Subscribe(t) ==
  \E w \in Subscribers, p \in Protocols \cup {ANY}, c \in Callbacks :
      hw_metaproto_subscribe(t, w, p, c)
Notify(t) == NotifySnapshot(t) \/ NotifyDispatch(t) \/ NotifyReturn(t)

Next == \E t \in Threads : Register(t) \/ Unregister(t) \/ Subscribe(t) \/ Notify(t)

Spec == Init /\ [][Next]_vars

\* Fairness: a thread inside hw_metaproto_notify holds no lock when it runs
\* callbacks and blocks nowhere, so it keeps going and the call returns.
FairSpec == Spec /\ \A t \in Threads : WF_vars(Notify(t))

-----------------------------------------------------------------------------
(* Properties.                                                             *)

\* One route per protocol and provider, whatever the threads do: searching
\* and inserting are one guarded section, so two registrations of the same
\* pair cannot both take the insert branch (hw_metaproto_register).
RoutesUnique ==
  \A i, j \in DOMAIN routes : RouteKey(routes[i]) = RouteKey(routes[j]) => i = j

\* No snapshot calls a subscription twice or exceeds the array: a plugin has
\* one subscription per protocol, so no change is reported to it twice.
SnapshotsSound ==
  \A t \in Threads : /\ Len(snaps[t]) <= SnapMax
                     /\ \A i, j \in DOMAIN snaps[t] : snaps[t][i] = snaps[t][j] => i = j

Current(k) ==
  IF \E i \in DOMAIN routes : RouteKey(routes[i]) = k
  THEN (CHOOSE r \in ToSet(routes) : RouteKey(r) = k).version
  ELSE "removed"

\* Although notifications are sent outside the lock, a subscriber that has
\* heard of a provider knows its current registration whenever the thread
\* that drives the provider is between calls: later events of one provider
\* never arrive before earlier ones.  It needs at most SnapMax subscribers
\* (hw_metaproto_notify cuts the snapshot) and one driving thread per
\* provider, the way the bus and tests/test_lock.c use the registry.
ViewsCurrent ==
  Len(subscribers) <= SnapMax =>
    \A s \in SubKey, k \in Key :
       pc[Owner[k[2]]] = "idle" /\ view[s][k] # "unseen" => view[s][k] = Current(k)

\* Every register and unregister call returns: no callback is called with the
\* locker held, so no call can wait for itself.
NotifyReturns == \A t \in Threads : pc[t] # "idle" ~> pc[t] = "idle"

\* The registry at any moment, in the middle of every call: typed, with one
\* route per protocol and provider, and no subscriber to be told twice.
RegistrySound == TypeOK /\ RoutesUnique /\ SnapshotsSound
=============================================================================
