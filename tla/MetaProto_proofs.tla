--------------------------- MODULE MetaProto_proofs ---------------------------
(* Theorems about MetaProto, for any number of threads, protocols, providers *)
(* and subscribers and any size of the snapshot array; and about AuditText,  *)
(* for events of any texts.                                                  *)
EXTENDS MetaProto, AuditText, ListFacts, FiniteSetTheorems, TLAPS

\* The inductive invariant, part by part.

\* A plugin has one subscription for a protocol: hw_metaproto_subscribe replaces.
SubsUnique ==
  \A i, j \in DOMAIN subscribers : SubId(subscribers[i]) = SubId(subscribers[j]) => i = j

Subscribed(s) == \E j \in DOMAIN subscribers : SubId(subscribers[j]) = s

\* What a subscriber that is told of e will hold of its provider.
Told(e) == IF e.state = "REMOVED" THEN "removed" ELSE e.version

\* A notification under way says what the registry says: the provider's one thread is
\* busy with it, and no other thread changes the provider's routes.
NotesCurrent ==
  \A t \in Threads : pc[t] # "idle" =>
    /\ note[t] # <<>> /\ note[t][1] \in Event
    /\ Owner[note[t][1].plugin_id] = t
    /\ Current(RouteKey(note[t][1])) = Told(note[t][1])

\* Only subscriptions that exist and want the event are called.
SnapsWanted ==
  \A t \in Threads :
    /\ pc[t] # "dispatch" => snaps[t] = <<>>
    /\ \A i \in DOMAIN snaps[t] :
         Subscribed(snaps[t][i]) /\ snaps[t][i][2] \in {ANY, note[t][1].protocol}

\* Who has heard of a provider has subscribed for it.
HeardSubscribed ==
  \A s \in SubKey, k \in Key :
    view[s][k] # "unseen" => Subscribed(s) /\ s[2] \in {ANY, k[1]}

\* The event of the provider k is still on its way to the subscription s.
Underway(s, k) ==
  LET t == Owner[k[2]] IN
  /\ pc[t] # "idle" /\ RouteKey(note[t][1]) = k
  /\ pc[t] = "notify" \/ \E i \in DOMAIN snaps[t] : snaps[t][i] = s

\* Who has heard of a provider knows its registration or will be told of it next.
KnowsOrUnderway ==
  \A s \in SubKey, k \in Key :
    view[s][k] # "unseen" => view[s][k] = Current(k) \/ Underway(s, k)

MetaInv ==
  /\ TypeOK /\ RoutesUnique /\ SubsUnique /\ SnapshotsSound
  /\ NotesCurrent /\ SnapsWanted /\ HeardSubscribed
  /\ Len(subscribers) <= SnapMax => KnowsOrUnderway

-----------------------------------------------------------------------------
\* The routes and what Current reads of them.

Unique(rs) == \A i, j \in DOMAIN rs : RouteKey(rs[i]) = RouteKey(rs[j]) => i = j

\* Current, of a list of routes.
VersionIn(rs, k) ==
  IF \E i \in DOMAIN rs : RouteKey(rs[i]) = k
  THEN (CHOOSE r \in ToSet(rs) : RouteKey(r) = k).version
  ELSE "removed"

\* The version of a key is that of its only route.
LEMMA VersionIs ==
  ASSUME NEW rs, Unique(rs), NEW i \in DOMAIN rs
  PROVE  VersionIn(rs, RouteKey(rs[i])) = rs[i].version
<1> DEFINE k == RouteKey(rs[i])
<1>1. rs[i] \in ToSet(rs)
  BY DEF ToSet
<1>2. \A r \in ToSet(rs) : RouteKey(r) = k => r = rs[i]
  BY DEF ToSet, Unique
<1>3. (CHOOSE r \in ToSet(rs) : RouteKey(r) = k) = rs[i]
  BY <1>1, <1>2
<1> QED BY <1>3 DEF VersionIn

\* It depends on the routes of that key only.
LEMMA VersionKept ==
  ASSUME NEW rs, NEW qs, Unique(rs), Unique(qs), NEW k,
         \A i \in DOMAIN rs : RouteKey(rs[i]) = k => \E j \in DOMAIN qs : qs[j] = rs[i],
         \A j \in DOMAIN qs : RouteKey(qs[j]) = k => \E i \in DOMAIN rs : qs[j] = rs[i]
  PROVE  VersionIn(rs, k) = VersionIn(qs, k)
<1>1. CASE \E i \in DOMAIN rs : RouteKey(rs[i]) = k
  <2>1. PICK i \in DOMAIN rs : RouteKey(rs[i]) = k
    BY <1>1
  <2>2. PICK j \in DOMAIN qs : qs[j] = rs[i]
    BY <2>1
  <2> QED BY <2>1, <2>2, VersionIs
<1>2. CASE \A i \in DOMAIN rs : RouteKey(rs[i]) # k
  BY <1>2 DEF VersionIn
<1> QED BY <1>1, <1>2

\* hw_metaproto_register: the new version is the one of its key, the other keys keep theirs.
LEMMA RegisterRoutes ==
  ASSUME MetaInv, NEW t \in Threads, NEW p \in Protocols, NEW g \in Plugins, NEW v \in Versions,
         hw_metaproto_register(t, p, g, v)
  PROVE  /\ routes' \in Seq(Route) /\ RoutesUnique'
         /\ Current(<<p, g>>)' = v
         /\ \A k : k # <<p, g>> => Current(k)' = Current(k)
<1> DEFINE r == Entry(p, g, v)
<1>1. r \in Route /\ RouteKey(r) = <<p, g>> /\ r.version = v
  BY DEF Entry, Route, RouteKey
<1>2. routes \in Seq(Route) /\ Unique(routes)
  BY DEF MetaInv, TypeOK, RoutesUnique, Unique
<1>3. \E i \in DOMAIN routes' :
        /\ routes' \in Seq(Route) /\ Unique(routes') /\ routes'[i] = r
        /\ \A j \in DOMAIN routes : RouteKey(routes[j]) # <<p, g>> =>
             \E m \in DOMAIN routes' : routes'[m] = routes[j]
        /\ \A j \in DOMAIN routes' : RouteKey(routes'[j]) # <<p, g>> =>
             \E m \in DOMAIN routes : routes'[j] = routes[m]
  <2>1. CASE Matches(p, g) # {}
    <3>1. PICK i \in Matches(p, g) : routes' = [routes EXCEPT ![i] = r]
      BY <2>1 DEF hw_metaproto_register
    <3>2. i \in DOMAIN routes /\ RouteKey(routes[i]) = <<p, g>>
      BY <3>1 DEF Matches
    <3> QED BY <1>1, <1>2, <3>1, <3>2, SMTT(60) DEF Unique
  <2>2. CASE Matches(p, g) = {}
    <3>1. routes' = <<r>> \o routes
      BY <2>2 DEF hw_metaproto_register
    <3>2. \A j \in DOMAIN routes : RouteKey(routes[j]) # <<p, g>>
      BY <2>2 DEF Matches
    <3>3. /\ routes' \in Seq(Route) /\ DOMAIN routes' = 1 .. Len(routes) + 1
          /\ DOMAIN routes = 1 .. Len(routes) /\ Len(routes) \in Nat /\ routes'[1] = r
      BY <1>1, <1>2, <3>1
    <3>4. \A j \in 2 .. Len(routes) + 1 : routes'[j] = routes[j - 1] /\ j - 1 \in 1 .. Len(routes)
      BY <1>1, <1>2, <3>1
    <3>5. \A j \in 1 .. Len(routes) : routes'[j + 1] = routes[j] /\ j + 1 \in 1 .. Len(routes) + 1
      BY <1>1, <1>2, <3>1
    <3>6. \A j \in DOMAIN routes' :
            j = 1 \/ \E m \in DOMAIN routes : j = m + 1 /\ routes'[j] = routes[m]
      BY <3>3, <3>4
    <3>7. Unique(routes')
      <4> SUFFICES ASSUME NEW a \in DOMAIN routes', NEW b \in DOMAIN routes',
                          RouteKey(routes'[a]) = RouteKey(routes'[b])
                   PROVE  a = b
        BY DEF Unique
      <4>1. CASE a = 1 \/ b = 1
        BY <1>1, <3>2, <3>3, <3>6, <4>1
      <4>2. CASE a # 1 /\ b # 1
        BY <1>2, <3>6, <4>2 DEF Unique
      <4> QED BY <4>1, <4>2
    <3>8. \A j \in DOMAIN routes : \E m \in DOMAIN routes' : routes'[m] = routes[j]
      BY <3>3, <3>5
    <3>9. \A j \in DOMAIN routes' : RouteKey(routes'[j]) # <<p, g>> =>
             \E m \in DOMAIN routes : routes'[j] = routes[m]
      BY <1>1, <3>3, <3>6
    <3> QED BY <3>3, <3>7, <3>8, <3>9
  <2> QED BY <2>1, <2>2
<1>4. VersionIn(routes', <<p, g>>) = v
  BY <1>1, <1>3, VersionIs
<1>5. \A k : k # <<p, g>> => VersionIn(routes', k) = VersionIn(routes, k)
  BY <1>2, <1>3, VersionKept
<1> QED BY <1>3, <1>4, <1>5, SMTT(60) DEF RoutesUnique, Unique, Current, VersionIn

\* hw_metaproto_unregister: the key has no version any more, the other keys keep theirs.
LEMMA UnregisterRoutes ==
  ASSUME MetaInv, NEW t \in Threads, NEW p \in Protocols, NEW g \in Plugins,
         NEW i \in Matches(p, g), routes' = RemoveAt(routes, i)
  PROVE  /\ routes' \in Seq(Route) /\ RoutesUnique' /\ routes[i] \in Route
         /\ RouteKey(routes[i]) = <<p, g>>
         /\ Current(<<p, g>>)' = "removed"
         /\ \A k : k # <<p, g>> => Current(k)' = Current(k)
<1>1. routes \in Seq(Route) /\ Unique(routes)
  BY DEF MetaInv, TypeOK, RoutesUnique, Unique
<1>2. i \in DOMAIN routes /\ RouteKey(routes[i]) = <<p, g>> /\ routes[i] \in Route
  BY <1>1 DEF Matches
<1>3. /\ routes' \in Seq(Route) /\ Len(routes') = Len(routes) - 1 /\ Len(routes) \in Nat \ {0}
      /\ DOMAIN routes' = 1 .. Len(routes) - 1 /\ DOMAIN routes = 1 .. Len(routes)
      /\ \A j \in 1 .. Len(routes) - 1 : routes'[j] = IF j < i THEN routes[j] ELSE routes[j + 1]
  <2>1. /\ routes' \in Seq(Route) /\ Len(routes') = Len(routes) - 1
        /\ \A j \in 1 .. Len(routes) - 1 : routes'[j] = IF j < i THEN routes[j] ELSE routes[j + 1]
    BY <1>1, <1>2, Unlinked
  <2> QED BY <1>1, <1>2, <2>1
<1>4. \A j \in DOMAIN routes' : \E m \in DOMAIN routes \ {i} :
        routes'[j] = routes[m] /\ m = IF j < i THEN j ELSE j + 1
  BY <1>2, <1>3
<1>5. \A m \in DOMAIN routes \ {i} : \E j \in DOMAIN routes' : routes'[j] = routes[m]
  <2> TAKE m \in DOMAIN routes \ {i}
  <2>1. CASE m < i
    BY <1>2, <1>3, <2>1
  <2>2. CASE m > i
    <3>1. m - 1 \in DOMAIN routes' /\ routes'[m - 1] = routes[m]
      BY <1>2, <1>3, <2>2
    <3> QED BY <3>1
  <2> QED BY <1>2, <1>3, <2>1, <2>2
<1>6. Unique(routes')
  BY <1>1, <1>2, <1>3, <1>4, SMTT(60) DEF Unique
<1>7. \A j \in DOMAIN routes' : RouteKey(routes'[j]) # <<p, g>>
  BY <1>1, <1>2, <1>4 DEF Unique
<1>8. VersionIn(routes', <<p, g>>) = "removed"
  BY <1>7 DEF VersionIn
<1>9. ASSUME NEW k, k # <<p, g>> PROVE VersionIn(routes', k) = VersionIn(routes, k)
  BY <1>1, <1>2, <1>4, <1>5, <1>6, <1>9, VersionKept
<1> QED BY <1>2, <1>3, <1>6, <1>8, <1>9 DEF RoutesUnique, Unique, Current, VersionIn

-----------------------------------------------------------------------------
\* The subscribers.

\* hw_metaproto_subscribe keeps what is subscribed and adds no second subscription.
LEMMA SubscribeKeeps ==
  ASSUME MetaInv, NEW t \in Threads, NEW w \in Subscribers, NEW p \in Protocols \cup {ANY},
         NEW c \in Callbacks, hw_metaproto_subscribe(t, w, p, c)
  PROVE  /\ subscribers' \in Seq(Subscription) /\ SubsUnique'
         /\ Len(subscribers) <= Len(subscribers')
         /\ \A s : Subscribed(s) => Subscribed(s)'
<1>1. subscribers \in Seq(Subscription) /\ SubsUnique
  BY DEF MetaInv, TypeOK
<1>2. CASE SubMatches(w, p) # {}
  <2>1. PICK i \in SubMatches(w, p) : subscribers' = [subscribers EXCEPT ![i].cb = c]
    BY <1>2 DEF hw_metaproto_subscribe
  <2>2. i \in DOMAIN subscribers
    BY DEF SubMatches
  <2>3. /\ subscribers' \in Seq(Subscription) /\ Len(subscribers') = Len(subscribers)
        /\ DOMAIN subscribers' = DOMAIN subscribers
    <3>1. [subscribers[i] EXCEPT !.cb = c] \in Subscription
      <4>1. subscribers[i] \in Subscription
        BY <1>1, <2>2
      <4> QED BY <4>1 DEF Subscription
    <3>2. subscribers' = [subscribers EXCEPT ![i] = [subscribers[i] EXCEPT !.cb = c]]
      BY <2>1
    <3> QED BY <1>1, <2>2, <3>1, <3>2
  <2>4. \A j \in DOMAIN subscribers : SubId(subscribers'[j]) = SubId(subscribers[j])
    BY <1>1, <2>1, <2>2 DEF Subscription, SubId
  <2> QED BY <1>1, <2>3, <2>4 DEF SubsUnique, Subscribed
<1>3. CASE SubMatches(w, p) = {}
  <2> DEFINE n == NewSub(w, p, c)
  <2>1. subscribers' = <<n>> \o subscribers /\ n \in Subscription /\ SubId(n) = <<w, p>>
    BY <1>3 DEF hw_metaproto_subscribe, NewSub, Subscription, SubId
  <2>2. \A j \in DOMAIN subscribers : SubId(subscribers[j]) # <<w, p>>
    BY <1>3 DEF SubMatches, SameSub, SubId
  <2>3. /\ subscribers' \in Seq(Subscription) /\ DOMAIN subscribers' = 1 .. Len(subscribers) + 1
        /\ DOMAIN subscribers = 1 .. Len(subscribers) /\ Len(subscribers) \in Nat
        /\ subscribers'[1] = n /\ Len(subscribers') = Len(subscribers) + 1
    BY <1>1, <2>1
  <2>4. \A j \in 2 .. Len(subscribers) + 1 :
          subscribers'[j] = subscribers[j - 1] /\ j - 1 \in 1 .. Len(subscribers)
    BY <1>1, <2>1
  <2>5. \A j \in 1 .. Len(subscribers) :
          subscribers'[j + 1] = subscribers[j] /\ j + 1 \in 1 .. Len(subscribers) + 1
    BY <1>1, <2>1
  <2>6. \A j \in DOMAIN subscribers' :
          j = 1 \/ \E m \in DOMAIN subscribers : j = m + 1 /\ subscribers'[j] = subscribers[m]
    BY <2>3, <2>4, SMTT(60)
  <2>7. SubsUnique'
    <3> SUFFICES ASSUME NEW a \in DOMAIN subscribers', NEW b \in DOMAIN subscribers',
                        SubId(subscribers'[a]) = SubId(subscribers'[b])
                 PROVE  a = b
      BY DEF SubsUnique
    <3>1. CASE a = 1 \/ b = 1
      BY <2>1, <2>2, <2>3, <2>6, <3>1
    <3>2. CASE a # 1 /\ b # 1
      BY <1>1, <2>6, <3>2 DEF SubsUnique
    <3> QED BY <3>1, <3>2
  <2> QED BY <2>3, <2>5, <2>7, SMTT(60) DEF Subscribed
<1> QED BY <1>2, <1>3

\* hw_metaproto_notify does not cut a list that fits into the array.
LEMMA SnapshotComplete ==
  ASSUME MetaInv, NEW e, NEW f \in Snapshot(e), Len(subscribers) <= SnapMax,
         NEW p \in Interested(e)
  PROVE  \E i \in DOMAIN f : f[i] = p
<1>1. /\ SnapMax \in Nat /\ Len(subscribers) \in Nat /\ Interested(e) \in SUBSET (1 .. Len(subscribers))
  BY MetaAssumption DEF MetaInv, TypeOK, Interested
<1>2. PICK ps \in SUBSET (1 .. Len(subscribers)) : ps = Interested(e)
  BY <1>1
<1>3. PICK m \in Nat : m = Len(subscribers)
  BY <1>1
<1>4. PICK n \in Nat : n = SnapMax
  BY <1>1
<1>5. ps \in SUBSET (1 .. m) /\ m <= n
  BY <1>2, <1>3, <1>4
<1>6. \A g \in FirstOf(ps, n) : \A x \in ps : \E i \in DOMAIN g : g[i] = x
  BY <1>5, NothingCut, SMTT(60)
<1> QED BY <1>2, <1>4, <1>6 DEF Snapshot

\* The snapshot: of subscriptions that want the event, each once, no more than fit.
LEMMA SnapshotFacts ==
  ASSUME MetaInv, NEW e, NEW f \in Snapshot(e)
  PROVE  LET s == [i \in DOMAIN f |-> SubId(subscribers[f[i]])] IN
         /\ s \in Seq(SubKey) /\ Len(s) <= SnapMax /\ DOMAIN s = DOMAIN f
         /\ \A i, j \in DOMAIN s : s[i] = s[j] => i = j
         /\ \A i \in DOMAIN s : Subscribed(s[i]) /\ s[i][2] \in {ANY, e.protocol}
<1> DEFINE s == [i \in DOMAIN f |-> SubId(subscribers[f[i]])]
<1>1. PICK k \in 0 .. SnapMax : f \in [1 .. k -> Interested(e)]
  BY DEF Snapshot, FirstOf
<1>2. \A i \in 1 .. k : f[i] \in DOMAIN subscribers /\ Wants(subscribers[f[i]], e)
  BY <1>1 DEF Interested
<1>3. subscribers \in Seq(Subscription)
  BY DEF MetaInv, TypeOK
<1>4. \A j \in DOMAIN subscribers : SubId(subscribers[j]) \in SubKey
  <2> TAKE j \in DOMAIN subscribers
  <2>1. subscribers[j] \in Subscription
    BY <1>3
  <2> QED BY <2>1 DEF Subscription, SubId, SubKey
<1>5. k \in Nat /\ s \in Seq(SubKey) /\ Len(s) = k /\ k <= SnapMax /\ DOMAIN s = 1 .. k
  BY <1>1, <1>2, <1>4, MetaAssumption
<1>6. \A i, j \in DOMAIN f : i < j => f[i] < f[j]
  BY DEF Snapshot, FirstOf
<1>7. ASSUME NEW i \in 1 .. k, NEW j \in 1 .. k, s[i] = s[j] PROVE i = j
  <2>1. f[i] = f[j]
    BY <1>1, <1>2, <1>7 DEF MetaInv, SubsUnique
  <2>2. f[i] \in Int /\ i \in Int /\ j \in Int
    BY <1>2, <1>3
  <2> QED BY <1>1, <1>6, <2>1, <2>2
<1>8. \A i \in 1 .. k : Subscribed(s[i]) /\ s[i][2] \in {ANY, e.protocol}
  BY <1>1, <1>2 DEF Subscribed, Wants, SubId
<1> QED BY <1>1, <1>5, <1>7, <1>8

-----------------------------------------------------------------------------
\* hw_metaproto_init.
LEMMA MetaInitInv == Init => MetaInv
<1> SUFFICES ASSUME Init PROVE MetaInv
  OBVIOUS
<1> USE DEF Init
<1>1. TypeOK
  BY DEF TypeOK
<1>2. RoutesUnique /\ SubsUnique /\ SnapshotsSound
  BY MetaAssumption DEF RoutesUnique, SubsUnique, SnapshotsSound
<1>3. NotesCurrent /\ SnapsWanted
  BY DEF NotesCurrent, SnapsWanted
<1>4. HeardSubscribed /\ KnowsOrUnderway
  BY DEF HeardSubscribed, KnowsOrUnderway
<1> QED BY <1>1, <1>2, <1>3, <1>4 DEF MetaInv

\* What register and unregister have in common: thread t, which drives the provider of
\* e, has changed its route and goes on to tell.
LEMMA ChangeKeeps ==
  ASSUME MetaInv, NEW t \in Threads, NEW e \in Event, pc[t] = "idle",
         Owner[e.plugin_id] = t, StartNotify(t, e),
         routes' \in Seq(Route), RoutesUnique', Current(RouteKey(e))' = Told(e),
         \A k : k # RouteKey(e) => Current(k)' = Current(k)
  PROVE  MetaInv'
<1>1. TypeOK /\ RoutesUnique /\ NotesCurrent /\ SnapsWanted /\ HeardSubscribed
  BY DEF MetaInv
<1>2. /\ pc' = [pc EXCEPT ![t] = "notify"] /\ note' = [note EXCEPT ![t] = <<e>>]
      /\ UNCHANGED <<subscribers, snaps, view>>
  BY DEF StartNotify
<1>3. /\ pc'[t] = "notify" /\ note'[t] = <<e>> /\ note'[t][1] = e /\ snaps[t] = <<>>
      /\ \A u \in Threads \ {t} : pc'[u] = pc[u] /\ note'[u] = note[u]
  BY <1>1, <1>2 DEF TypeOK, SnapsWanted
<1>4. TypeOK'
  BY <1>1, <1>2 DEF TypeOK
<1>5. SubsUnique' /\ SnapshotsSound'
  BY <1>2 DEF MetaInv, SubsUnique, SnapshotsSound
<1>6. NotesCurrent'
  <2> SUFFICES ASSUME NEW u \in Threads, pc'[u] # "idle"
               PROVE  /\ note'[u] # <<>> /\ note'[u][1] \in Event
                      /\ Owner[note'[u][1].plugin_id] = u
                      /\ Current(RouteKey(note[u][1]))' = Told(note'[u][1])
    BY DEF NotesCurrent, Told
  <2>1. CASE u = t
    BY <1>3, <2>1
  <2>2. CASE u # t
    <3>1. /\ note[u] # <<>> /\ note[u][1] \in Event /\ Owner[note[u][1].plugin_id] = u
          /\ Current(RouteKey(note[u][1])) = Told(note[u][1])
      BY <1>1, <1>3, <2>2 DEF NotesCurrent
    <3>2. RouteKey(note[u][1]) # RouteKey(e)
      BY <2>2, <3>1 DEF RouteKey
    <3> QED BY <1>3, <2>2, <3>1, <3>2
  <2> QED BY <2>1, <2>2
<1>7. SnapsWanted' /\ HeardSubscribed'
  BY <1>1, <1>2, <1>3 DEF SnapsWanted, HeardSubscribed, Subscribed
<1>8. ASSUME KnowsOrUnderway PROVE KnowsOrUnderway'
  <2> SUFFICES ASSUME NEW s \in SubKey, NEW k \in Key, view[s][k] # "unseen"
               PROVE  view[s][k] = Current(k)' \/ Underway(s, k)'
    BY <1>2 DEF KnowsOrUnderway
  <2>1. CASE k = RouteKey(e)
    BY <1>3, <2>1 DEF Underway, RouteKey
  <2>2. CASE k # RouteKey(e)
    <3>1. Underway(s, k) => Underway(s, k)'
      <4>1. pc[Owner[k[2]]] # "idle" /\ k \in Key => Owner[k[2]] \in Threads \ {t}
        BY MetaAssumption DEF Key
      <4> QED BY <1>2, <1>3, <4>1 DEF Underway
    <3> QED BY <1>8, <2>2, <3>1 DEF KnowsOrUnderway
  <2> QED BY <2>1, <2>2
<1> QED BY <1>2, <1>4, <1>5, <1>6, <1>7, <1>8 DEF MetaInv

\* Every step of every thread keeps the invariant.
LEMMA MetaStepInv == MetaInv /\ [Next]_vars => MetaInv'
<1> SUFFICES ASSUME MetaInv, [Next]_vars PROVE MetaInv'
  OBVIOUS
<1>0. /\ TypeOK /\ RoutesUnique /\ SubsUnique /\ SnapshotsSound /\ NotesCurrent
      /\ SnapsWanted /\ HeardSubscribed
  BY DEF MetaInv
<1>1. ASSUME NEW t \in Threads, NEW p \in Protocols, NEW g \in Plugins, NEW v \in Versions,
             hw_metaproto_register(t, p, g, v)
      PROVE  MetaInv'
  <2>1. PICK st \in {"REGISTERED", "CHANGED"} : StartNotify(t, Announce(Entry(p, g, v), st))
    BY <1>1 DEF hw_metaproto_register
  <2> DEFINE e == Announce(Entry(p, g, v), st)
  <2>2. /\ e \in Event /\ RouteKey(e) = <<p, g>> /\ e.plugin_id = g /\ Told(e) = v
        /\ pc[t] = "idle" /\ Owner[g] = t
    BY <1>1 DEF Announce, Entry, Event, RouteKey, Told, hw_metaproto_register
  <2> HIDE DEF e
  <2> QED BY <1>1, <2>1, <2>2, RegisterRoutes, ChangeKeeps DEF e
<1>2. ASSUME NEW t \in Threads, NEW q \in Protocols, NEW by \in Plugins \cup {NULL},
             hw_metaproto_unregister(t, q, by)
      PROVE  MetaInv'
  <2>0. PICK i \in DOMAIN routes :
          /\ routes' = RemoveAt(routes, i) /\ StartNotify(t, Announce(routes[i], "REMOVED"))
          /\ pc[t] = "idle" /\ Owner[routes[i].plugin_id] = t
    BY <1>2 DEF hw_metaproto_unregister, Removable
  <2>r. routes \in Seq(Route) /\ routes[i] \in Route
    BY <2>0 DEF MetaInv, TypeOK
  <2>k. PICK p \in Protocols, g \in Plugins : RouteKey(routes[i]) = <<p, g>> /\ g = routes[i].plugin_id
    BY <2>r DEF Route, RouteKey
  <2>1. i \in Matches(p, g) /\ routes' = RemoveAt(routes, i) /\ StartNotify(t, Announce(routes[i], "REMOVED"))
    BY <2>0, <2>k DEF Matches
  <2> PICK e : e = Announce(routes[i], "REMOVED")
    OBVIOUS
  <2>2. /\ routes' \in Seq(Route) /\ RoutesUnique' /\ routes[i] \in Route
        /\ RouteKey(routes[i]) = <<p, g>> /\ Current(<<p, g>>)' = "removed"
        /\ \A k : k # <<p, g>> => Current(k)' = Current(k)
    BY <2>1, UnregisterRoutes
  <2>3. /\ e \in Event /\ RouteKey(e) = <<p, g>> /\ e.plugin_id = g /\ Told(e) = "removed"
        /\ pc[t] = "idle" /\ Owner[g] = t
    BY <2>0, <2>2, <2>k DEF Announce, Event, RouteKey, Route, Told
  <2> QED BY <2>1, <2>2, <2>3, ChangeKeeps
<1>3. ASSUME NEW t \in Threads, NEW w \in Subscribers, NEW p \in Protocols \cup {ANY},
             NEW c \in Callbacks, hw_metaproto_subscribe(t, w, p, c)
      PROVE  MetaInv'
  <2>1. UNCHANGED <<routes, note, snaps, pc, view>>
    BY <1>3 DEF hw_metaproto_subscribe
  <2>2. /\ subscribers' \in Seq(Subscription) /\ SubsUnique'
        /\ Len(subscribers) <= Len(subscribers') /\ \A s : Subscribed(s) => Subscribed(s)'
    BY <1>3, SubscribeKeeps
  <2>3. TypeOK' /\ RoutesUnique' /\ SnapshotsSound' /\ NotesCurrent'
    <3>1. TypeOK' /\ RoutesUnique' /\ SnapshotsSound'
      BY <1>0, <2>1, <2>2 DEF TypeOK, RoutesUnique, SnapshotsSound
    <3>2. \A k : Current(k)' = Current(k)
      BY <2>1 DEF Current
    <3> QED BY <1>0, <2>1, <3>1, <3>2 DEF NotesCurrent, Told
  <2>4. SnapsWanted' /\ HeardSubscribed'
    BY <1>0, <2>1, <2>2 DEF SnapsWanted, HeardSubscribed
  <2>5. KnowsOrUnderway => KnowsOrUnderway'
    BY <2>1 DEF KnowsOrUnderway, Underway, Current
  <2>6. Len(subscribers') <= SnapMax => Len(subscribers) <= SnapMax
    BY <1>0, <2>2, MetaAssumption DEF TypeOK
  <2> QED BY <2>2, <2>3, <2>4, <2>5, <2>6 DEF MetaInv
<1>4. ASSUME NEW t \in Threads, NotifySnapshot(t) PROVE MetaInv'
  <2> PICK e : e = note[t][1]
    OBVIOUS
  <2>1. PICK f \in Snapshot(e) :
          snaps' = [snaps EXCEPT ![t] = [i \in DOMAIN f |-> SubId(subscribers[f[i]])]]
    BY <1>4 DEF NotifySnapshot
  <2> PICK s : s = [i \in DOMAIN f |-> SubId(subscribers[f[i]])]
    OBVIOUS
  <2>2. /\ s \in Seq(SubKey) /\ Len(s) <= SnapMax /\ DOMAIN s = DOMAIN f
        /\ \A i, j \in DOMAIN s : s[i] = s[j] => i = j
        /\ \A i \in DOMAIN s : Subscribed(s[i]) /\ s[i][2] \in {ANY, e.protocol}
    BY SnapshotFacts
  <2>3. /\ snaps' = [snaps EXCEPT ![t] = s] /\ pc[t] = "notify" /\ pc' = [pc EXCEPT ![t] = "dispatch"]
        /\ UNCHANGED <<routes, subscribers, note, view>>
    BY <1>4, <2>1 DEF NotifySnapshot
  <2>4. /\ snaps'[t] = s /\ pc'[t] = "dispatch"
        /\ \A u \in Threads \ {t} : snaps'[u] = snaps[u] /\ pc'[u] = pc[u]
    BY <1>0, <2>3 DEF TypeOK
  <2>5. TypeOK' /\ RoutesUnique' /\ SubsUnique'
    BY <1>0, <2>2, <2>3 DEF TypeOK, RoutesUnique, SubsUnique
  <2>6. SnapshotsSound'
    BY <1>0, <2>2, <2>4, SMTT(60) DEF SnapshotsSound
  <2>7. NotesCurrent' /\ HeardSubscribed'
    BY <1>0, <2>3, <2>4, SMTT(60) DEF NotesCurrent, HeardSubscribed, Subscribed, Current
  <2>8. SnapsWanted'
    BY <1>0, <2>2, <2>3, <2>4, SMTT(60) DEF SnapsWanted, Subscribed
  <2>9. ASSUME Len(subscribers) <= SnapMax, KnowsOrUnderway PROVE KnowsOrUnderway'
    <3> SUFFICES ASSUME NEW w \in SubKey, NEW k \in Key, view[w][k] # "unseen", Underway(w, k)
                 PROVE  Underway(w, k)'
      BY <2>3, <2>9 DEF KnowsOrUnderway, Current
    <3>1. CASE Owner[k[2]] # t
      <4>1. Owner[k[2]] \in Threads
        BY MetaAssumption DEF Key
      <4> QED BY <2>3, <2>4, <3>1, <4>1 DEF Underway
    <3>2. CASE Owner[k[2]] = t
      <4>1. RouteKey(e) = k /\ e.protocol = k[1]
        BY <3>2 DEF Underway, RouteKey
      <4>2. PICK j \in DOMAIN subscribers : SubId(subscribers[j]) = w /\ w[2] \in {ANY, k[1]}
        BY <1>0 DEF HeardSubscribed, Subscribed
      <4>3. j \in Interested(e)
        BY <4>1, <4>2 DEF Interested, Wants, SubId
      <4>4. PICK i \in DOMAIN f : f[i] = j
        BY <2>9, <4>3, SnapshotComplete
      <4>5. i \in DOMAIN s /\ s[i] = w
        BY <2>2, <4>2, <4>4
      <4> QED BY <2>3, <2>4, <3>2, <4>1, <4>5 DEF Underway
    <3> QED BY <3>1, <3>2
  <2> QED BY <2>3, <2>5, <2>6, <2>7, <2>8, <2>9 DEF MetaInv
<1>5. ASSUME NEW t \in Threads, NotifyDispatch(t) PROVE MetaInv'
  <2> PICK e, s, k : e = note[t][1] /\ s = Head(snaps[t]) /\ k = RouteKey(e)
    OBVIOUS
  <2>1. /\ pc[t] = "dispatch" /\ snaps[t] # <<>> /\ snaps[t] \in Seq(SubKey)
        /\ view' = [view EXCEPT ![s][k] = Told(e)] /\ snaps' = [snaps EXCEPT ![t] = Tail(snaps[t])]
        /\ UNCHANGED <<routes, subscribers, note, pc>>
    BY <1>0, <1>5 DEF NotifyDispatch, Told, TypeOK
  <2>2. /\ s \in SubKey /\ Tail(snaps[t]) \in Seq(SubKey) /\ s = snaps[t][1]
        /\ Len(snaps[t]) \in Nat \ {0} /\ DOMAIN snaps[t] = 1 .. Len(snaps[t])
        /\ DOMAIN Tail(snaps[t]) = 1 .. Len(snaps[t]) - 1
        /\ Len(Tail(snaps[t])) = Len(snaps[t]) - 1
        /\ \A i \in 1 .. Len(snaps[t]) - 1 : Tail(snaps[t])[i] = snaps[t][i + 1]
    BY <2>1
  <2>3. /\ snaps'[t] = Tail(snaps[t])
        /\ \A u \in Threads \ {t} : snaps'[u] = snaps[u]
    BY <1>0, <2>1 DEF TypeOK
  <2>4. e \in Event /\ k \in Key /\ Told(e) \in Versions \cup {"removed"} /\ Current(k) = Told(e)
        /\ Owner[k[2]] = t /\ k[1] = e.protocol
    BY <1>0, <2>1 DEF NotesCurrent, Event, Key, RouteKey, Told
  <2>5. Subscribed(s) /\ s[2] \in {ANY, k[1]}
    BY <1>0, <2>2, <2>4 DEF SnapsWanted
  <2>6. /\ view'[s][k] = Told(e)
        /\ \A w \in SubKey, q \in Key : <<w, q>> # <<s, k>> => view'[w][q] = view[w][q]
    BY <1>0, <2>1, <2>2, <2>4 DEF TypeOK
  <2>7. TypeOK'
    <3>1. view' \in [SubKey -> [Key -> Versions \cup {"unseen", "removed"}]]
      BY <1>0, <2>1, <2>2, <2>4 DEF TypeOK
    <3> QED BY <1>0, <2>1, <2>2, <3>1 DEF TypeOK
  <2>8. RoutesUnique' /\ SubsUnique' /\ NotesCurrent'
    <3>1. \A q : Current(q)' = Current(q)
      BY <2>1 DEF Current
    <3> QED BY <1>0, <2>1, <3>1 DEF RoutesUnique, SubsUnique, NotesCurrent, Told
  <2>9. SnapshotsSound'
    <3>1. Len(Tail(snaps[t])) <= SnapMax
      BY <1>0, <2>2, MetaAssumption DEF SnapshotsSound
    <3>2. \A i, j \in DOMAIN Tail(snaps[t]) : Tail(snaps[t])[i] = Tail(snaps[t])[j] => i = j
      <4> TAKE i, j \in DOMAIN Tail(snaps[t])
      <4>1. /\ i + 1 \in DOMAIN snaps[t] /\ Tail(snaps[t])[i] = snaps[t][i + 1] /\ i \in Nat
            /\ j + 1 \in DOMAIN snaps[t] /\ Tail(snaps[t])[j] = snaps[t][j + 1] /\ j \in Nat
        BY <2>2
      <4> QED BY <1>0, <4>1 DEF SnapshotsSound
    <3> QED BY <1>0, <2>3, <3>1, <3>2 DEF SnapshotsSound
  <2>10. SnapsWanted'
    <3>1. \A i \in DOMAIN Tail(snaps[t]) :
            Subscribed(Tail(snaps[t])[i]) /\ Tail(snaps[t])[i][2] \in {ANY, e.protocol}
      <4> TAKE i \in DOMAIN Tail(snaps[t])
      <4>1. i + 1 \in DOMAIN snaps[t] /\ Tail(snaps[t])[i] = snaps[t][i + 1]
        BY <2>2
      <4> QED BY <1>0, <4>1 DEF SnapsWanted
    <3> QED BY <1>0, <2>1, <2>3, <3>1 DEF SnapsWanted, Subscribed
  <2>11. HeardSubscribed'
    BY <1>0, <2>1, <2>5, <2>6 DEF HeardSubscribed, Subscribed
  <2>12. ASSUME KnowsOrUnderway PROVE KnowsOrUnderway'
    <3> SUFFICES ASSUME NEW w \in SubKey, NEW q \in Key, view'[w][q] # "unseen"
                 PROVE  view'[w][q] = Current(q) \/ Underway(w, q)'
      BY <2>1, SMTT(60) DEF KnowsOrUnderway, Current
    <3>1. CASE w = s /\ q = k
      BY <2>4, <2>6, <3>1
    <3>2. CASE <<w, q>> # <<s, k>>
      <4>1. view[w][q] = Current(q) \/ Underway(w, q)
        BY <2>6, <2>12, <3>2 DEF KnowsOrUnderway
      <4>2. ASSUME Underway(w, q) PROVE Underway(w, q)'
        <5>1. CASE Owner[q[2]] = t
          <6>1. RouteKey(note[t][1]) = q /\ q = k
            BY <4>2, <5>1 DEF Underway
          <6>2. PICK i \in DOMAIN snaps[t] : snaps[t][i] = w
            BY <2>1, <4>2, <5>1 DEF Underway
          <6>3. i # 1 /\ i - 1 \in DOMAIN Tail(snaps[t]) /\ Tail(snaps[t])[i - 1] = w
            BY <2>2, <3>2, <6>1, <6>2
          <6> QED BY <2>1, <2>3, <5>1, <6>1, <6>3 DEF Underway
        <5>2. CASE Owner[q[2]] # t
          <6>1. Owner[q[2]] \in Threads
            BY MetaAssumption DEF Key
          <6> QED BY <2>1, <2>3, <4>2, <5>2, <6>1 DEF Underway
        <5> QED BY <5>1, <5>2
      <4> QED BY <2>6, <3>2, <4>1, <4>2
    <3> QED BY <3>1, <3>2
  <2> QED BY <2>1, <2>7, <2>8, <2>9, <2>10, <2>11, <2>12 DEF MetaInv
<1>6. ASSUME NEW t \in Threads, NotifyReturn(t) PROVE MetaInv'
  <2>1. /\ pc[t] = "dispatch" /\ snaps[t] = <<>> /\ pc' = [pc EXCEPT ![t] = "idle"]
        /\ note' = [note EXCEPT ![t] = <<>>] /\ UNCHANGED <<routes, subscribers, snaps, view>>
    BY <1>6 DEF NotifyReturn
  <2>2. /\ pc'[t] = "idle"
        /\ \A u \in Threads \ {t} : pc'[u] = pc[u] /\ note'[u] = note[u]
    BY <1>0, <2>1 DEF TypeOK
  <2>3. TypeOK' /\ RoutesUnique' /\ SubsUnique' /\ SnapshotsSound'
    BY <1>0, <2>1 DEF TypeOK, RoutesUnique, SubsUnique, SnapshotsSound
  <2>4. NotesCurrent' /\ SnapsWanted' /\ HeardSubscribed'
    BY <1>0, <2>1, <2>2 DEF NotesCurrent, SnapsWanted, HeardSubscribed, Subscribed, Current
  <2>5. ASSUME KnowsOrUnderway PROVE KnowsOrUnderway'
    <3> SUFFICES ASSUME NEW s \in SubKey, NEW k \in Key, view[s][k] # "unseen", Underway(s, k)
                 PROVE  Underway(s, k)'
      BY <2>1, <2>5 DEF KnowsOrUnderway, Current
    <3>1. Owner[k[2]] \in Threads \ {t}
      BY <2>1, MetaAssumption DEF Key, Underway
    <3> QED BY <2>1, <2>2, <3>1 DEF Underway
  <2> QED BY <2>1, <2>3, <2>4, <2>5 DEF MetaInv
<1>7. CASE UNCHANGED vars
  <2>1. TypeOK' /\ RoutesUnique' /\ SubsUnique' /\ SnapshotsSound'
    BY <1>0, <1>7 DEF vars, TypeOK, RoutesUnique, SubsUnique, SnapshotsSound
  <2>2. NotesCurrent' /\ SnapsWanted' /\ HeardSubscribed'
    BY <1>0, <1>7 DEF vars, NotesCurrent, SnapsWanted, HeardSubscribed, Subscribed, Current
  <2>3. KnowsOrUnderway => KnowsOrUnderway'
    BY <1>7 DEF vars, KnowsOrUnderway, Underway, Current
  <2> QED BY <1>7, <2>1, <2>2, <2>3 DEF vars, MetaInv
<1> QED
  BY <1>1, <1>2, <1>3, <1>4, <1>5, <1>6, <1>7 DEF Next, Register, Unregister, Subscribe, Notify

\* At every step of every thread: one route per protocol and provider, and no
\* subscriber that is to be told of a change twice (metaproto.c).
THEOREM RegistryIsSound == Spec => []RegistrySound
<1>1. MetaInv => RegistrySound
  BY DEF MetaInv, RegistrySound
<1> QED BY <1>1, MetaInitInv, MetaStepInv, PTL DEF Spec

\* Although hw_metaproto_notify runs outside the lock, who has heard of a provider knows
\* its registration when the provider's thread is between calls, as far as the
\* subscribers fit into the snapshot array.
THEOREM ViewsAreCurrent == Spec => []ViewsCurrent
<1>1. MetaInv => ViewsCurrent
  BY DEF MetaInv, ViewsCurrent, KnowsOrUnderway, Underway
<1> QED BY <1>1, MetaInitInv, MetaStepInv, PTL DEF Spec

-----------------------------------------------------------------------------
(* The text of audit lines (AuditText).  Texts are over any set of characters *)
(* that has those which fmt_esc treats apart; induction goes along the texts, *)
(* a character at a time, and along the seven fields.                         *)

\* The four characters that fmt_esc escapes have escapes of their own, none of them a
\* line end or a digit.
LEMMA EscapeKinds ==
  /\ DOMAIN Escapes = {"\\", "|", "\n", "\r"}
  /\ Escapes["\\"] = "\\" /\ Escapes["|"] = "|" /\ Escapes["\n"] = "n" /\ Escapes["\r"] = "r"
  /\ \A c, d \in DOMAIN Escapes : Escapes[c] = Escapes[d] => c = d
  /\ \A c \in DOMAIN Escapes : Escapes[c] \in {"\\", "|", "n", "r"}
  /\ \A c \in DOMAIN Escapes : Escapes[c] \notin {"\n", "\r"} \cup Digits
<1>1. DOMAIN Escapes = {"\\", "|", "\n", "\r"}
  BY DEF Escapes
<1>2. Escapes["\\"] = "\\" /\ Escapes["|"] = "|" /\ Escapes["\n"] = "n" /\ Escapes["\r"] = "r"
  BY DEF Escapes
<1>3. \A c, d \in DOMAIN Escapes : Escapes[c] = Escapes[d] => c = d
  BY <1>1, <1>2
<1>4. \A c \in DOMAIN Escapes : Escapes[c] \in {"\\", "|", "n", "r"}
  BY <1>1, <1>2
<1>7. \A x \in {"\\", "|", "n", "r"} : x \notin {"\n", "\r"}
  OBVIOUS
<1>8. \A x \in {"\\", "|", "n", "r"} : x \notin Digits
  BY DEF Digits
<1>9. \A c \in DOMAIN Escapes : Escapes[c] \notin {"\n", "\r"} \cup Digits
  BY <1>4, <1>7, <1>8
<1>10. QED
  BY <1>1, <1>2, <1>3, <1>4, <1>9

\* The characters of texts: these and any others.
Letters(C) == {"\\", "|", "\n", "\r", "n", "r"} \subseteq C

\* What fmt_esc writes for one character.
Written(c) == IF c \in DOMAIN Escapes THEN <<"\\", Escapes[c]>> ELSE <<c>>

\* fmt_esc writes two characters for those it escapes, and the others as they are.
LEMMA WrittenIs ==
  ASSUME NEW C, Letters(C)
  PROVE  /\ \A c \in C : Written(c) \in Seq(C)
         /\ \A c \in DOMAIN Escapes : Written(c) = <<"\\", Escapes[c]>> /\ Len(Written(c)) = 2
         /\ \A c \in C \ DOMAIN Escapes : Written(c) = <<c>> /\ Len(Written(c)) = 1
<1>1. "\\" \in C /\ \A c \in DOMAIN Escapes : Escapes[c] \in C
  BY EscapeKinds DEF Letters
<1>2. \A c \in DOMAIN Escapes : <<"\\", Escapes[c]>> \in Seq(C)
  BY <1>1
<1>3. \A c \in C : <<c>> \in Seq(C)
  OBVIOUS
<1>4. QED
  BY <1>2, <1>3 DEF Written

\* fmt_esc goes character by character.
LEMMA WrittenOn ==
  ASSUME NEW C, Letters(C)
  PROVE  /\ fmt_esc(<<>>) = <<>>
         /\ \A s \in Seq(C) : fmt_esc(s) \in Seq(C)
         /\ \A s \in Seq(C), c \in C : fmt_esc(Append(s, c)) = fmt_esc(s) \o Written(c)
<1> DEFINE Parts(s) == [i \in DOMAIN s |-> Written(s[i])]
<1>1. \A s : fmt_esc(s) = FlattenSeq(Parts(s))
  BY DEF fmt_esc, Written
<1>2. ASSUME NEW s \in Seq(C)
      PROVE  Parts(s) \in Seq(Seq(C)) /\ Len(Parts(s)) = Len(s) /\ \A k \in 1 .. Len(s) : Parts(s)[k] = Written(s[k])
  <2>1. DOMAIN s = 1 .. Len(s) /\ \A k \in 1 .. Len(s) : s[k] \in C
    OBVIOUS
  <2>2. \A k \in 1 .. Len(s) : Written(s[k]) \in Seq(C)
    BY <2>1, WrittenIs
  <2>3. QED
    BY <2>1, <2>2
<1>3. Parts(<<>>) = <<>>
  OBVIOUS
<1>4. ASSUME NEW s \in Seq(C), NEW c \in C
      PROVE  Parts(Append(s, c)) = Append(Parts(s), Written(c))
  <2>1. PICK t : t = Append(s, c)
    OBVIOUS
  <2>2. PICK u, v, w : u = Parts(t) /\ v = Parts(s) /\ w = Append(v, Written(c))
    OBVIOUS
  <2>3. PICK n \in Nat : n = Len(s) /\ t \in Seq(C) /\ Len(t) = n + 1 /\ t[n + 1] = c /\ \A k \in 1 .. n : t[k] = s[k]
    BY <2>1
  <2>4. u \in Seq(Seq(C)) /\ Len(u) = n + 1 /\ \A k \in 1 .. n + 1 : u[k] = Written(t[k])
    BY <1>2, <2>2, <2>3
  <2>5. v \in Seq(Seq(C)) /\ Len(v) = n /\ \A k \in 1 .. n : v[k] = Written(s[k])
    BY <1>2, <2>2, <2>3
  <2>6. Written(c) \in Seq(C)
    BY WrittenIs
  <2>7. w \in Seq(Seq(C)) /\ Len(w) = n + 1 /\ w[n + 1] = Written(c)
        /\ \A k \in 1 .. n : w[k] = v[k]
    BY <2>2, <2>5, <2>6
  <2>8. \A k \in 1 .. n + 1 : u[k] = w[k]
    <3>1. \A k \in 1 .. n : k \in 1 .. n + 1 /\ u[k] = w[k]
      BY <2>3, <2>4, <2>5, <2>7
    <3>2. n + 1 \in 1 .. n + 1
      OBVIOUS
    <3>3. u[n + 1] = w[n + 1]
      BY <2>3, <2>4, <2>7, <3>2
    <3>4. \A k \in 1 .. n + 1 : k \in 1 .. n \/ k = n + 1
      OBVIOUS
    <3>5. QED
      BY <3>1, <3>3, <3>4
  <2>9. u = w
    BY <2>4, <2>7, <2>8, SameMembers
  <2>10. QED
    BY <2>1, <2>2, <2>9
<1> HIDE DEF Parts
<1>5. ASSUME NEW s \in Seq(C), NEW c \in C
      PROVE  fmt_esc(s) \in Seq(C) /\ fmt_esc(Append(s, c)) = fmt_esc(s) \o Written(c)
  <2>1. Parts(s) \in Seq(Seq(C)) /\ Written(c) \in Seq(C)
    BY <1>2, WrittenIs
  <2>2. FlattenSeq(Parts(s)) \in Seq(C) /\ FlattenSeq(Append(Parts(s), Written(c))) = FlattenSeq(Parts(s)) \o Written(c)
    BY <2>1, Flattened
  <2>3. QED
    BY <1>1, <1>4, <2>2
<1>6. fmt_esc(<<>>) = <<>>
  <2>1. <<>> \in Seq(Seq(C))
    OBVIOUS
  <2>2. FlattenSeq(<<>>) = <<>>
    BY <2>1, Flattened
  <2>3. QED
    BY <1>1, <1>3, <2>2
<1>7. "n" \in C
  BY DEF Letters
<1>8. QED
  BY <1>5, <1>6, <1>7

-----------------------------------------------------------------------------
\* What esc_field returns: whether it could, the text, and where the next field begins.
FieldType(C) == [ok : BOOLEAN, out : Seq(C), next : Nat]
AtEnd(t) == [ok |-> TRUE, out |-> <<>>, next |-> Len(t) + 1]
Before(s, r) == [ok |-> r.ok, out |-> s \o r.out, next |-> r.next]
\* esc_field at a place in the text, by what it is one and two places on.
Reading(t, k, one, two) ==
  IF t[k] = "|" THEN [ok |-> TRUE, out |-> <<>>, next |-> k + 1]
  ELSE IF t[k] # "\\" THEN Before(<<t[k]>>, one)
  ELSE IF k = Len(t) \/ \A c \in DOMAIN Escapes : Escapes[c] # t[k + 1] THEN NoField
  ELSE Before(<<CHOOSE c \in DOMAIN Escapes : Escapes[c] = t[k + 1]>>, two)

\* What is put before what is read adds up.
LEMMA BeforeIs ==
  ASSUME NEW C
  PROVE  /\ \A s \in Seq(C), r \in FieldType(C) : Before(s, r) \in FieldType(C)
         /\ \A r \in FieldType(C) : Before(<<>>, r) = r
         /\ \A a, b \in Seq(C), r \in FieldType(C) : Before(a, Before(b, r)) = Before(a \o b, r)
<1>1. ASSUME NEW s \in Seq(C), NEW r \in FieldType(C)
      PROVE  Before(s, r) \in FieldType(C)
  <2>1. r.out \in Seq(C) /\ r.ok \in BOOLEAN /\ r.next \in Nat
    BY <1>1 DEF FieldType
  <2>2. s \o r.out \in Seq(C)
    BY <2>1
  <2>3. Before(s, r) \in FieldType(C)
    BY <2>1, <2>2 DEF Before, FieldType
  <2>4. QED
    BY <2>3
<1>2. ASSUME NEW r \in FieldType(C) PROVE Before(<<>>, r) = r
  <2>1. r.out \in Seq(C)
    BY <1>2 DEF FieldType
  <2>2. <<>> \o r.out = r.out
    BY <2>1
  <2>3. QED
    BY <1>2, <2>2 DEF Before, FieldType
<1>3. ASSUME NEW a \in Seq(C), NEW b \in Seq(C), NEW r \in FieldType(C)
      PROVE  Before(a, Before(b, r)) = Before(a \o b, r)
  <2>1. PICK w \in Seq(C) : w = r.out
    BY <1>3 DEF FieldType
  <2>2. (a \o b) \o w = a \o (b \o w)
    BY Associated, SMTT(60)
  <2>3. QED
    BY <2>1, <2>2 DEF Before
<1>4. QED
  BY <1>1, <1>2, <1>3

\* One place of a text, read, is again a field.
LEMMA ReadingIs ==
  ASSUME NEW C, Letters(C), NEW t \in Seq(C), NEW k \in 1 .. Len(t), NEW one \in FieldType(C), NEW two \in FieldType(C)
  PROVE  Reading(t, k, one, two) \in FieldType(C)
<1>1. t[k] \in C /\ <<t[k]>> \in Seq(C)
  OBVIOUS
<1>2. CASE t[k] = "|"
  BY <1>2 DEF Reading, FieldType
<1>3. CASE t[k] # "|" /\ t[k] # "\\"
  BY <1>1, <1>3, BeforeIs DEF Reading
<1>4. CASE t[k] = "\\" /\ (k = Len(t) \/ \A c \in DOMAIN Escapes : Escapes[c] # t[k + 1])
  BY <1>4 DEF Reading, NoField, FieldType
<1>5. CASE t[k] = "\\" /\ ~(k = Len(t) \/ \A c \in DOMAIN Escapes : Escapes[c] # t[k + 1])
  <2>1. PICK e : e = CHOOSE c \in DOMAIN Escapes : Escapes[c] = t[k + 1]
    OBVIOUS
  <2>2. e \in DOMAIN Escapes
    BY <1>5, <2>1
  <2>3. \A c \in DOMAIN Escapes : c \in C
    BY EscapeKinds DEF Letters
  <2>4. <<e>> \in Seq(C)
    BY <2>2, <2>3
  <2>5. Reading(t, k, one, two) = Before(<<e>>, two)
    BY <1>5, <2>1 DEF Reading
  <2>6. QED
    <3>1. Before(<<e>>, two) \in FieldType(C)
      BY <2>4, BeforeIs
    <3>2. QED
      BY <2>5, <3>1
<1>6. QED
  BY <1>2, <1>3, <1>4, <1>5

\* What esc_field makes of what it reads further on.
Longer(s, r) == [r EXCEPT !.out = s \o @]

\* esc_field only changes what was read.
LEMMA LongerIs ==
  ASSUME NEW C, NEW s \in Seq(C), NEW r \in FieldType(C)
  PROVE  Longer(s, r) = Before(s, r)
<1>1. PICK w : w = s \o r.out
  OBVIOUS
<1>2. [r EXCEPT !.out = w] = [ok |-> r.ok, out |-> w, next |-> r.next]
  BY DEF FieldType
<1>3. QED
  BY <1>1, <1>2 DEF Before, Longer

\* f is what esc_field reads from each place of t.
Reads(f, t) ==
  \A k \in 1 .. Len(t) + 2 : f[k] = IF k > Len(t) THEN AtEnd(t) ELSE Reading(t, k, f[k + 1], f[k + 2])

\* The scan of esc_field gives a field for every place, from the end of the text on.
LEMMA FieldExists ==
  ASSUME NEW C, Letters(C), NEW t \in Seq(C)
  PROVE  \E f \in [1 .. Len(t) + 2 -> FieldType(C)] : Reads(f, t)
<1>1. PICK n \in Nat : n = Len(t)
  OBVIOUS
<1>2. PICK e : e = AtEnd(t)
  OBVIOUS
<1>3. e \in FieldType(C)
  BY <1>1, <1>2 DEF AtEnd, FieldType
<1>4. PICK V : V = FieldType(C) \X FieldType(C)
  OBVIOUS
<1>5. PICK g : g = [j \in 1 .. n |-> [v \in V |-> <<Reading(t, n + 1 - j, v[1], v[2]), v[1]>>]]
  OBVIOUS
<1>6. g \in [1 .. n -> [V -> V]]
  <2>1. ASSUME NEW j \in 1 .. n, NEW v \in V PROVE <<Reading(t, n + 1 - j, v[1], v[2]), v[1]>> \in V
    <3>1. n + 1 - j \in 1 .. n /\ v[1] \in FieldType(C) /\ v[2] \in FieldType(C)
      BY <1>4, <2>1
    <3>2. Reading(t, n + 1 - j, v[1], v[2]) \in FieldType(C)
      BY <1>1, <3>1, ReadingIs
    <3>3. QED
      BY <1>4, <3>1, <3>2
  <2>2. QED
    BY <1>5, <2>1
<1>7. PICK b \in V : b = <<e, e>>
  BY <1>3, <1>4
<1>8. PICK F \in [0 .. n -> V] : F[0] = b /\ \A k \in 1 .. n : F[k] = g[k][F[k - 1]]
  <2>1. n \in Nat /\ b \in V
    BY <1>1, <1>7
  <2>2. \E F \in [0 .. n -> V] : F[0] = b /\ \A k \in 1 .. n : F[k] = g[k][F[k - 1]]
    BY <1>6, <2>1, Unrolled
  <2>3. QED
    BY <2>2
<1>9. PICK f : f = [k \in 1 .. n + 2 |-> IF k = n + 2 THEN e ELSE F[n + 1 - k][1]]
  OBVIOUS
<1>10. ASSUME NEW j \in 0 .. n PROVE F[j] \in V /\ F[j][1] \in FieldType(C) /\ F[j][2] \in FieldType(C)
  <2>1. F[j] \in V
    BY <1>8, <1>10
  <2>2. QED
    BY <1>4, <2>1
<1>11. f \in [1 .. n + 2 -> FieldType(C)]
  <2>1. ASSUME NEW k \in 1 .. n + 2, k # n + 2 PROVE F[n + 1 - k][1] \in FieldType(C)
    <3>1. n + 1 - k \in 0 .. n
      BY <2>1
    <3>2. QED
      BY <1>10, <3>1
  <2>2. QED
    BY <1>3, <1>9, <2>1
<1>12. \A j \in 1 .. n : F[j] = <<Reading(t, n + 1 - j, F[j - 1][1], F[j - 1][2]), F[j - 1][1]>>
  <2> SUFFICES ASSUME NEW j \in 1 .. n PROVE F[j] = <<Reading(t, n + 1 - j, F[j - 1][1], F[j - 1][2]), F[j - 1][1]>>
    OBVIOUS
  <2>1. j - 1 \in 0 .. n
    OBVIOUS
  <2>2. F[j - 1] \in V
    BY <1>10, <2>1
  <2>3. g[j] = [v \in V |-> <<Reading(t, n + 1 - j, v[1], v[2]), v[1]>>]
    BY <1>5
  <2>4. F[j] = g[j][F[j - 1]]
    BY <1>8
  <2>5. QED
    BY <2>2, <2>3, <2>4
<1>13. \A j \in 0 .. n : F[j][1] = f[n + 1 - j] /\ F[j][2] = f[n + 2 - j]
  <2> SUFFICES ASSUME NEW j \in 0 .. n PROVE F[j][1] = f[n + 1 - j] /\ F[j][2] = f[n + 2 - j]
    OBVIOUS
  <2>1. \A m \in 0 .. n : F[m][1] = f[n + 1 - m]
    <3> SUFFICES ASSUME NEW m \in 0 .. n PROVE F[m][1] = f[n + 1 - m]
      OBVIOUS
    <3>1. n + 1 - m \in 1 .. n + 2 /\ n + 1 - m # n + 2 /\ n + 1 - (n + 1 - m) = m
      OBVIOUS
    <3>2. f[n + 1 - m] = F[n + 1 - (n + 1 - m)][1]
      BY <1>9, <3>1
    <3>3. QED
      BY <3>1, <3>2
  <2>2. CASE j = 0
    <3>1. n + 2 \in 1 .. n + 2 /\ f[n + 2] = e
      BY <1>9
    <3>2. F[0][2] = e
      BY <1>7, <1>8
    <3>3. n + 2 - j = n + 2
      BY <2>2
    <3>4. QED
      BY <2>1, <2>2, <3>1, <3>2, <3>3
  <2>3. CASE j # 0
    <3>1. j \in 1 .. n /\ j - 1 \in 0 .. n /\ n + 1 - (j - 1) = n + 2 - j
      BY <2>3
    <3>2. F[j][2] = F[j - 1][1]
      BY <1>12, <3>1
    <3>3. F[j - 1][1] = f[n + 1 - (j - 1)]
      BY <2>1, <3>1
    <3>4. QED
      BY <2>1, <3>1, <3>2, <3>3
  <2>4. QED
    BY <2>2, <2>3
<1>14. ASSUME NEW k \in 1 .. n + 2 PROVE f[k] = IF k > n THEN e ELSE Reading(t, k, f[k + 1], f[k + 2])
  <2>1. CASE k = n + 2
    BY <1>9, <2>1
  <2>2. CASE k = n + 1
    <3>1. f[n + 1] = F[0][1]
      <4>1. 0 \in 0 .. n /\ n + 1 - 0 = n + 1
        OBVIOUS
      <4>2. QED
        BY <1>13, <4>1
    <3>2. F[0][1] = e
      BY <1>7, <1>8
    <3>3. QED
      BY <2>2, <3>1, <3>2
  <2>3. CASE k <= n
    <3>1. PICK j \in 1 .. n : j = n + 1 - k
      BY <2>3
    <3>2. j - 1 \in 0 .. n /\ j \in 0 .. n /\ n + 1 - j = k /\ n + 1 - (j - 1) = k + 1 /\ n + 2 - (j - 1) = k + 2
      BY <3>1
    <3>3. F[j][1] = f[k] /\ F[j - 1][1] = f[k + 1] /\ F[j - 1][2] = f[k + 2]
      <4>1. F[j][1] = f[n + 1 - j]
        BY <1>13, <3>2
      <4>2. F[j - 1][1] = f[n + 1 - (j - 1)] /\ F[j - 1][2] = f[n + 2 - (j - 1)]
        BY <1>13, <3>2
      <4>3. QED
        BY <3>2, <4>1, <4>2
    <3>4. F[j] = <<Reading(t, n + 1 - j, F[j - 1][1], F[j - 1][2]), F[j - 1][1]>>
      BY <1>12
    <3>5. F[j][1] = Reading(t, k, f[k + 1], f[k + 2])
      BY <3>2, <3>3, <3>4, SMTT(60)
    <3>6. QED
      BY <2>3, <3>3, <3>5
  <2>4. QED
    BY <2>1, <2>2, <2>3
<1>15. Reads(f, t)
  BY <1>1, <1>2, <1>14 DEF Reads
<1>16. QED
  BY <1>1, <1>11, <1>15

\* esc_field, character by character.
LEMMA FieldReads ==
  ASSUME NEW C, Letters(C), NEW t \in Seq(C), NEW k \in Nat, 1 <= k, k <= Len(t) + 2
  PROVE  /\ esc_field(t, k) \in FieldType(C)
         /\ k > Len(t) => esc_field(t, k) = AtEnd(t)
         /\ k <= Len(t) => esc_field(t, k) = Reading(t, k, esc_field(t, k + 1), esc_field(t, k + 2))
<1> DEFINE B(f) ==
  [j \in 1 .. Len(t) + 2 |->
        IF j > Len(t) THEN [ok |-> TRUE, out |-> <<>>, next |-> Len(t) + 1]
        ELSE IF t[j] = "|" THEN [ok |-> TRUE, out |-> <<>>, next |-> j + 1]
        ELSE IF t[j] # "\\" THEN [f[j + 1] EXCEPT !.out = <<t[j]>> \o @]
        ELSE IF j = Len(t) \/ \A c \in DOMAIN Escapes : Escapes[c] # t[j + 1] THEN NoField
        ELSE [f[j + 2] EXCEPT !.out = <<CHOOSE c \in DOMAIN Escapes : Escapes[c] = t[j + 1]>> \o @]]
<1>0. PICK n \in Nat : n = Len(t)
  OBVIOUS
<1>1. PICK f \in [1 .. Len(t) + 2 -> FieldType(C)] : Reads(f, t)
  BY FieldExists
<1>2. PICK h : h = CHOOSE f0 : f0 = B(f0)
  OBVIOUS
<1>3. \A j : esc_field(t, j) = h[j]
  BY <1>2 DEF esc_field
<1> DEFINE Body(j, one, two) ==
        IF j > Len(t) THEN [ok |-> TRUE, out |-> <<>>, next |-> Len(t) + 1]
        ELSE IF t[j] = "|" THEN [ok |-> TRUE, out |-> <<>>, next |-> j + 1]
        ELSE IF t[j] # "\\" THEN [one EXCEPT !.out = <<t[j]>> \o @]
        ELSE IF j = Len(t) \/ \A c \in DOMAIN Escapes : Escapes[c] # t[j + 1] THEN NoField
        ELSE [two EXCEPT !.out = <<CHOOSE c \in DOMAIN Escapes : Escapes[c] = t[j + 1]>> \o @]
<1>4. ASSUME NEW j \in 1 .. n + 2, NEW one \in FieldType(C), NEW two \in FieldType(C)
      PROVE  Body(j, one, two) = IF j > n THEN AtEnd(t) ELSE Reading(t, j, one, two)
  <2>0. \A s \in Seq(C) : [one EXCEPT !.out = s \o @] = Before(s, one) /\ [two EXCEPT !.out = s \o @] = Before(s, two)
    <3>1. ASSUME NEW s \in Seq(C), NEW r \in FieldType(C) PROVE [r EXCEPT !.out = s \o @] = Before(s, r)
      <4>1. Longer(s, r) = Before(s, r)
        BY LongerIs
      <4>2. QED
        BY <4>1 DEF Longer
    <3>2. QED
      BY <1>4, <3>1
  <2>1. CASE j > n
    BY <1>0, <2>1 DEF AtEnd
  <2>2. CASE ~(j > n)
    <3>0. j \in 1 .. n /\ t[j] \in C /\ ~(j > Len(t))
      BY <1>0, <2>2
    <3>1. CASE t[j] = "|"
      BY <3>0, <3>1, <2>2 DEF Reading
    <3>2. CASE t[j] # "|" /\ t[j] # "\\"
      <4>1. <<t[j]>> \in Seq(C)
        BY <3>0
      <4>2. [one EXCEPT !.out = <<t[j]>> \o @] = Before(<<t[j]>>, one)
        BY <2>0, <4>1
      <4>3. QED
        BY <3>0, <3>2, <2>2, <4>2 DEF Reading
    <3>3. CASE t[j] = "\\" /\ (j = Len(t) \/ \A c \in DOMAIN Escapes : Escapes[c] # t[j + 1])
      BY <3>0, <3>3, <2>2 DEF Reading
    <3>4. CASE t[j] = "\\" /\ ~(j = Len(t) \/ \A c \in DOMAIN Escapes : Escapes[c] # t[j + 1])
      <4>1. PICK e : e = CHOOSE c \in DOMAIN Escapes : Escapes[c] = t[j + 1]
        OBVIOUS
      <4>2. e \in DOMAIN Escapes
        BY <3>4, <4>1
      <4>3. \A c \in DOMAIN Escapes : c \in C
        BY EscapeKinds DEF Letters
      <4>4. <<e>> \in Seq(C)
        BY <4>2, <4>3
      <4>5. [two EXCEPT !.out = <<e>> \o @] = Before(<<e>>, two)
        BY <2>0, <4>4
      <4>6. QED
        BY <3>0, <3>4, <2>2, <4>1, <4>5 DEF Reading
    <3>5. QED
      BY <3>1, <3>2, <3>3, <3>4
  <2>3. QED
    BY <2>1, <2>2
<1>5. \A a : B(a) = [j \in 1 .. n + 2 |-> Body(j, a[j + 1], a[j + 2])]
  BY <1>0
<1> HIDE DEF B, Body
<1>6. \A j \in 1 .. n + 2 : f[j] \in FieldType(C)
                            /\ f[j] = IF j > n THEN AtEnd(t) ELSE Reading(t, j, f[j + 1], f[j + 2])
  BY <1>0, <1>1 DEF Reads
<1>7. ASSUME NEW j \in 1 .. n + 2 PROVE f[j] = Body(j, f[j + 1], f[j + 2])
  <2>1. CASE j > n
    <3>1. PICK x \in FieldType(C) : x = AtEnd(t)
      BY <1>6, <2>1
    <3>2. \A one, two : Body(j, one, two) = AtEnd(t)
      BY <1>0, <2>1 DEF Body, AtEnd
    <3>3. QED
      BY <1>6, <2>1, <3>2
  <2>2. CASE ~(j > n)
    <3>1. j + 1 \in 1 .. n + 2 /\ j + 2 \in 1 .. n + 2
      BY <2>2
    <3>2. f[j + 1] \in FieldType(C) /\ f[j + 2] \in FieldType(C)
      BY <1>6, <3>1
    <3>3. Body(j, f[j + 1], f[j + 2]) = Reading(t, j, f[j + 1], f[j + 2])
      BY <1>4, <2>2, <3>2
    <3>4. QED
      BY <1>6, <2>2, <3>3
  <2>3. QED
    BY <2>1, <2>2
<1>8. f = B(f)
  <2>1. f = [j \in 1 .. n + 2 |-> f[j]]
    BY <1>0, <1>1
  <2>2. QED
    BY <1>5, <1>7, <2>1
<1>9. h = B(h)
  BY <1>2, <1>8
<1>10. \A j \in 1 .. n + 2 : h[j] = Body(j, h[j + 1], h[j + 2])
  <2>1. PICK w : w = B(h)
    OBVIOUS
  <2>2. w = [j \in 1 .. n + 2 |-> Body(j, h[j + 1], h[j + 2])]
    BY <1>5, <2>1
  <2>3. QED
    BY <1>9, <2>1, <2>2
<1>11. \A j \in 1 .. n + 2 : j > n => h[j] = f[j]
  <2>1. \A j \in 1 .. n + 2 : \A one, two : j > n => Body(j, one, two) = AtEnd(t)
    BY <1>0 DEF Body, AtEnd
  <2>2. QED
    BY <1>7, <1>10, <2>1
<1> DEFINE T == {m \in Nat : m <= n => h[n + 1 - m] = f[n + 1 - m] /\ h[n + 2 - m] = f[n + 2 - m]}
<1>12. 0 \in T
  <2>1. n + 1 \in 1 .. n + 2 /\ n + 2 \in 1 .. n + 2 /\ n + 1 > n /\ n + 2 > n /\ n + 1 - 0 = n + 1 /\ n + 2 - 0 = n + 2
    OBVIOUS
  <2>2. h[n + 1] = f[n + 1] /\ h[n + 2] = f[n + 2]
    BY <1>11, <2>1
  <2>3. QED
    BY <2>1, <2>2
<1>13. ASSUME NEW m \in Nat, m \in T PROVE m + 1 \in T
  <2> SUFFICES ASSUME m + 1 <= n PROVE h[n + 1 - (m + 1)] = f[n + 1 - (m + 1)] /\ h[n + 2 - (m + 1)] = f[n + 2 - (m + 1)]
    OBVIOUS
  <2>1. PICK j \in 1 .. n : j = n - m
    OBVIOUS
  <2>2. j \in 1 .. n + 2 /\ n + 1 - m = j + 1 /\ n + 2 - m = j + 2 /\ n + 1 - (m + 1) = j /\ n + 2 - (m + 1) = j + 1 /\ m <= n
    BY <2>1
  <2>3. h[j + 1] = f[j + 1] /\ h[j + 2] = f[j + 2]
    <3>1. h[n + 1 - m] = f[n + 1 - m] /\ h[n + 2 - m] = f[n + 2 - m]
      BY <1>13, <2>2
    <3>2. QED
      BY <2>2, <3>1
  <2>4. h[j] = Body(j, f[j + 1], f[j + 2])
    BY <1>10, <2>2, <2>3
  <2>5. h[j] = f[j]
    BY <1>7, <2>2, <2>4
  <2>6. QED
    BY <2>2, <2>3, <2>5
<1>14. \A m \in 0 .. n : h[n + 1 - m] = f[n + 1 - m]
  <2>1. Nat \subseteq T
    <3> HIDE DEF T
    <3>1. QED
      BY <1>12, <1>13, ByInduction
  <2>2. QED
    BY <2>1
<1>15. \A j \in 1 .. n + 2 : h[j] = f[j]
  <2> SUFFICES ASSUME NEW j \in 1 .. n + 2 PROVE h[j] = f[j]
    OBVIOUS
  <2>1. CASE j > n
    BY <1>11, <2>1
  <2>2. CASE ~(j > n)
    <3>1. PICK m \in 0 .. n : m = n + 1 - j
      BY <2>2
    <3>2. n + 1 - m = j
      BY <3>1
    <3>3. h[n + 1 - m] = f[n + 1 - m]
      BY <1>14
    <3>4. QED
      BY <3>2, <3>3
  <2>3. QED
    BY <2>1, <2>2
<1>16. k \in 1 .. n + 2 /\ esc_field(t, k) = f[k]
  BY <1>0, <1>3, <1>15
<1>17. k > n => esc_field(t, k) = AtEnd(t)
  BY <1>6, <1>16
<1>18. k <= n => esc_field(t, k) = Reading(t, k, esc_field(t, k + 1), esc_field(t, k + 2))
  <2> SUFFICES ASSUME k <= n PROVE esc_field(t, k) = Reading(t, k, esc_field(t, k + 1), esc_field(t, k + 2))
    OBVIOUS
  <2>1. k + 1 \in 1 .. n + 2 /\ k + 2 \in 1 .. n + 2
    OBVIOUS
  <2>2. esc_field(t, k + 1) = f[k + 1] /\ esc_field(t, k + 2) = f[k + 2]
    BY <1>3, <1>15, <2>1
  <2>3. QED
    BY <1>6, <1>16, <2>2
<1>19. QED
  BY <1>0, <1>6, <1>16, <1>17, <1>18

\* A character that neither separates nor escapes is read as itself.
LEMMA PlainRead ==
  ASSUME NEW C, Letters(C), NEW t \in Seq(C), NEW k \in 1 .. Len(t), t[k] \notin {"|", "\\"}
  PROVE  esc_field(t, k) = Before(<<t[k]>>, esc_field(t, k + 1))
<1>1. k \in Nat /\ 1 <= k /\ k <= Len(t) + 2 /\ k <= Len(t)
  OBVIOUS
<1>2. esc_field(t, k) = Reading(t, k, esc_field(t, k + 1), esc_field(t, k + 2))
  BY <1>1, FieldReads
<1>3. QED
  BY <1>2 DEF Reading

\* A separator ends the field.
LEMMA SeparatorRead ==
  ASSUME NEW C, Letters(C), NEW t \in Seq(C), NEW k \in 1 .. Len(t), t[k] = "|"
  PROVE  esc_field(t, k) = [ok |-> TRUE, out |-> <<>>, next |-> k + 1]
<1>1. k \in Nat /\ 1 <= k /\ k <= Len(t) + 2 /\ k <= Len(t)
  OBVIOUS
<1>2. esc_field(t, k) = Reading(t, k, esc_field(t, k + 1), esc_field(t, k + 2))
  BY <1>1, FieldReads
<1>3. QED
  BY <1>2 DEF Reading

\* An escape is read as the character it stands for.
LEMMA EscapeRead ==
  ASSUME NEW C, Letters(C), NEW t \in Seq(C), NEW k \in 1 .. Len(t), k # Len(t), t[k] = "\\",
         NEW c \in DOMAIN Escapes, t[k + 1] = Escapes[c]
  PROVE  esc_field(t, k) = Before(<<c>>, esc_field(t, k + 2))
<1>1. k \in Nat /\ 1 <= k /\ k <= Len(t) + 2 /\ k <= Len(t)
  OBVIOUS
<1>2. esc_field(t, k) = Reading(t, k, esc_field(t, k + 1), esc_field(t, k + 2))
  BY <1>1, FieldReads
<1>3. (CHOOSE x \in DOMAIN Escapes : Escapes[x] = t[k + 1]) = c
  BY EscapeKinds
<1>4. "\\" # "|"
  OBVIOUS
<1>5. QED
  BY <1>2, <1>3, <1>4 DEF Reading

\* A backslash that escapes nothing is refused.
LEMMA RefusedRead ==
  ASSUME NEW C, Letters(C), NEW t \in Seq(C), NEW k \in 1 .. Len(t), t[k] = "\\",
         k = Len(t) \/ \A c \in DOMAIN Escapes : Escapes[c] # t[k + 1]
  PROVE  esc_field(t, k) = NoField
<1>1. k \in Nat /\ 1 <= k /\ k <= Len(t) + 2 /\ k <= Len(t)
  OBVIOUS
<1>2. esc_field(t, k) = Reading(t, k, esc_field(t, k + 1), esc_field(t, k + 2))
  BY <1>1, FieldReads
<1>3. "\\" # "|"
  OBVIOUS
<1>4. QED
  BY <1>2, <1>3 DEF Reading

\* What holds of the empty text, and of a text with one more character, holds of all.
LEMMA TextsByInduction ==
  ASSUME NEW C, NEW T, <<>> \in T, \A s \in Seq(C), c \in C : s \in T => Append(s, c) \in T
  PROVE  Seq(C) \subseteq T
<1> DEFINE N == {m \in Nat : \A s \in Seq(C) : Len(s) = m => s \in T}
<1>1. 0 \in N
  OBVIOUS
<1>2. ASSUME NEW m \in Nat, m \in N PROVE m + 1 \in N
  <2> SUFFICES ASSUME NEW s \in Seq(C), Len(s) = m + 1 PROVE s \in T
    OBVIOUS
  <2>1. /\ SubSeq(s, 1, m) \in Seq(C) /\ Len(SubSeq(s, 1, m)) = m /\ s[m + 1] \in C
        /\ SubSeq(s, 1, m + 1) = Append(SubSeq(s, 1, m), s[m + 1])
    BY OneLonger
  <2>2. SubSeq(s, 1, m + 1) = s
    BY WholeList
  <2>3. SubSeq(s, 1, m) \in T
    BY <1>2, <2>1
  <2>4. QED
    BY <2>1, <2>2, <2>3
<1>3. Nat \subseteq N
  <2> HIDE DEF N
  <2>1. QED
    BY <1>1, <1>2, ByInduction
<1>4. QED
  BY <1>3

\* The list w stands in t from p on.
Stands(w, t, p) == p + Len(w) <= Len(t) + 1 /\ \A k \in 1 .. Len(w) : t[p + k - 1] = w[k]
Joined(a, b) == a \o b

\* Where a list stands that is joined of two, each of the two stands.
LEMMA StandsApart ==
  ASSUME NEW C, NEW t \in Seq(C), NEW a \in Seq(C), NEW b \in Seq(C), NEW p \in Nat,
         Stands(Joined(a, b), t, p)
  PROVE  Stands(a, t, p) /\ Stands(b, t, p + Len(a))
<1>1. PICK m \in Nat, n \in Nat, l \in Nat : m = Len(a) /\ n = Len(b) /\ l = Len(t)
  OBVIOUS
<1>2. PICK w : w = a \o b
  OBVIOUS
<1>3. Len(w) = m + n /\ (\A k \in 1 .. m : w[k] = a[k]) /\ \A k \in m + 1 .. m + n : w[k] = b[k - m]
  BY <1>1, <1>2
<1>4. p + m + n <= l + 1 /\ \A k \in 1 .. m + n : t[p + k - 1] = w[k]
  BY <1>1, <1>2, <1>3, SMTT(60) DEF Stands, Joined
<1>5. Stands(a, t, p)
  BY <1>1, <1>3, <1>4 DEF Stands
<1>6. ASSUME NEW k \in 1 .. n PROVE t[(p + m) + k - 1] = b[k]
  <2>1. PICK j \in m + 1 .. m + n : j = m + k
    OBVIOUS
  <2>2. j \in 1 .. m + n /\ p + j - 1 = (p + m) + k - 1 /\ j - m = k
    BY <2>1
  <2>3. t[p + j - 1] = w[j] /\ w[j] = b[j - m]
    BY <1>3, <1>4, <2>2
  <2>4. QED
    BY <2>2, <2>3
<1>7. (p + m) + n <= l + 1
  BY <1>4
<1>8. QED
  BY <1>1, <1>5, <1>6, <1>7 DEF Stands

\* What is written for one character is read as that character.
LEMMA WrittenRead ==
  ASSUME NEW C, Letters(C), NEW t \in Seq(C), NEW p \in Nat, 1 <= p, NEW c \in C,
         Stands(Written(c), t, p)
  PROVE  esc_field(t, p) = Before(<<c>>, esc_field(t, p + Len(Written(c))))
<1>1. CASE c \in DOMAIN Escapes
  <2>1. PICK w : w = Written(c)
    OBVIOUS
  <2>2. w = <<"\\", Escapes[c]>> /\ Len(w) = 2
    BY <1>1, <2>1, WrittenIs
  <2>3. p + 2 <= Len(t) + 1 /\ \A k \in 1 .. 2 : t[p + k - 1] = w[k]
    BY <2>1, <2>2 DEF Stands
  <2>4. t[p] = "\\" /\ t[p + 1] = Escapes[c]
    <3>1. t[p + 1 - 1] = w[1] /\ t[p + 2 - 1] = w[2]
      BY <2>3
    <3>2. p + 1 - 1 = p /\ p + 2 - 1 = p + 1
      OBVIOUS
    <3>3. QED
      BY <2>2, <3>1, <3>2
  <2>5. p \in 1 .. Len(t) /\ p # Len(t)
    BY <2>3
  <2>6. esc_field(t, p) = Before(<<c>>, esc_field(t, p + 2))
    BY <1>1, <2>4, <2>5, EscapeRead
  <2>7. QED
    BY <2>1, <2>2, <2>6
<1>2. CASE c \notin DOMAIN Escapes
  <2>1. PICK w : w = Written(c)
    OBVIOUS
  <2>2. w = <<c>> /\ Len(w) = 1
    BY <1>2, <2>1, WrittenIs
  <2>3. p + 1 <= Len(t) + 1 /\ \A k \in 1 .. 1 : t[p + k - 1] = w[k]
    BY <2>1, <2>2 DEF Stands
  <2>4. t[p] = c
    <3>1. t[p + 1 - 1] = w[1] /\ p + 1 - 1 = p
      BY <2>3
    <3>2. QED
      BY <2>2, <3>1
  <2>5. p \in 1 .. Len(t) /\ t[p] \notin {"|", "\\"}
    BY <1>2, <2>3, <2>4, EscapeKinds
  <2>6. esc_field(t, p) = Before(<<c>>, esc_field(t, p + 1))
    BY <2>4, <2>5, PlainRead
  <2>7. QED
    BY <2>1, <2>2, <2>6
<1>3. QED
  BY <1>1, <1>2

\* A text as it was written is read back.
LEMMA TextRead ==
  ASSUME NEW C, Letters(C), NEW t \in Seq(C), NEW s \in Seq(C), NEW p \in Nat, 1 <= p,
         Stands(fmt_esc(s), t, p)
  PROVE  esc_field(t, p) = Before(s, esc_field(t, p + Len(fmt_esc(s))))
<1> DEFINE T == {x \in Seq(C) : Stands(fmt_esc(x), t, p) =>
                                  esc_field(t, p) = Before(x, esc_field(t, p + Len(fmt_esc(x))))}
<1>1. <<>> \in T
  <2>1. fmt_esc(<<>>) = <<>>
    BY WrittenOn
  <2>2. ASSUME Stands(<<>>, t, p) PROVE esc_field(t, p) = Before(<<>>, esc_field(t, p + Len(<<>>)))
    <3>1. p <= Len(t) + 2
      BY <2>2 DEF Stands
    <3>2. esc_field(t, p) \in FieldType(C)
      BY <3>1, FieldReads
    <3>3. p + Len(<<>>) = p
      OBVIOUS
    <3>4. QED
      BY <3>2, <3>3, BeforeIs
  <2>3. QED
    BY <2>1, <2>2
<1>2. ASSUME NEW x \in Seq(C), NEW c \in C, x \in T PROVE Append(x, c) \in T
  <2>1. PICK a \in Seq(C), b \in Seq(C) : a = fmt_esc(x) /\ b = Written(c)
    BY WrittenOn, WrittenIs
  <2>2. fmt_esc(Append(x, c)) = Joined(a, b)
    BY <2>1, WrittenOn DEF Joined
  <2>3. PICK q \in Nat, r \in Nat : q = p + Len(a) /\ r = q + Len(b)
    BY <2>1, SMTT(60)
  <2>4. p + Len(Joined(a, b)) = r
    BY <2>3 DEF Joined
  <2>5. SUFFICES ASSUME Stands(Joined(a, b), t, p)
                 PROVE  esc_field(t, p) = Before(Append(x, c), esc_field(t, r))
    BY <2>2, <2>4
  <2>6. Stands(a, t, p) /\ Stands(b, t, q)
    BY <2>3, <2>5, StandsApart
  <2>7. esc_field(t, p) = Before(x, esc_field(t, q))
    BY <1>2, <2>1, <2>3, <2>6
  <2>8. 1 <= q /\ r <= Len(t) + 1
    BY <2>3, <2>6 DEF Stands
  <2>9. esc_field(t, q) = Before(<<c>>, esc_field(t, r))
    <3>1. 1 <= q /\ Stands(Written(c), t, q) /\ q \in Nat
      BY <2>1, <2>3, <2>6, <2>8
    <3>2. esc_field(t, q) = Before(<<c>>, esc_field(t, q + Len(Written(c))))
      BY <3>1, WrittenRead, ZenonT(60)
    <3>3. QED
      BY <2>1, <2>3, <3>2
  <2>10. PICK f \in FieldType(C) : f = esc_field(t, r)
    <3>1. r \in Nat /\ 1 <= r /\ r <= Len(t) + 2
      BY <2>3, <2>8
    <3>2. QED
      BY <3>1, FieldReads
  <2>11. <<c>> \in Seq(C) /\ x \o <<c>> = Append(x, c)
    OBVIOUS
  <2>12. Before(x, Before(<<c>>, f)) = Before(x \o <<c>>, f)
    BY <2>11, BeforeIs, ZenonT(60)
  <2>13. QED
    BY <2>7, <2>9, <2>10, <2>11, <2>12
<1>3. Seq(C) \subseteq T
  <2> HIDE DEF T
  <2>1. QED
    BY <1>1, <1>2, TextsByInduction
<1>4. QED
  BY <1>3

\* The one list begins the other.
Begins(a, s) == Len(a) <= Len(s) /\ \A k \in 1 .. Len(a) : a[k] = s[k]

\* A list of the members of one list and, after them, of another.
IsJoined(w, a, b) == /\ Len(w) = Len(a) + Len(b)
                     /\ \A k \in 1 .. Len(a) : w[k] = a[k]
                     /\ \A k \in 1 .. Len(b) : w[Len(a) + k] = b[k]

\* A joined list has the members of the two.
LEMMA JoinedIs ==
  ASSUME NEW C, NEW a \in Seq(C), NEW b \in Seq(C)
  PROVE  Joined(a, b) \in Seq(C) /\ IsJoined(Joined(a, b), a, b)
<1>1. PICK w : w = a \o b
  OBVIOUS
<1>2. w \in Seq(C) /\ Len(w) = Len(a) + Len(b) /\ \A k \in 1 .. Len(a) : w[k] = a[k]
  BY <1>1
<1>3. \A k \in 1 .. Len(b) : w[Len(a) + k] = b[k]
  BY <1>1
<1>4. QED
  BY <1>1, <1>2, <1>3 DEF Joined, IsJoined

\* What is written never holds the end of a line, and is not shorter than the text.
LEMMA WrittenText ==
  ASSUME NEW C, Letters(C), NEW s \in Seq(C)
  PROVE  /\ \A k \in 1 .. Len(fmt_esc(s)) : fmt_esc(s)[k] \notin {"\n", "\r"}
         /\ Len(s) <= Len(fmt_esc(s))
         /\ (\A k \in 1 .. Len(s) : s[k] \notin DOMAIN Escapes) => fmt_esc(s) = s
<1> DEFINE Right(x) == /\ \A k \in 1 .. Len(fmt_esc(x)) : fmt_esc(x)[k] \notin {"\n", "\r"}
                       /\ Len(x) <= Len(fmt_esc(x))
                       /\ (\A k \in 1 .. Len(x) : x[k] \notin DOMAIN Escapes) => fmt_esc(x) = x
           T == {x \in Seq(C) : Right(x)}
<1>1. <<>> \in T
  <2>1. fmt_esc(<<>>) = <<>> /\ <<>> \in Seq(C)
    BY WrittenOn
  <2>2. QED
    BY <2>1
<1>2. ASSUME NEW x \in Seq(C), NEW c \in C, x \in T PROVE Append(x, c) \in T
  <2>1. PICK a \in Seq(C), b \in Seq(C) : a = fmt_esc(x) /\ b = Written(c)
    BY WrittenOn, WrittenIs
  <2>2. PICK w, y : w = Joined(a, b) /\ y = Append(x, c)
    OBVIOUS
  <2>3. fmt_esc(y) = w
    BY <2>1, <2>2, WrittenOn DEF Joined
  <2>4. PICK m \in Nat, n \in Nat : m = Len(a) /\ n = Len(b)
    BY <2>1
  <2>5. w \in Seq(C) /\ Len(w) = m + n /\ (\A k \in 1 .. m : w[k] = a[k]) /\ \A k \in 1 .. n : w[m + k] = b[k]
    <3>1. Joined(a, b) \in Seq(C) /\ IsJoined(Joined(a, b), a, b)
      BY <2>1, JoinedIs
    <3>2. QED
      BY <2>2, <2>4, <3>1 DEF IsJoined
  <2>6. (\A k \in 1 .. m : a[k] \notin {"\n", "\r"}) /\ Len(x) <= m
        /\ ((\A k \in 1 .. Len(x) : x[k] \notin DOMAIN Escapes) => a = x)
    BY <1>2, <2>1, <2>4
  <2>7. n >= 1 /\ (\A k \in 1 .. n : b[k] \notin {"\n", "\r"}) /\ (c \notin DOMAIN Escapes => b = <<c>>)
    <3>1. CASE c \in DOMAIN Escapes
      <4>1. b = <<"\\", Escapes[c]>> /\ n = 2
        BY <2>1, <2>4, <3>1, WrittenIs
      <4>2. "\\" \notin {"\n", "\r"} /\ Escapes[c] \notin {"\n", "\r"}
        BY <3>1, EscapeKinds
      <4>3. QED
        BY <3>1, <4>1, <4>2
    <3>2. CASE c \notin DOMAIN Escapes
      <4>1. b = <<c>> /\ n = 1
        BY <2>1, <2>4, <3>2, WrittenIs
      <4>2. c \notin {"\n", "\r"}
        BY <3>2, EscapeKinds
      <4>3. QED
        BY <3>2, <4>1, <4>2
    <3>3. QED
      BY <3>1, <3>2
  <2>8. \A k \in 1 .. m + n : w[k] \notin {"\n", "\r"}
    <3> SUFFICES ASSUME NEW k \in 1 .. m + n PROVE w[k] \notin {"\n", "\r"}
      OBVIOUS
    <3>1. CASE k <= m
      BY <2>5, <2>6, <3>1
    <3>2. CASE ~(k <= m)
      <4>1. PICK j \in 1 .. n : k = m + j
        <5>1. k - m \in 1 .. n /\ k = m + (k - m)
          BY <3>2
        <5>2. QED
          BY <5>1
      <4>2. QED
        BY <2>5, <2>7, <4>1
    <3>3. QED
      BY <3>1, <3>2
  <2>9. PICK l \in Nat : l = Len(x) /\ y \in Seq(C) /\ Len(y) = l + 1 /\ y[l + 1] = c /\ \A k \in 1 .. l : y[k] = x[k]
    BY <2>2, SMTT(60)
  <2>10. Len(y) <= m + n
    BY <2>6, <2>7, <2>9
  <2>11. ASSUME \A k \in 1 .. Len(y) : y[k] \notin DOMAIN Escapes PROVE w = y
    <3>1. \A k \in 1 .. l : k \in 1 .. Len(y) /\ x[k] \notin DOMAIN Escapes
      BY <2>9, <2>11
    <3>2. l + 1 \in 1 .. Len(y)
      BY <2>9
    <3>3. c \notin DOMAIN Escapes
      BY <2>9, <2>11, <3>2
    <3>4. a = x /\ b = <<c>>
      BY <2>6, <2>7, <2>9, <3>1, <3>3
    <3>5. w = x \o <<c>>
      BY <2>2, <3>4 DEF Joined
    <3>6. QED
      BY <2>2, <3>5
  <2>12. Right(y)
    BY <2>3, <2>5, <2>8, <2>10, <2>11
  <2>13. QED
    BY <2>2, <2>9, <2>12
<1>3. Seq(C) \subseteq T
  <2> HIDE DEF T
  <2>1. QED
    BY <1>1, <1>2, TextsByInduction
<1>4. QED
  BY <1>3

\* The beginning of what is written for a text is what is written for a beginning
\* of the text, but for a backslash whose second character is cut off.
LEMMA CutText ==
  ASSUME NEW C, Letters(C), NEW s \in Seq(C), NEW m \in Nat, m <= Len(fmt_esc(s))
  PROVE  \E y \in Seq(C) :
           /\ Begins(y, s) /\ Begins(fmt_esc(y), fmt_esc(s))
           /\ \/ Len(fmt_esc(y)) = m
              \/ Len(fmt_esc(y)) + 1 = m /\ fmt_esc(s)[m] = "\\"
<1> DEFINE Cut(x, y, i) == /\ Begins(y, x) /\ Begins(fmt_esc(y), fmt_esc(x))
                           /\ \/ Len(fmt_esc(y)) = i
                              \/ Len(fmt_esc(y)) + 1 = i /\ fmt_esc(x)[i] = "\\"
           T == {x \in Seq(C) : \A i \in Nat : i <= Len(fmt_esc(x)) => \E y \in Seq(C) : Cut(x, y, i)}
<1>0. \A x \in Seq(C) : Begins(x, x)
  BY DEF Begins
<1>1. <<>> \in T
  <2>1. fmt_esc(<<>>) = <<>> /\ <<>> \in Seq(C)
    BY WrittenOn
  <2>2. ASSUME NEW i \in Nat, i <= Len(fmt_esc(<<>>)) PROVE Cut(<<>>, <<>>, i)
    <3>1. i = 0 /\ Len(fmt_esc(<<>>)) = 0
      BY <2>1, <2>2
    <3>2. QED
      BY <1>0, <2>1, <3>1
  <2>3. QED
    BY <2>1, <2>2
<1>2. ASSUME NEW x \in Seq(C), NEW c \in C, x \in T PROVE Append(x, c) \in T
  <2>1. PICK a \in Seq(C), b \in Seq(C) : a = fmt_esc(x) /\ b = Written(c)
    BY WrittenOn, WrittenIs
  <2>2. PICK w, z : w = Joined(a, b) /\ z = Append(x, c)
    OBVIOUS
  <2>3. fmt_esc(z) = w
    BY <2>1, <2>2, WrittenOn DEF Joined
  <2>4. PICK p \in Nat, n \in Nat : p = Len(a) /\ n = Len(b)
    BY <2>1
  <2>5. w \in Seq(C) /\ Len(w) = p + n /\ (\A k \in 1 .. p : w[k] = a[k]) /\ \A k \in 1 .. n : w[p + k] = b[k]
    <3>1. Joined(a, b) \in Seq(C) /\ IsJoined(Joined(a, b), a, b)
      BY <2>1, JoinedIs
    <3>2. QED
      BY <2>2, <2>4, <3>1 DEF IsJoined
  <2>6. PICK l \in Nat : l = Len(x) /\ z \in Seq(C) /\ Len(z) = l + 1 /\ \A k \in 1 .. l : z[k] = x[k]
    BY <2>2
  <2>7. ASSUME NEW i \in Nat, i <= p + n PROVE \E y \in Seq(C) : Cut(z, y, i)
    <3>1. CASE i <= p
      <4>1. PICK y \in Seq(C) : Cut(x, y, i)
        BY <1>2, <2>1, <2>4, <3>1
      <4>2. Begins(y, z)
        <5>1. Len(y) \in Nat /\ Len(y) <= l /\ \A k \in 1 .. Len(y) : y[k] = x[k]
          BY <2>6, <4>1 DEF Begins
        <5>2. QED
          BY <2>6, <5>1 DEF Begins
      <4>3. Begins(fmt_esc(y), w)
        <5>0. PICK e \in Seq(C) : e = fmt_esc(y)
          BY WrittenOn
        <5>1. Len(e) \in Nat /\ Len(e) <= p /\ \A k \in 1 .. Len(e) : e[k] = a[k]
          BY <2>1, <2>4, <4>1, <5>0 DEF Begins
        <5>2. QED
          BY <2>4, <2>5, <5>0, <5>1, SMTT(60) DEF Begins
      <4>4. i >= 1 => w[i] = a[i]
        BY <2>5, <3>1
      <4>5. Len(fmt_esc(y)) \in Nat
        BY WrittenOn
      <4>6. \/ Len(fmt_esc(y)) = i
            \/ Len(fmt_esc(y)) + 1 = i /\ w[i] = "\\"
        BY <2>1, <4>1, <4>4, <4>5
      <4>7. QED
        BY <2>3, <4>2, <4>3, <4>6
    <3>2. CASE i = p + n
      <4>1. Cut(z, z, i)
        BY <1>0, <2>3, <2>5, <2>6, <3>2
      <4>2. QED
        BY <2>6, <4>1
    <3>3. CASE ~(i <= p) /\ i # p + n
      <4>0. c \notin DOMAIN Escapes => Len(Written(c)) = 1
        BY WrittenIs
      <4>1. c \in DOMAIN Escapes
        <5>1. n # 1
          <6>1. i \in Nat /\ p \in Nat /\ n \in Nat /\ i <= p + n
            BY <2>4, <2>7
          <6>2. ~(i <= p) /\ i # p + n
            BY <3>3
          <6>3. QED
            BY <6>1, <6>2
        <5>2. QED
          BY <2>1, <2>4, <4>0, <5>1
      <4>2. b = <<"\\", Escapes[c]>> /\ n = 2
        BY <2>1, <2>4, <4>1, WrittenIs
      <4>3. i = p + 1 /\ w[i] = "\\"
        BY <2>5, <2>7, <3>3, <4>2
      <4>4. Begins(x, z)
        BY <2>6 DEF Begins
      <4>5. Begins(a, w)
        BY <2>4, <2>5 DEF Begins
      <4>6. Cut(z, x, i)
        BY <2>1, <2>3, <2>4, <4>3, <4>4, <4>5
      <4>7. QED
        BY <4>6
    <3>4. QED
      BY <3>1, <3>2, <3>3
  <2>8. Len(fmt_esc(z)) = p + n
    BY <2>3, <2>5
  <2>9. QED
    BY <2>2, <2>6, <2>7, <2>8
<1>3. Seq(C) \subseteq T
  <2> HIDE DEF T
  <2>1. QED
    BY <1>1, <1>2, TextsByInduction
<1>4. s \in T
  BY <1>3
<1>5. QED
  BY <1>4

\* From p on the text t goes as far as m characters like what is written for s.
Partly(s, t, p, m) == /\ m <= Len(fmt_esc(s)) /\ p + m <= Len(t) + 1
                      /\ \A k \in 1 .. m : t[p + k - 1] = fmt_esc(s)[k]

\* A part of a written text is read as a part of the text, or refused: what is
\* read after that part says which.
LEMMA PartRead ==
  ASSUME NEW C, Letters(C), NEW t \in Seq(C), NEW s \in Seq(C), NEW p \in Nat, 1 <= p,
         NEW m \in Nat, Partly(s, t, p, m)
  PROVE  \E y \in Seq(C) :
           /\ Begins(y, s)
           /\ \/ esc_field(t, p) = Before(y, esc_field(t, p + m))
              \/ m >= 1 /\ t[p + m - 1] = "\\" /\ esc_field(t, p) = Before(y, esc_field(t, p + m - 1))
<1>1. PICK e \in Seq(C), l \in Nat : e = fmt_esc(s) /\ l = Len(t)
  BY WrittenOn
<1>2. m <= Len(e) /\ p + m <= l + 1 /\ \A k \in 1 .. m : t[p + k - 1] = e[k]
  BY <1>1 DEF Partly
<1>3. PICK y \in Seq(C) : /\ Begins(y, s) /\ Begins(fmt_esc(y), e)
                          /\ \/ Len(fmt_esc(y)) = m
                             \/ Len(fmt_esc(y)) + 1 = m /\ e[m] = "\\"
  <2>1. m <= Len(fmt_esc(s))
    BY <1>1, <1>2
  <2>2. \E y \in Seq(C) : /\ Begins(y, s) /\ Begins(fmt_esc(y), fmt_esc(s))
                          /\ \/ Len(fmt_esc(y)) = m
                             \/ Len(fmt_esc(y)) + 1 = m /\ fmt_esc(s)[m] = "\\"
    BY <2>1, CutText
  <2>3. QED
    BY <1>1, <2>2
<1>4. PICK f \in Seq(C) : f = fmt_esc(y)
  BY WrittenOn
<1>5. PICK n \in Nat : n = Len(f)
  OBVIOUS
<1>6. n <= m /\ (n = m \/ (n + 1 = m /\ e[m] = "\\")) /\ \A k \in 1 .. n : f[k] = e[k]
  BY <1>3, <1>4, <1>5 DEF Begins
<1>7. Stands(f, t, p)
  <2>1. p + n <= l + 1
    BY <1>2, <1>6
  <2>2. \A k \in 1 .. n : k \in 1 .. m
    BY <1>6
  <2>3. \A k \in 1 .. n : t[p + k - 1] = f[k]
    BY <1>2, <1>6, <2>2
  <2>4. QED
    BY <1>1, <1>5, <2>1, <2>3 DEF Stands
<1>8. esc_field(t, p) = Before(y, esc_field(t, p + n))
  BY <1>4, <1>5, <1>7, TextRead
<1>9. CASE n = m
  BY <1>3, <1>8, <1>9
<1>10. CASE n + 1 = m /\ e[m] = "\\"
  <2>1. m \in 1 .. m /\ p + m - 1 = p + n
    BY <1>10
  <2>2. t[p + m - 1] = "\\"
    BY <1>2, <1>10, <2>1
  <2>3. esc_field(t, p) = Before(y, esc_field(t, p + m - 1))
    BY <1>8, <2>1
  <2>4. m >= 1
    BY <1>10
  <2>5. QED
    BY <1>3, <2>2, <2>3, <2>4
<1>11. QED
  BY <1>6, <1>9, <1>10

\* What a field that a cut ends is read as, and one that another text follows.
ReadToEnd(C, t, p, s, m) ==
  \/ ~esc_field(t, p).ok
  \/ \E y \in Seq(C) : /\ Begins(y, s) /\ esc_field(t, p) = [ok |-> TRUE, out |-> y, next |-> Len(t) + 1]
                       /\ m = 0 => y = <<>>
ReadThrough(C, t, p, q) ==
  ~esc_field(t, p).ok \/ \E y \in Seq(C) : esc_field(t, p) = Before(y, esc_field(t, q))

\* A field that a cut ends.
LEMMA CutRead ==
  ASSUME NEW C, Letters(C), NEW t \in Seq(C), NEW s \in Seq(C), NEW p \in Nat, 1 <= p,
         NEW m \in Nat, Partly(s, t, p, m), p + m = Len(t) + 1
  PROVE  ReadToEnd(C, t, p, s, m)
<1> USE DEF ReadToEnd
<1>1. esc_field(t, Len(t) + 1) = AtEnd(t)
  BY FieldReads
<1>2. CASE m = 0
  <2>1. p = Len(t) + 1
    BY <1>2
  <2>2. <<>> \in Seq(C) /\ Begins(<<>>, s)
    BY DEF Begins
  <2>3. QED
    BY <1>1, <2>1, <2>2 DEF AtEnd
<1>3. CASE m # 0
  <2>1. PICK y \in Seq(C) :
           /\ Begins(y, s)
           /\ \/ esc_field(t, p) = Before(y, esc_field(t, p + m))
              \/ m >= 1 /\ t[p + m - 1] = "\\" /\ esc_field(t, p) = Before(y, esc_field(t, p + m - 1))
    BY PartRead
  <2>2. CASE esc_field(t, p) = Before(y, esc_field(t, p + m))
    <3>1. y \o <<>> = y
      BY WholeList
    <3>2. Before(y, AtEnd(t)) = [ok |-> TRUE, out |-> y, next |-> Len(t) + 1]
      BY <3>1 DEF Before, AtEnd
    <3>3. QED
      BY <1>1, <1>3, <2>1, <2>2, <3>2
  <2>3. CASE m >= 1 /\ t[p + m - 1] = "\\" /\ esc_field(t, p) = Before(y, esc_field(t, p + m - 1))
    <3>1. p + m - 1 = Len(t) /\ Len(t) \in 1 .. Len(t)
      BY <2>3
    <3>2. esc_field(t, Len(t)) = NoField
      BY <2>3, <3>1, RefusedRead
    <3>3. ~Before(y, NoField).ok
      BY DEF Before, NoField
    <3>4. QED
      BY <2>3, <3>1, <3>2, <3>3
  <2>4. QED
    BY <2>1, <2>2, <2>3
<1>4. QED
  BY <1>2, <1>3

\* A field that is cut, and goes on with a text that begins like no escaped
\* character does.
LEMMA GluedRead ==
  ASSUME NEW C, Letters(C), NEW t \in Seq(C), NEW s \in Seq(C), NEW p \in Nat, 1 <= p,
         NEW m \in Nat, Partly(s, t, p, m), p + m <= Len(t), NEW x \in Seq(C),
         Stands(fmt_esc(x), t, p + m), \A c \in DOMAIN Escapes : Escapes[c] # t[p + m]
  PROVE  ReadThrough(C, t, p, p + m + Len(fmt_esc(x)))
<1> USE DEF ReadThrough
<1>1. PICK y \in Seq(C) :
           \/ esc_field(t, p) = Before(y, esc_field(t, p + m))
           \/ m >= 1 /\ t[p + m - 1] = "\\" /\ esc_field(t, p) = Before(y, esc_field(t, p + m - 1))
  BY PartRead
<1>2. CASE esc_field(t, p) = Before(y, esc_field(t, p + m))
  <2>1. PICK q \in Nat : q = p + m /\ 1 <= q /\ Stands(fmt_esc(x), t, q)
    OBVIOUS
  <2>2. PICK r \in Nat : r = q + Len(fmt_esc(x)) /\ r <= Len(t) + 1 /\ 1 <= r
    <3>1. PICK e \in Seq(C) : e = fmt_esc(x)
      BY WrittenOn
    <3>2. q + Len(e) \in Nat /\ q + Len(e) <= Len(t) + 1 /\ 1 <= q + Len(e)
      BY <2>1, <3>1 DEF Stands
    <3>3. QED
      BY <3>1, <3>2
  <2>3. esc_field(t, q) = Before(x, esc_field(t, r))
    BY <2>1, <2>2, TextRead
  <2>4. PICK f \in FieldType(C) : f = esc_field(t, r)
    <3>1. r <= Len(t) + 2
      BY <2>2
    <3>2. QED
      BY <2>2, <3>1, FieldReads
  <2>5. Before(y, Before(x, f)) = Before(y \o x, f)
    BY BeforeIs
  <2>6. y \o x \in Seq(C)
    OBVIOUS
  <2>7. QED
    BY <1>2, <2>1, <2>2, <2>3, <2>4, <2>5, <2>6
<1>3. CASE m >= 1 /\ t[p + m - 1] = "\\" /\ esc_field(t, p) = Before(y, esc_field(t, p + m - 1))
  <2>1. PICK q \in 1 .. Len(t) : q = p + m - 1
    BY <1>3
  <2>2. q # Len(t) /\ q + 1 = p + m
    BY <2>1
  <2>3. esc_field(t, q) = NoField
    BY <1>3, <2>1, <2>2, RefusedRead
  <2>4. ~Before(y, NoField).ok
    BY DEF Before, NoField
  <2>5. QED
    BY <1>3, <2>1, <2>3, <2>4
<1>4. QED
  BY <1>1, <1>2, <1>3

\* A field that is whole.
LEMMA WholeRead ==
  ASSUME NEW C, Letters(C), NEW t \in Seq(C), NEW s \in Seq(C), NEW p \in Nat, 1 <= p,
         Stands(fmt_esc(s), t, p), NEW q \in Nat, q = p + Len(fmt_esc(s))
  PROVE  /\ q = Len(t) + 1 => esc_field(t, p) = [ok |-> TRUE, out |-> s, next |-> Len(t) + 1]
         /\ q <= Len(t) /\ t[q] = "|" => esc_field(t, p) = [ok |-> TRUE, out |-> s, next |-> q + 1]
<1>1. esc_field(t, p) = Before(s, esc_field(t, q))
  BY TextRead
<1>2. s \o <<>> = s
  BY WholeList
<1>3. ASSUME q = Len(t) + 1 PROVE esc_field(t, p) = [ok |-> TRUE, out |-> s, next |-> Len(t) + 1]
  <2>1. esc_field(t, q) = AtEnd(t)
    BY <1>3, FieldReads
  <2>2. QED
    <3>1. Before(s, AtEnd(t)) = [ok |-> TRUE, out |-> s, next |-> Len(t) + 1]
      BY <1>2 DEF Before, AtEnd
    <3>2. QED
      BY <1>1, <2>1, <3>1
<1>4. ASSUME q <= Len(t), t[q] = "|" PROVE esc_field(t, p) = [ok |-> TRUE, out |-> s, next |-> q + 1]
  <2>0. PICK e \in Seq(C) : e = fmt_esc(s)
    BY WrittenOn
  <2>1. q \in 1 .. Len(t)
    BY <1>4, <2>0
  <2>2. esc_field(t, q) = [ok |-> TRUE, out |-> <<>>, next |-> q + 1]
    BY <1>4, <2>1, SeparatorRead
  <2>3. QED
    <3>1. Before(s, [ok |-> TRUE, out |-> <<>>, next |-> q + 1]) = [ok |-> TRUE, out |-> s, next |-> q + 1]
      BY <1>2 DEF Before
    <3>2. QED
      BY <1>1, <2>2, <3>1
<1>5. QED
  BY <1>3, <1>4

-----------------------------------------------------------------------------
\* parse_event in parts: the text without its line ends, and the fields.
Bare(text) ==
  LET body == {k \in DOMAIN text : text[k] \notin {"\n", "\r"}} IN
  SubSeq(text, 1, IF body = {} THEN 0 ELSE CHOOSE k \in body : \A j \in body : j <= k)

\* What a field has to be.
Fits(n, s) == /\ FieldNames[n] \in NumberFields => Number(s)
              /\ n = 1 => Unsigned(s) /\ ToSet(s) # {"0"}

OneMore(bare, n, before) ==
  LET field == esc_field(bare, before.next) IN
             IF ~before.ok \/ ~field.ok THEN NoField
             ELSE IF FieldNames[n] \in NumberFields /\ ~Number(field.out) THEN NoField
             ELSE IF n = 1 /\ (~Unsigned(field.out) \/ ToSet(field.out) = {"0"}) THEN NoField
             ELSE [field EXCEPT !.out = Append(before.out, @)]

Read(bare) ==
  LET read[n \in 0 .. 7] ==
        IF n = 0 THEN [ok |-> bare # <<>>, out |-> <<>>, next |-> 1] ELSE OneMore(bare, n, read[n - 1])
  IN read

\* parse_event, by its parts.
LEMMA ParseIs ==
  ASSUME NEW text
  PROVE  parse_event(text) =
           LET all == Read(Bare(text))[7] IN
           IF all.ok /\ all.next = Len(Bare(text)) + 1
           THEN [f \in ToSet(FieldNames) |-> all.out[CHOOSE i \in 1 .. 7 : FieldNames[i] = f]]
           ELSE NotAnEvent
  BY DEF parse_event, Read, Bare, OneMore

\* The fields are read one after another.
LEMMA ReadIs ==
  ASSUME NEW bare
  PROVE  /\ Read(bare)[0] = [ok |-> bare # <<>>, out |-> <<>>, next |-> 1]
         /\ \A n \in 1 .. 7 : Read(bare)[n] = OneMore(bare, n, Read(bare)[n - 1])
<1> DEFINE B(r) == [n \in 0 .. 7 |-> IF n = 0 THEN [ok |-> bare # <<>>, out |-> <<>>, next |-> 1]
                                     ELSE OneMore(bare, n, r[n - 1])]
<1>1. PICK r0 : r0 = [ok |-> bare # <<>>, out |-> <<>>, next |-> 1]
  OBVIOUS
<1>2. PICK r1, r2, r3, r4, r5, r6, r7 :
        /\ r1 = OneMore(bare, 1, r0) /\ r2 = OneMore(bare, 2, r1) /\ r3 = OneMore(bare, 3, r2)
        /\ r4 = OneMore(bare, 4, r3) /\ r5 = OneMore(bare, 5, r4) /\ r6 = OneMore(bare, 6, r5)
        /\ r7 = OneMore(bare, 7, r6)
  OBVIOUS
<1>3. PICK f : f = [n \in 0 .. 7 |-> IF n = 0 THEN r0 ELSE IF n = 1 THEN r1 ELSE IF n = 2 THEN r2
                                     ELSE IF n = 3 THEN r3 ELSE IF n = 4 THEN r4 ELSE IF n = 5 THEN r5
                                     ELSE IF n = 6 THEN r6 ELSE r7]
  OBVIOUS
<1>4. f[0] = r0 /\ f[1] = r1 /\ f[2] = r2 /\ f[3] = r3 /\ f[4] = r4 /\ f[5] = r5 /\ f[6] = r6 /\ f[7] = r7
  BY <1>3
<1>5. \A n \in 0 .. 7 : f[n] = IF n = 0 THEN r0 ELSE OneMore(bare, n, f[n - 1])
  <2>1. \A n \in 0 .. 7 : n = 0 \/ n = 1 \/ n = 2 \/ n = 3 \/ n = 4 \/ n = 5 \/ n = 6 \/ n = 7
    OBVIOUS
  <2>2. 1 - 1 = 0 /\ 2 - 1 = 1 /\ 3 - 1 = 2 /\ 4 - 1 = 3 /\ 5 - 1 = 4 /\ 6 - 1 = 5 /\ 7 - 1 = 6
    OBVIOUS
  <2>3. QED
    BY <1>2, <1>4, <2>1, <2>2
<1>6. f = B(f)
  <2>1. f = [n \in 0 .. 7 |-> f[n]]
    BY <1>3
  <2>2. QED
    BY <1>1, <1>5, <2>1
<1>7. PICK h : h = CHOOSE r : r = B(r)
  OBVIOUS
<1>8. h = B(h)
  BY <1>6, <1>7
<1>9. Read(bare) = h
  BY <1>7 DEF Read
<1>10. \A n \in 0 .. 7 : h[n] = IF n = 0 THEN r0 ELSE OneMore(bare, n, h[n - 1])
  BY <1>1, <1>8
<1>11. QED
  BY <1>1, <1>9, <1>10

\* One more field.
LEMMA OneMoreIs ==
  ASSUME NEW bare, NEW n, NEW r
  PROVE  /\ OneMore(bare, n, r).ok => r.ok /\ esc_field(bare, r.next).ok
         /\ \A s, q : esc_field(bare, r.next) = [ok |-> TRUE, out |-> s, next |-> q] =>
              OneMore(bare, n, r) = IF r.ok /\ Fits(n, s) THEN [ok |-> TRUE, out |-> Append(r.out, s), next |-> q]
                                    ELSE NoField
<1>1. PICK field : field = esc_field(bare, r.next)
  OBVIOUS
<1>2. ~NoField.ok
  BY DEF NoField
<1>3. ASSUME NEW s, NEW q, field = [ok |-> TRUE, out |-> s, next |-> q]
      PROVE  OneMore(bare, n, r) = IF r.ok /\ Fits(n, s) THEN [ok |-> TRUE, out |-> Append(r.out, s), next |-> q]
                                   ELSE NoField
  <2>1. field.ok /\ field.out = s
    BY <1>3
  <2>2. PICK w : w = Append(r.out, s)
    OBVIOUS
  <2>3. [field EXCEPT !.out = w] = [ok |-> TRUE, out |-> w, next |-> q]
    <3>1. field \in [ok : BOOLEAN, out : {s}, next : {q}]
      BY <1>3
    <3>2. [field EXCEPT !.out = w] = [ok |-> field.ok, out |-> w, next |-> field.next]
      BY <3>1
    <3>3. field.ok = TRUE /\ field.next = q
      BY <1>3
    <3>4. QED
      BY <3>2, <3>3
  <2>4. [field EXCEPT !.out = Append(r.out, @)] = [ok |-> TRUE, out |-> w, next |-> q]
    BY <2>1, <2>2, <2>3
  <2>5. QED
    BY <1>1, <2>1, <2>2, <2>4 DEF OneMore, Fits
<1>4. OneMore(bare, n, r).ok => r.ok /\ field.ok
  BY <1>1, <1>2 DEF OneMore
<1>5. QED
  BY <1>1, <1>3, <1>4

\* A text that only line ends follow is what is left without them.
LEMMA BareIs ==
  ASSUME NEW C, NEW text \in Seq(C), NEW n \in Nat, n <= Len(text),
         \A k \in n + 1 .. Len(text) : text[k] \in {"\n", "\r"}, n # 0 => text[n] \notin {"\n", "\r"}
  PROVE  Bare(text) = SubSeq(text, 1, n)
<1>1. PICK body : body = {k \in DOMAIN text : text[k] \notin {"\n", "\r"}}
  OBVIOUS
<1>2. DOMAIN text = 1 .. Len(text)
  OBVIOUS
<1>3. body \subseteq 1 .. n
  BY <1>1, <1>2
<1>4. CASE n = 0
  <2>1. body = {}
    BY <1>3, <1>4
  <2>2. QED
    BY <1>1, <1>4, <2>1 DEF Bare
<1>5. CASE n # 0
  <2>1. n \in body /\ \A j \in body : j <= n
    BY <1>1, <1>2, <1>3, <1>5
  <2>2. (CHOOSE k \in body : \A j \in body : j <= k) = n
    <3>1. \A k \in body : (\A j \in body : j <= k) => k = n
      BY <1>3, <2>1
    <3>2. QED
      BY <2>1, <3>1
  <2>3. QED
    BY <1>1, <2>1, <2>2 DEF Bare
<1>6. QED
  BY <1>4, <1>5

\* Where the members of a list of lists stand when they follow each other.
Placed(t, s, P) == /\ P[1] = 1 /\ P[Len(s) + 1] = Len(t) + 1
                   /\ \A i \in 1 .. Len(s) + 1 : P[i] \in Nat /\ 1 <= P[i]
                   /\ \A i \in 1 .. Len(s) : P[i + 1] = P[i] + Len(s[i]) /\ Stands(s[i], t, P[i])

\* The members of a list of lists have such places in the list that joins them.
LEMMA FlattenPlaces ==
  ASSUME NEW X, NEW s \in Seq(Seq(X))
  PROVE  \E P : Placed(FlattenSeq(s), s, P)
<1> DEFINE T == {u \in Seq(Seq(X)) : \E P : Placed(FlattenSeq(u), u, P)}
<1>1. <<>> \in T
  <2>1. <<>> \in Seq(Seq(X))
    OBVIOUS
  <2>2. FlattenSeq(<<>>) = <<>>
    BY <2>1, Flattened
  <2>3. Placed(<<>>, <<>>, [i \in 1 .. 1 |-> 1])
    BY DEF Placed
  <2>4. QED
    BY <2>1, <2>2, <2>3
<1>2. ASSUME NEW u \in Seq(Seq(X)), NEW b \in Seq(X), u \in T PROVE Append(u, b) \in T
  <2>1. PICK a \in Seq(X) : a = FlattenSeq(u)
    BY Flattened
  <2>2. PICK P : Placed(a, u, P)
    BY <1>2, <2>1
  <2>3. PICK v, w : v = Append(u, b) /\ w = Joined(a, b)
    OBVIOUS
  <2>4. FlattenSeq(v) = w
    BY <2>1, <2>3, Flattened DEF Joined
  <2>5. PICK n \in Nat, p \in Nat, l \in Nat : n = Len(u) /\ p = Len(a) /\ l = Len(b)
    OBVIOUS
  <2>6. v \in Seq(Seq(X)) /\ Len(v) = n + 1 /\ v[n + 1] = b /\ \A i \in 1 .. n : v[i] = u[i]
    BY <2>3, <2>5
  <2>7. w \in Seq(X) /\ IsJoined(w, a, b)
    BY <2>3, JoinedIs
  <2>8. Len(w) = p + l /\ (\A k \in 1 .. p : w[k] = a[k]) /\ \A k \in 1 .. l : w[p + k] = b[k]
    BY <2>5, <2>7 DEF IsJoined
  <2>9. /\ P[1] = 1 /\ P[n + 1] = p + 1
        /\ \A i \in 1 .. n + 1 : P[i] \in Nat /\ 1 <= P[i]
        /\ \A i \in 1 .. n : P[i + 1] = P[i] + Len(u[i]) /\ Stands(u[i], a, P[i])
    BY <2>2, <2>5 DEF Placed
  <2>10. PICK Q : Q = [i \in 1 .. n + 2 |-> IF i = n + 2 THEN p + l + 1 ELSE P[i]]
    OBVIOUS
  <2>11. Q[n + 2] = p + l + 1 /\ \A i \in 1 .. n + 1 : Q[i] = P[i]
    <3>1. n + 2 \in 1 .. n + 2 /\ \A i \in 1 .. n + 1 : i \in 1 .. n + 2 /\ i # n + 2
      BY <2>5
    <3>2. QED
      BY <2>10, <3>1
  <2>12. \A i \in 1 .. n + 2 : Q[i] \in Nat /\ 1 <= Q[i]
    <3>1. p + l + 1 \in Nat /\ 1 <= p + l + 1
      BY <2>5
    <3>2. \A i \in 1 .. n + 2 : i = n + 2 \/ i \in 1 .. n + 1
      BY <2>5
    <3>3. QED
      BY <2>9, <2>11, <3>1, <3>2
  <2>13. ASSUME NEW i \in 1 .. n PROVE Q[i + 1] = Q[i] + Len(v[i]) /\ Stands(v[i], w, Q[i])
    <3>1. i \in 1 .. n + 1 /\ i + 1 \in 1 .. n + 1
      BY <2>5
    <3>2. PICK q \in Nat : q = P[i] /\ Q[i] = q /\ 1 <= q
      BY <2>9, <2>11, <3>1
    <3>3. Q[i + 1] = q + Len(u[i]) /\ Stands(u[i], a, q) /\ v[i] = u[i]
      BY <2>6, <2>9, <2>11, <3>1, <3>2
    <3>4. PICK z \in Seq(X), m \in Nat : z = u[i] /\ m = Len(z)
      BY <2>5
    <3>5. q + m <= p + 1 /\ \A k \in 1 .. m : a[q + k - 1] = z[k]
      BY <2>5, <3>3, <3>4 DEF Stands
    <3>6. q + m <= (p + l) + 1
      BY <2>5, <3>5
    <3>7. \A k \in 1 .. m : q + k - 1 \in 1 .. p
      <4>1. q + m <= p + 1 /\ 1 <= q
        BY <3>2, <3>5
      <4>2. QED
        BY <4>1
    <3>8. \A k \in 1 .. m : w[q + k - 1] = z[k]
      BY <2>8, <3>5, <3>7
    <3>9. Stands(z, w, q)
      BY <2>8, <3>4, <3>6, <3>8 DEF Stands
    <3>10. QED
      BY <3>2, <3>3, <3>4, <3>9
  <2>14. Q[n + 2] = Q[n + 1] + Len(v[n + 1]) /\ Stands(v[n + 1], w, Q[n + 1])
    <3>1. n + 1 \in 1 .. n + 1
      BY <2>5
    <3>2. Q[n + 1] = p + 1
      BY <2>9, <2>11, <3>1
    <3>3. \A k \in 1 .. l : (p + 1) + k - 1 = p + k
      BY <2>5
    <3>4. Stands(b, w, p + 1)
      BY <2>5, <2>8, <3>3 DEF Stands
    <3>5. QED
      BY <2>5, <2>6, <2>11, <3>2, <3>4
  <2>15. \A i \in 1 .. n + 1 : Q[i + 1] = Q[i] + Len(v[i]) /\ Stands(v[i], w, Q[i])
    <3>1. \A i \in 1 .. n + 1 : i = n + 1 \/ i \in 1 .. n
      BY <2>5
    <3>2. (n + 1) + 1 = n + 2
      BY <2>5
    <3>3. QED
      BY <2>13, <2>14, <3>1, <3>2
  <2>16. Q[1] = 1 /\ Q[(n + 1) + 1] = (p + l) + 1
    <3>1. 1 \in 1 .. n + 1 /\ (n + 1) + 1 = n + 2
      BY <2>5
    <3>2. QED
      BY <2>9, <2>11, <3>1
  <2>17. (n + 1) + 1 = n + 2
    BY <2>5
  <2>18. Placed(w, v, Q)
    BY <2>6, <2>8, <2>12, <2>15, <2>16, <2>17 DEF Placed
  <2>19. QED
    BY <2>3, <2>4, <2>6, <2>18
<1>3. Seq(Seq(X)) \subseteq T
  <2> HIDE DEF T
  <2>1. QED
    BY <1>1, <1>2, TextsByInduction
<1>4. QED
  BY <1>3

\* A list without its first member.
LEMMA TailIs ==
  ASSUME NEW C, NEW s \in Seq(C), s # <<>>
  PROVE  /\ Tail(s) \in Seq(C) /\ Len(Tail(s)) = Len(s) - 1
         /\ \A k \in 1 .. Len(s) - 1 : Tail(s)[k] = s[k + 1]
  OBVIOUS

\* Nothing in a number is escaped.
LEMMA NumbersPlain ==
  ASSUME NEW C, Letters(C), NEW s \in Seq(C), Number(s)
  PROVE  fmt_esc(s) = s /\ s # <<>> /\ (Unsigned(s) => s[1] \in Digits)
<1>1. "-" \notin DOMAIN Escapes /\ \A c \in Digits : c \notin DOMAIN Escapes
  BY EscapeKinds DEF Digits
<1>2. ASSUME NEW r \in Seq(C), Unsigned(r) PROVE \A k \in 1 .. Len(r) : r[k] \in Digits
  BY <1>2 DEF Unsigned, ToSet
<1>3. CASE Unsigned(s)
  <2>1. \A k \in 1 .. Len(s) : s[k] \notin DOMAIN Escapes
    BY <1>1, <1>2, <1>3
  <2>2. s # <<>>
    BY <1>3 DEF Unsigned
  <2>3. 1 \in 1 .. Len(s)
    BY <2>2
  <2>4. QED
    BY <1>2, <1>3, <2>1, <2>2, <2>3, WrittenText
<1>4. CASE s # <<>> /\ s[1] = "-" /\ Unsigned(Tail(s))
  <2>0. s # <<>>
    BY <1>4
  <2>1. PICK r \in Seq(C) : r = Tail(s) /\ Len(r) = Len(s) - 1 /\ \A k \in 1 .. Len(s) - 1 : r[k] = s[k + 1]
    BY <2>0, TailIs
  <2>2. Len(r) = Len(s) - 1 /\ \A k \in 1 .. Len(r) : r[k] = s[k + 1]
    BY <2>1
  <2>3. \A k \in 1 .. Len(r) : r[k] \in Digits
    BY <1>2, <1>4, <2>1
  <2>4. ASSUME NEW k \in 1 .. Len(s) PROVE s[k] \notin DOMAIN Escapes
    <3>1. CASE k = 1
      BY <1>1, <1>4, <3>1
    <3>2. CASE k # 1
      <4>1. k - 1 \in 1 .. Len(r) /\ (k - 1) + 1 = k
        BY <2>2, <3>2
      <4>2. s[k] \in Digits
        BY <2>2, <2>3, <4>1
      <4>3. QED
        BY <1>1, <4>2
    <3>3. QED
      BY <3>1, <3>2
  <2>5. fmt_esc(s) = s
    BY <2>4, WrittenText
  <2>6. "-" \notin Digits
    BY DEF Digits
  <2>7. Unsigned(s) => s[1] \in Digits
    <3>1. 1 \in 1 .. Len(s)
      BY <1>4
    <3>2. QED
      BY <1>2, <3>1
  <2>8. QED
    BY <1>4, <2>5, <2>7
<1>5. QED
  BY <1>3, <1>4 DEF Number

\* What follows a field.
Sep(i) == IF i = 7 THEN "\n" ELSE "|"
\* Where the texts x stand in the line t.
Layout(t, x, P) ==
  /\ P \in [1 .. 8 -> Nat] /\ P[1] = 1 /\ Len(t) = P[8] - 1
  /\ \A i \in 1 .. 7 : /\ P[i] \in Nat /\ 1 <= P[i]
                       /\ P[i + 1] = P[i] + Len(fmt_esc(x[i])) + 1
                       /\ Stands(fmt_esc(x[i]), t, P[i])
                       /\ t[P[i + 1] - 1] = Sep(i)

\* The texts of an event.
TextsOf(ev, x, C) == \A i \in 1 .. 7 : x[i] = ev[FieldNames[i]] /\ x[i] \in Seq(C) /\ Fits(i, x[i])

\* The texts of an event stand in its line, each with its separator.
LEMMA LineLayout ==
  ASSUME NEW C, Letters(C), NEW ev, NEW x, TextsOf(ev, x, C)
  PROVE  fmt_line(ev) \in Seq(C) /\ \E P : Layout(fmt_line(ev), x, P)
<1>1. PICK s : s = [i \in 1 .. 7 |-> Joined(fmt_esc(x[i]), <<Sep(i)>>)]
  OBVIOUS
<1>2. ASSUME NEW i \in 1 .. 7
      PROVE  (IF FieldNames[i] \in NumberFields THEN ev[FieldNames[i]] ELSE fmt_esc(ev[FieldNames[i]])) = fmt_esc(x[i])
  <2>1. CASE FieldNames[i] \in NumberFields
    <3>1. Number(x[i]) /\ x[i] \in Seq(C)
      BY <2>1 DEF TextsOf, Fits
    <3>2. fmt_esc(x[i]) = x[i]
      BY <3>1, NumbersPlain
    <3>3. QED
      BY <2>1, <3>2 DEF TextsOf
  <2>2. CASE FieldNames[i] \notin NumberFields
    BY <2>2 DEF TextsOf
  <2>3. QED
    BY <2>1, <2>2
<1>3. fmt_line(ev) = FlattenSeq(s)
  BY <1>1, <1>2 DEF fmt_line, Joined, Sep
<1>4. ASSUME NEW i \in 1 .. 7
      PROVE  /\ fmt_esc(x[i]) \in Seq(C) /\ <<Sep(i)>> \in Seq(C) /\ s[i] = Joined(fmt_esc(x[i]), <<Sep(i)>>)
             /\ s[i] \in Seq(C) /\ IsJoined(s[i], fmt_esc(x[i]), <<Sep(i)>>)
  <2>1. x[i] \in Seq(C)
    BY DEF TextsOf
  <2>2. fmt_esc(x[i]) \in Seq(C)
    BY <2>1, WrittenOn
  <2>3. <<Sep(i)>> \in Seq(C)
    BY DEF Sep, Letters
  <2>4. s[i] = Joined(fmt_esc(x[i]), <<Sep(i)>>)
    BY <1>1
  <2>5. QED
    BY <2>2, <2>3, <2>4, JoinedIs
<1>5. s \in Seq(Seq(C)) /\ Len(s) = 7
  BY <1>1, <1>4
<1>6. PICK t \in Seq(C) : t = fmt_line(ev)
  BY <1>3, <1>5, Flattened
<1>7. PICK P0 : Placed(t, s, P0)
  BY <1>3, <1>5, <1>6, FlattenPlaces
<1>8. /\ P0[1] = 1 /\ P0[8] = Len(t) + 1 /\ \A i \in 1 .. 8 : P0[i] \in Nat /\ 1 <= P0[i]
      /\ \A i \in 1 .. 7 : P0[i + 1] = P0[i] + Len(s[i]) /\ Stands(s[i], t, P0[i])
  BY <1>5, <1>7 DEF Placed
<1>9. PICK P : P = [i \in 1 .. 8 |-> P0[i]]
  OBVIOUS
<1>10. P \in [1 .. 8 -> Nat] /\ P[1] = 1 /\ Len(t) = P[8] - 1 /\ \A i \in 1 .. 8 : P[i] = P0[i]
  <2>1. \A i \in 1 .. 8 : P[i] = P0[i]
    BY <1>9
  <2>2. P \in [1 .. 8 -> Nat]
    BY <1>8, <1>9
  <2>3. P[1] = 1 /\ P[8] = Len(t) + 1 /\ Len(t) \in Nat
    <3>1. 1 \in 1 .. 8 /\ 8 \in 1 .. 8
      OBVIOUS
    <3>2. P[1] = P0[1] /\ P[8] = P0[8]
      BY <2>1, <3>1
    <3>3. P0[1] = 1 /\ P0[8] = Len(t) + 1
      BY <1>8
    <3>4. Len(t) \in Nat
      BY <1>6
    <3>5. QED
      BY <3>2, <3>3, <3>4
  <2>4. QED
    BY <2>1, <2>2, <2>3
<1>11. ASSUME NEW i \in 1 .. 7
       PROVE  /\ P[i] \in Nat /\ 1 <= P[i]
              /\ P[i + 1] = P[i] + Len(fmt_esc(x[i])) + 1
              /\ Stands(fmt_esc(x[i]), t, P[i])
              /\ t[P[i + 1] - 1] = Sep(i)
  <2>1. i \in 1 .. 8 /\ i + 1 \in 1 .. 8
    OBVIOUS
  <2>2. PICK p \in Nat : p = P[i] /\ 1 <= p /\ P[i + 1] = p + Len(s[i]) /\ Stands(s[i], t, p)
    BY <1>8, <1>10, <2>1
  <2>3. PICK e \in Seq(C), g \in Seq(C), m \in Nat : e = fmt_esc(x[i]) /\ g = <<Sep(i)>> /\ m = Len(e)
    <3>1. fmt_esc(x[i]) \in Seq(C) /\ <<Sep(i)>> \in Seq(C)
      BY <1>4
    <3>2. Len(fmt_esc(x[i])) \in Nat
      BY <3>1
    <3>3. QED
      BY <3>1, <3>2
  <2>4. s[i] = Joined(e, g) /\ IsJoined(s[i], e, g) /\ Len(g) = 1 /\ g[1] = Sep(i)
    BY <1>4, <2>3
  <2>5. Len(s[i]) = m + 1
    BY <2>3, <2>4 DEF IsJoined
  <2>6. Stands(Joined(e, g), t, p)
    BY <2>2, <2>4
  <2>7. Stands(e, t, p) /\ Stands(g, t, p + m)
    BY <2>3, <2>6, StandsApart
  <2>8. 1 \in 1 .. Len(g) /\ (p + m) + 1 - 1 = (p + (m + 1)) - 1
    BY <2>4
  <2>9. t[(p + m) + 1 - 1] = Sep(i)
    BY <2>4, <2>7, <2>8 DEF Stands
  <2>10. P[i + 1] = p + (m + 1) /\ P[i + 1] = p + m + 1
    <3>1. P[i + 1] = p + Len(s[i])
      BY <2>2
    <3>2. p + (m + 1) = p + m + 1
      OBVIOUS
    <3>3. QED
      BY <2>5, <3>1, <3>2
  <2>11. QED
    BY <2>2, <2>3, <2>7, <2>8, <2>9, <2>10
<1>12. Layout(t, x, P)
  BY <1>10, <1>11 DEF Layout
<1>13. QED
  BY <1>6, <1>12

\* Seven texts.
Texts7(x, C) == \A i \in 1 .. 7 : x[i] \in Seq(C)

\* Each text of a line begins behind the one before it.
LEMMA PlacesRise ==
  ASSUME NEW C, Letters(C), NEW t, NEW x, NEW P, Texts7(x, C), Layout(t, x, P)
  PROVE  /\ \A i \in 1 .. 8 : P[i] \in Nat /\ 1 <= P[i]
         /\ P[1] < P[2] /\ P[2] < P[3] /\ P[3] < P[4] /\ P[4] < P[5] /\ P[5] < P[6] /\ P[6] < P[7] /\ P[7] < P[8]
<1>1. ASSUME NEW i \in 1 .. 7 PROVE P[i] \in Nat /\ 1 <= P[i] /\ P[i + 1] \in Nat /\ P[i] < P[i + 1]
  <2>1. PICK m \in Nat : m = Len(fmt_esc(x[i]))
    <3>1. x[i] \in Seq(C)
      BY DEF Texts7
    <3>2. fmt_esc(x[i]) \in Seq(C)
      BY <3>1, WrittenOn
    <3>3. QED
      BY <3>2
  <2>2. PICK p \in Nat : p = P[i] /\ 1 <= p /\ P[i + 1] = p + m + 1
    BY <2>1 DEF Layout
  <2>3. QED
    BY <2>2
<1>2. /\ P[1] \in Nat /\ P[2] \in Nat /\ P[3] \in Nat /\ P[4] \in Nat
      /\ P[5] \in Nat /\ P[6] \in Nat /\ P[7] \in Nat /\ P[8] \in Nat
  BY DEF Layout
<1>3. 1 <= P[1] /\ P[1] < P[2] /\ P[2] < P[3] /\ P[3] < P[4] /\ P[4] < P[5] /\ P[5] < P[6] /\ P[6] < P[7] /\ P[7] < P[8]
  <2>1. 1 \in 1 .. 7 /\ 2 \in 1 .. 7 /\ 3 \in 1 .. 7 /\ 4 \in 1 .. 7 /\ 5 \in 1 .. 7 /\ 6 \in 1 .. 7 /\ 7 \in 1 .. 7
    OBVIOUS
  <2>2. 1 + 1 = 2 /\ 2 + 1 = 3 /\ 3 + 1 = 4 /\ 4 + 1 = 5 /\ 5 + 1 = 6 /\ 6 + 1 = 7 /\ 7 + 1 = 8
    OBVIOUS
  <2>3. QED
    BY <1>1, <2>1, <2>2
<1>4. \A i \in 1 .. 8 : i = 1 \/ i = 2 \/ i = 3 \/ i = 4 \/ i = 5 \/ i = 6 \/ i = 7 \/ i = 8
  OBVIOUS
<1>5. \A i \in 1 .. 8 : 1 <= P[i]
  BY <1>2, <1>3, <1>4
<1>6. QED
  BY <1>2, <1>3, <1>4, <1>5

\* All of them, in order.
LEMMA PlacesOrdered ==
  ASSUME NEW C, Letters(C), NEW t, NEW x, NEW P, Texts7(x, C), Layout(t, x, P)
  PROVE  \A i, j \in 1 .. 8 : i < j => P[i] < P[j]
<1>1. \A i \in 1 .. 8 : P[i] \in Nat
  BY PlacesRise
<1>2. ASSUME NEW i \in 1 .. 7 PROVE P[i] < P[i + 1]
  <2>1. P[1] < P[2] /\ P[2] < P[3] /\ P[3] < P[4] /\ P[4] < P[5] /\ P[5] < P[6] /\ P[6] < P[7] /\ P[7] < P[8]
    BY PlacesRise
  <2>2. i = 1 \/ i = 2 \/ i = 3 \/ i = 4 \/ i = 5 \/ i = 6 \/ i = 7
    OBVIOUS
  <2>3. 1 + 1 = 2 /\ 2 + 1 = 3 /\ 3 + 1 = 4 /\ 4 + 1 = 5 /\ 5 + 1 = 6 /\ 6 + 1 = 7 /\ 7 + 1 = 8
    OBVIOUS
  <2>4. QED
    BY <2>1, <2>2, <2>3
<1> DEFINE T == {k \in Nat : \A i \in 1 .. 8 : i + (k + 1) <= 8 => P[i] < P[i + (k + 1)]}
<1>3. 0 \in T
  <2> SUFFICES ASSUME NEW i \in 1 .. 8, i + (0 + 1) <= 8 PROVE P[i] < P[i + (0 + 1)]
    OBVIOUS
  <2>1. i \in 1 .. 7 /\ i + (0 + 1) = i + 1
    OBVIOUS
  <2>2. QED
    BY <1>2, <2>1
<1>4. ASSUME NEW k \in Nat, k \in T PROVE k + 1 \in T
  <2> SUFFICES ASSUME NEW i \in 1 .. 8, i + ((k + 1) + 1) <= 8 PROVE P[i] < P[i + ((k + 1) + 1)]
    OBVIOUS
  <2>1. PICK j \in 1 .. 7 : j = i + (k + 1)
    OBVIOUS
  <2>2. j + 1 = i + ((k + 1) + 1) /\ i + (k + 1) <= 8 /\ j \in 1 .. 8 /\ j + 1 \in 1 .. 8
    BY <2>1
  <2>3. P[i] < P[i + (k + 1)]
    BY <1>4, <2>2
  <2>4. P[j] < P[j + 1]
    BY <1>2
  <2>5. PICK a \in Nat, b \in Nat, c \in Nat : a = P[i] /\ b = P[j] /\ c = P[j + 1]
    BY <1>1, <2>2
  <2>6. a < b /\ b < c
    BY <2>1, <2>3, <2>4, <2>5
  <2>7. a < c
    BY <2>6
  <2>8. QED
    BY <2>2, <2>5, <2>7
<1>5. Nat \subseteq T
  <2> HIDE DEF T
  <2>1. QED
    BY <1>3, <1>4, ByInduction
<1>6. QED
  <2> SUFFICES ASSUME NEW i \in 1 .. 8, NEW j \in 1 .. 8, i < j PROVE P[i] < P[j]
    OBVIOUS
  <2>1. PICK k \in Nat : k = j - i - 1
    OBVIOUS
  <2>2. i + (k + 1) = j /\ j <= 8
    BY <2>1
  <2>3. k \in T
    BY <1>5
  <2>4. \A a \in 1 .. 8 : a + (k + 1) <= 8 => P[a] < P[a + (k + 1)]
    BY <2>3
  <2>5. QED
    BY <2>2, <2>4

\* n characters of t stand in b, after off others.
Agree(b, t, n, off) == n <= Len(t) /\ off + n <= Len(b) /\ \A k \in 1 .. n : b[off + k] = t[k]

\* What a list that agrees with the first n characters of a line holds of a field: all
\* of it with its separator, or a part of it.
LEMMA FieldsStand ==
  ASSUME NEW C, Letters(C), NEW t \in Seq(C), NEW x, NEW P, Texts7(x, C), Layout(t, x, P),
         NEW b \in Seq(C), NEW n \in Nat, NEW off \in Nat, Agree(b, t, n, off), NEW i \in 1 .. 7
  PROVE  /\ P[i + 1] <= n + 1 => /\ Stands(fmt_esc(x[i]), b, off + P[i])
                                 /\ b[off + P[i + 1] - 1] = Sep(i)
                                 /\ off + P[i + 1] - 1 <= Len(b)
         /\ P[i] <= n + 1 /\ n + 1 < P[i + 1] => Partly(x[i], b, off + P[i], n + 1 - P[i])
<1>1. PICK e \in Seq(C), m \in Nat : e = fmt_esc(x[i]) /\ m = Len(e)
  <2>1. x[i] \in Seq(C)
    BY DEF Texts7
  <2>2. PICK e \in Seq(C) : e = fmt_esc(x[i])
    BY <2>1, WrittenOn
  <2>3. Len(e) \in Nat
    OBVIOUS
  <2>4. QED
    BY <2>2, <2>3
<1>2. PICK p \in Nat : p = P[i] /\ 1 <= p /\ P[i + 1] = p + m + 1 /\ Stands(e, t, p) /\ t[P[i + 1] - 1] = Sep(i)
  BY <1>1 DEF Layout
<1>3. PICK l \in Nat, lb \in Nat : l = Len(t) /\ lb = Len(b)
  OBVIOUS
<1>4. p + m <= l + 1 /\ \A k \in 1 .. m : t[p + k - 1] = e[k]
  BY <1>1, <1>2, <1>3 DEF Stands
<1>5. n <= l /\ off + n <= lb /\ \A k \in 1 .. n : b[off + k] = t[k]
  BY <1>3 DEF Agree
<1>6. (p + m + 1) - 1 = p + m
  OBVIOUS
<1>7. t[p + m] = Sep(i)
  BY <1>2, <1>6
<1>8. ASSUME NEW k \in 1 .. m, p + k - 1 <= n PROVE b[(off + p) + k - 1] = e[k]
  <2>1. PICK j \in 1 .. n : j = p + k - 1
    BY <1>2, <1>8, SMTT(60)
  <2>2. off + j = (off + p) + k - 1
    BY <2>1
  <2>3. b[off + j] = t[j] /\ t[p + k - 1] = e[k]
    BY <1>4, <1>5
  <2>4. QED
    BY <2>1, <2>2, <2>3
<1>9. ASSUME p + m + 1 <= n + 1
      PROVE  Stands(e, b, off + p) /\ b[off + (p + m + 1) - 1] = Sep(i) /\ off + (p + m + 1) - 1 <= lb
  <2>1. \A k \in 1 .. m : p + k - 1 <= n
    BY <1>9
  <2>2. \A k \in 1 .. m : b[(off + p) + k - 1] = e[k]
    BY <1>8, <2>1
  <2>3. (off + p) + m <= lb + 1
    BY <1>5, <1>9
  <2>4. PICK j \in 1 .. n : j = p + m
    BY <1>2, <1>9, SMTT(60)
  <2>5. off + (p + m + 1) - 1 = off + j /\ off + j <= lb
    BY <1>5, <2>4
  <2>6. b[off + j] = Sep(i)
    BY <1>5, <1>7, <2>4
  <2>7. Stands(e, b, off + p)
    BY <1>1, <1>3, <2>2, <2>3 DEF Stands
  <2>8. QED
    BY <2>5, <2>6, <2>7
<1>10. ASSUME p <= n + 1, n + 1 < p + m + 1 PROVE Partly(x[i], b, off + p, n + 1 - p)
  <2>1. PICK c \in Nat : c = n + 1 - p
    BY <1>10
  <2>2. c <= m /\ (off + p) + c <= lb + 1
    BY <1>5, <1>10, <2>1
  <2>3. \A k \in 1 .. c : k \in 1 .. m /\ p + k - 1 <= n
    BY <1>10, <2>1, <2>2
  <2>4. \A k \in 1 .. c : b[(off + p) + k - 1] = e[k]
    BY <1>8, <2>3
  <2>5. Partly(x[i], b, off + p, c)
    BY <1>1, <1>3, <2>2, <2>4 DEF Partly
  <2>6. QED
    BY <2>1, <2>5
<1>11. QED
  BY <1>1, <1>2, <1>3, <1>9, <1>10

\* A number from the first of eight to before the last lies between two that follow
\* each other.
LEMMA SomeStep ==
  ASSUME NEW k \in Nat, NEW p1 \in Nat, NEW p2 \in Nat, NEW p3 \in Nat, NEW p4 \in Nat, NEW p5 \in Nat,
         NEW p6 \in Nat, NEW p7 \in Nat, NEW p8 \in Nat, p1 <= k, k < p8
  PROVE  \/ p1 <= k /\ k < p2
         \/ p2 <= k /\ k < p3
         \/ p3 <= k /\ k < p4
         \/ p4 <= k /\ k < p5
         \/ p5 <= k /\ k < p6
         \/ p6 <= k /\ k < p7
         \/ p7 <= k /\ k < p8
  OBVIOUS

\* No character of a line but its last one ends it.
LEMMA OneLineEnd ==
  ASSUME NEW C, Letters(C), NEW t \in Seq(C), NEW x, NEW P, Texts7(x, C), Layout(t, x, P)
  PROVE  /\ Len(t) >= 1 /\ t[Len(t)] \in {"\n", "\r"}
         /\ \A k \in 1 .. Len(t) - 1 : t[k] \notin {"\n", "\r"}
<1>1. /\ \A i \in 1 .. 8 : P[i] \in Nat /\ 1 <= P[i]
      /\ P[1] < P[2] /\ P[2] < P[3] /\ P[3] < P[4] /\ P[4] < P[5] /\ P[5] < P[6] /\ P[6] < P[7] /\ P[7] < P[8]
  BY PlacesRise
<1>2. PICK l \in Nat : l = Len(t) /\ P[8] = l + 1 /\ l >= 1 /\ P[1] = 1
  <2>1. Len(t) = P[8] - 1 /\ Len(t) \in Nat /\ P[1] = 1
    BY DEF Layout
  <2>2. P[8] \in Nat /\ P[7] \in Nat /\ 1 <= P[7]
    BY <1>1
  <2>3. QED
    BY <1>1, <2>1, <2>2
<1>3. t[l] = "\n"
  <2>1. 7 \in 1 .. 7 /\ 7 + 1 = 8
    OBVIOUS
  <2>2. t[P[8] - 1] = Sep(7)
    BY <2>1 DEF Layout
  <2>3. P[8] - 1 = l
    BY <1>2
  <2>4. QED
    BY <2>2, <2>3 DEF Sep
<1>4. ASSUME NEW k \in 1 .. l - 1 PROVE t[k] \notin {"\n", "\r"}
  <2>1. PICK i \in 1 .. 7 : P[i] <= k /\ k < P[i + 1]
    <3>1. P[2] \in Nat /\ P[3] \in Nat /\ P[4] \in Nat /\ P[5] \in Nat /\ P[6] \in Nat /\ P[7] \in Nat
      BY <1>1
    <3>2. PICK p1 \in Nat, p2 \in Nat, p3 \in Nat, p4 \in Nat, p5 \in Nat, p6 \in Nat, p7 \in Nat, p8 \in Nat :
            /\ p1 = P[1] /\ p2 = P[2] /\ p3 = P[3] /\ p4 = P[4] /\ p5 = P[5] /\ p6 = P[6] /\ p7 = P[7]
            /\ p8 = P[8] /\ p1 <= k /\ k < p8 /\ k \in Nat
      <4>1. P[1] \in Nat /\ P[8] \in Nat /\ P[1] <= k /\ k < P[8] /\ k \in Nat
        BY <1>2
      <4>2. QED
        BY <3>1, <4>1
    <3>3. \/ p1 <= k /\ k < p2
          \/ p2 <= k /\ k < p3
          \/ p3 <= k /\ k < p4
          \/ p4 <= k /\ k < p5
          \/ p5 <= k /\ k < p6
          \/ p6 <= k /\ k < p7
          \/ p7 <= k /\ k < p8
      <4>1. k \in Nat /\ p1 <= k /\ k < p8
        BY <3>2
      <4>2. QED
        BY <4>1, SomeStep
    <3>4. 1 \in 1 .. 7 /\ 2 \in 1 .. 7 /\ 3 \in 1 .. 7 /\ 4 \in 1 .. 7 /\ 5 \in 1 .. 7 /\ 6 \in 1 .. 7 /\ 7 \in 1 .. 7
      OBVIOUS
    <3>5. 1 + 1 = 2 /\ 2 + 1 = 3 /\ 3 + 1 = 4 /\ 4 + 1 = 5 /\ 5 + 1 = 6 /\ 6 + 1 = 7 /\ 7 + 1 = 8
      OBVIOUS
    <3>6. QED
      BY <3>2, <3>3, <3>4, <3>5
  <2>2. PICK e \in Seq(C), m \in Nat : /\ e = fmt_esc(x[i]) /\ m = Len(e)
                                       /\ \A j \in 1 .. m : e[j] \notin {"\n", "\r"}
    <3>1. x[i] \in Seq(C)
      BY DEF Texts7
    <3>2. fmt_esc(x[i]) \in Seq(C) /\ \A j \in 1 .. Len(fmt_esc(x[i])) : fmt_esc(x[i])[j] \notin {"\n", "\r"}
      BY <3>1, WrittenOn, WrittenText
    <3>3. Len(fmt_esc(x[i])) \in Nat
      BY <3>2
    <3>4. QED
      BY <3>2, <3>3
  <2>3. PICK p \in Nat : p = P[i] /\ 1 <= p /\ P[i + 1] = p + m + 1 /\ Stands(e, t, p) /\ t[P[i + 1] - 1] = Sep(i)
    BY <2>2 DEF Layout
  <2>4. CASE k = p + m
    <3>1. P[i + 1] - 1 = k
      BY <2>3, <2>4
    <3>2. t[k] = Sep(i)
      BY <2>3, <3>1
    <3>3. i # 7
      <4>1. 7 + 1 = 8 /\ P[8] - 1 = l
        BY <1>2
      <4>2. QED
        BY <1>4, <3>1, <4>1
    <3>4. QED
      BY <3>2, <3>3 DEF Sep
  <2>5. CASE k # p + m
    <3>0. p <= k /\ k < p + m + 1 /\ k # p + m
      BY <2>1, <2>3, <2>5
    <3>1. PICK j \in 1 .. m : j = k - p + 1
      BY <3>0
    <3>2. p + j - 1 = k
      BY <3>1
    <3>3. t[p + j - 1] = e[j]
      BY <2>2, <2>3 DEF Stands
    <3>4. QED
      BY <2>2, <3>2, <3>3
  <2>6. QED
    BY <2>4, <2>5
<1>5. QED
  BY <1>2, <1>3, <1>4

\* The beginning of a list.
LEMMA FirstPart ==
  ASSUME NEW C, NEW a \in Seq(C), NEW n \in Nat, n <= Len(a)
  PROVE  /\ SubSeq(a, 1, n) \in Seq(C) /\ Len(SubSeq(a, 1, n)) = n
         /\ \A k \in 1 .. n : SubSeq(a, 1, n)[k] = a[k]
  OBVIOUS

\* A line as parse_event sees it, the rest of a cut one, and a line glued to such
\* a rest.
LEMMA BareLine ==
  ASSUME NEW C, Letters(C), NEW t \in Seq(C), NEW x, NEW P, Texts7(x, C), Layout(t, x, P)
  PROVE  /\ Bare(t) = SubSeq(t, 1, Len(t) - 1)
         /\ \A n \in 0 .. Len(t) - 1 : /\ Bare(SubSeq(t, 1, n)) = SubSeq(t, 1, n)
                                       /\ Bare(SubSeq(t, 1, n) \o t) = SubSeq(t, 1, n) \o SubSeq(t, 1, Len(t) - 1)
<1>1. PICK l \in Nat : /\ l = Len(t) /\ l >= 1 /\ t[l] \in {"\n", "\r"}
                       /\ \A k \in 1 .. l - 1 : t[k] \notin {"\n", "\r"}
  BY OneLineEnd
<1>2. PICK h \in Nat : h = l - 1 /\ h + 1 = l
  BY <1>1
<1>3. Bare(t) = SubSeq(t, 1, h)
  <2>1. h <= Len(t) /\ (\A k \in h + 1 .. Len(t) : k = l) /\ (h # 0 => h \in 1 .. l - 1)
    BY <1>1, <1>2
  <2>2. (\A k \in h + 1 .. Len(t) : t[k] \in {"\n", "\r"}) /\ (h # 0 => t[h] \notin {"\n", "\r"})
    BY <1>1, <2>1
  <2>3. QED
    BY <2>1, <2>2, BareIs
<1>4. ASSUME NEW n \in 0 .. l - 1
      PROVE  /\ Bare(SubSeq(t, 1, n)) = SubSeq(t, 1, n)
             /\ Bare(SubSeq(t, 1, n) \o t) = SubSeq(t, 1, n) \o SubSeq(t, 1, h)
  <2>1. PICK a \in Seq(C) : a = SubSeq(t, 1, n) /\ Len(a) = n /\ \A k \in 1 .. n : a[k] = t[k]
    <3>1. n \in Nat /\ n <= Len(t)
      BY <1>1
    <3>2. /\ SubSeq(t, 1, n) \in Seq(C) /\ Len(SubSeq(t, 1, n)) = n
          /\ \A k \in 1 .. n : SubSeq(t, 1, n)[k] = t[k]
      BY <3>1, FirstPart
    <3>3. QED
      BY <3>2
  <2>2. n \in Nat /\ (n # 0 => a[n] \notin {"\n", "\r"})
    BY <1>1, <2>1
  <2>3. Bare(a) = a
    <3>1. n <= Len(a) /\ \A k \in n + 1 .. Len(a) : FALSE
      BY <2>1, <2>2
    <3>2. Bare(a) = SubSeq(a, 1, n)
      BY <2>2, <3>1, BareIs
    <3>3. SubSeq(a, 1, Len(a)) = a
      BY WholeList
    <3>4. QED
      BY <2>1, <3>2, <3>3
  <2>4. PICK w : w = Joined(a, t)
    OBVIOUS
  <2>5. w \in Seq(C) /\ IsJoined(w, a, t)
    BY <2>4, JoinedIs
  <2>6. /\ Len(w) = n + l /\ (\A k \in 1 .. n : w[k] = a[k])
        /\ \A k \in 1 .. l : w[n + k] = t[k]
    BY <1>1, <2>1, <2>5 DEF IsJoined
  <2>7. PICK q \in Nat : q = n + h
    BY <2>2
  <2>8. q <= Len(w) /\ \A k \in q + 1 .. Len(w) : k = n + l
    BY <1>2, <2>2, <2>6, <2>7
  <2>9. \A k \in q + 1 .. Len(w) : w[k] \in {"\n", "\r"}
    <3>1. l \in 1 .. l
      BY <1>1
    <3>2. w[n + l] = t[l]
      BY <2>6, <3>1
    <3>3. QED
      BY <1>1, <2>8, <3>2
  <2>10. q # 0 => w[q] \notin {"\n", "\r"}
    <3>1. CASE h = 0
      BY <1>2, <2>2, <2>7, <3>1, <1>4
    <3>2. CASE h # 0
      <4>1. h \in 1 .. l /\ h \in 1 .. l - 1
        BY <1>1, <1>2, <3>2
      <4>2. w[n + h] = t[h]
        BY <2>6, <4>1
      <4>3. QED
        BY <1>1, <2>7, <4>1, <4>2
    <3>3. QED
      BY <3>1, <3>2
  <2>11. Bare(w) = SubSeq(w, 1, q)
    BY <2>5, <2>8, <2>9, <2>10, BareIs
  <2>12. SubSeq(w, 1, q) = a \o SubSeq(t, 1, h)
    <3>1. PICK b \in Seq(C) : b = SubSeq(t, 1, h) /\ Len(b) = h /\ \A k \in 1 .. h : b[k] = t[k]
      <4>1. h <= Len(t)
        BY <1>1, <1>2
      <4>2. /\ SubSeq(t, 1, h) \in Seq(C) /\ Len(SubSeq(t, 1, h)) = h
            /\ \A k \in 1 .. h : SubSeq(t, 1, h)[k] = t[k]
        BY <4>1, FirstPart
      <4>3. QED
        BY <4>2
    <3>2. PICK v \in Seq(C) : v = SubSeq(w, 1, q) /\ Len(v) = q /\ \A k \in 1 .. q : v[k] = w[k]
      <4>1. w \in Seq(C) /\ q <= Len(w)
        BY <2>5, <2>8
      <4>2. /\ SubSeq(w, 1, q) \in Seq(C) /\ Len(SubSeq(w, 1, q)) = q
            /\ \A k \in 1 .. q : SubSeq(w, 1, q)[k] = w[k]
        BY <4>1, FirstPart
      <4>3. QED
        BY <4>2
    <3>3. Len(v) = Len(a) + Len(b)
      BY <2>1, <2>7, <3>1, <3>2
    <3>4. \A k \in 1 .. Len(a) : v[k] = a[k]
      BY <2>1, <2>2, <2>6, <2>7, <3>2
    <3>5. \A k \in 1 .. Len(b) : v[Len(a) + k] = b[k]
      <4> SUFFICES ASSUME NEW k \in 1 .. h PROVE v[n + k] = b[k]
        BY <2>1, <3>1
      <4>1. n + k \in 1 .. q /\ k \in 1 .. l
        BY <1>2, <2>2, <2>7
      <4>2. v[n + k] = w[n + k] /\ w[n + k] = t[k]
        BY <2>6, <3>2, <4>1
      <4>3. QED
        BY <3>1, <4>2
    <3>6. a \o b = v
      BY <3>3, <3>4, <3>5, PutTogether
    <3>7. QED
      BY <3>1, <3>2, <3>6
  <2>13. QED
    BY <2>1, <2>3, <2>4, <2>11, <2>12 DEF Joined
<1>5. QED
  BY <1>1, <1>2, <1>3, <1>4

\* The i-th field ends, with its separator, within the first n characters.
Inside(P, i, n) == P[i + 1] <= n + 1
WhollyRead(b, off, x, P, i) == esc_field(b, off + P[i]) = [ok |-> TRUE, out |-> x[i], next |-> off + P[i + 1]]

\* A field that stands whole in a line, with what separates it from the next.
LEMMA WholeField ==
  ASSUME NEW C, Letters(C), NEW t \in Seq(C), NEW x, NEW P, Texts7(x, C), Layout(t, x, P),
         NEW b \in Seq(C), NEW n \in Nat, NEW off \in Nat, Agree(b, t, n, off), NEW i \in 1 .. 6,
         Inside(P, i, n)
  PROVE  WhollyRead(b, off, x, P, i)
<1>1. i \in 1 .. 7 /\ i # 7
  OBVIOUS
<1>2. Stands(fmt_esc(x[i]), b, off + P[i]) /\ b[off + P[i + 1] - 1] = "|" /\ off + P[i + 1] - 1 <= Len(b)
  <2>1. /\ Stands(fmt_esc(x[i]), b, off + P[i])
        /\ b[off + P[i + 1] - 1] = Sep(i)
        /\ off + P[i + 1] - 1 <= Len(b)
    BY <1>1, FieldsStand DEF Inside
  <2>2. Sep(i) = "|"
    BY <1>1 DEF Sep
  <2>3. QED
    BY <2>1, <2>2
<1>3. PICK s \in Seq(C), m \in Nat : s = x[i] /\ m = Len(fmt_esc(s))
  <2>1. x[i] \in Seq(C)
    BY <1>1 DEF Texts7
  <2>2. fmt_esc(x[i]) \in Seq(C)
    BY <2>1, WrittenOn
  <2>3. Len(fmt_esc(x[i])) \in Nat
    BY <2>2
  <2>4. QED
    BY <2>1, <2>3
<1>4. PICK p \in Nat : p = P[i] /\ 1 <= p /\ P[i + 1] = p + m + 1
  BY <1>1, <1>3 DEF Layout
<1>5. PICK a \in Nat, q \in Nat : a = off + p /\ q = a + m /\ 1 <= a /\ off + P[i + 1] - 1 = q /\ off + P[i + 1] = q + 1
  <2>1. PICK a \in Nat, q \in Nat : a = off + p /\ q = a + m /\ 1 <= a
    BY <1>4, SMTT(60)
  <2>2. off + (p + m + 1) - 1 = q /\ off + (p + m + 1) = q + 1
    BY <2>1
  <2>3. QED
    BY <1>4, <2>1, <2>2
<1>6. Stands(fmt_esc(s), b, a) /\ b[q] = "|" /\ q <= Len(b)
  BY <1>2, <1>3, <1>4, <1>5
<1>7. q = a + Len(fmt_esc(s))
  BY <1>3, <1>5
<1>8. esc_field(b, a) = [ok |-> TRUE, out |-> s, next |-> q + 1]
  BY <1>5, <1>6, <1>7, WholeRead, ZenonT(60)
<1>9. QED
  BY <1>3, <1>4, <1>5, <1>8 DEF WhollyRead

\* The last field, and nothing after it.
LEMMA LastField ==
  ASSUME NEW C, Letters(C), NEW t \in Seq(C), NEW x, NEW P, Texts7(x, C), Layout(t, x, P),
         NEW b \in Seq(C), NEW n \in Nat, Agree(b, t, n, 0), n + 1 = Len(t), Len(b) = n
  PROVE  esc_field(b, P[7]) = [ok |-> TRUE, out |-> x[7], next |-> Len(b) + 1]
<1>1. PICK s \in Seq(C), m \in Nat : s = x[7] /\ m = Len(fmt_esc(s))
  <2>1. x[7] \in Seq(C)
    BY DEF Texts7
  <2>2. fmt_esc(x[7]) \in Seq(C)
    BY <2>1, WrittenOn
  <2>3. Len(fmt_esc(x[7])) \in Nat
    BY <2>2
  <2>4. QED
    BY <2>1, <2>3
<1>2. PICK p \in Nat : p = P[7] /\ 1 <= p /\ P[8] = p + m + 1 /\ Len(t) = P[8] - 1
  <2>1. 7 \in 1 .. 7 /\ 7 + 1 = 8
    OBVIOUS
  <2>2. P[7] \in Nat /\ 1 <= P[7] /\ P[7 + 1] = P[7] + Len(fmt_esc(x[7])) + 1 /\ Len(t) = P[8] - 1
    BY <2>1 DEF Layout
  <2>3. QED
    BY <1>1, <2>1, <2>2
<1>3. n = p + m - 1
  <2>1. Len(t) = p + m
    BY <1>2, SMTT(60)
  <2>2. QED
    BY <2>1
<1>4. Partly(s, b, p, m)
  <2>1. 7 \in 1 .. 7 /\ 7 + 1 = 8 /\ 0 \in Nat
    OBVIOUS
  <2>2. P[7] <= n + 1 /\ n + 1 < P[8]
    BY <1>2, <1>3, SMTT(60)
  <2>3. Partly(x[7], b, 0 + P[7], n + 1 - P[7])
    BY <2>1, <2>2, FieldsStand
  <2>4. 0 + P[7] = p /\ n + 1 - P[7] = m
    <3>1. 0 + p = p /\ n + 1 - p = m
      BY <1>3
    <3>2. QED
      BY <1>2, <3>1
  <2>5. QED
    BY <1>1, <2>3, <2>4
<1>5. Stands(fmt_esc(s), b, p)
  BY <1>1, <1>4 DEF Partly, Stands
<1>6. PICK q \in Nat : q = p + Len(fmt_esc(s)) /\ q = Len(b) + 1
  BY <1>1, <1>3
<1>7. QED
  BY <1>1, <1>2, <1>5, <1>6, WholeRead, ZenonT(60)

\* The cut, after n characters, hits the field.
Hits(P, i, n) == P[i] <= n + 1 /\ n + 1 < P[i + 1]
CutShort(C, b, x, P, i, n) ==
  \/ ~esc_field(b, P[i]).ok
  \/ \E y \in Seq(C) : /\ Begins(y, x[i]) /\ esc_field(b, P[i]) = [ok |-> TRUE, out |-> y, next |-> n + 1]
                       /\ P[i] = n + 1 => y = <<>>
GluedOn(C, b, P, i, n) ==
  \/ ~esc_field(b, P[i]).ok
  \/ \E y \in Seq(C) : esc_field(b, P[i]) = [ok |-> TRUE, out |-> y, next |-> n + P[2]]

\* A field that the cut ends.
LEMMA CutField ==
  ASSUME NEW C, Letters(C), NEW t \in Seq(C), NEW x, NEW P, Texts7(x, C), Layout(t, x, P),
         NEW b \in Seq(C), NEW n \in Nat, Agree(b, t, n, 0), Len(b) = n, NEW i \in 1 .. 7,
         Hits(P, i, n)
  PROVE  CutShort(C, b, x, P, i, n)
<1> USE DEF CutShort, Hits
<1>1. PICK p \in Nat : p = P[i] /\ 1 <= p /\ p <= n + 1
  BY DEF Layout
<1>2. PICK m \in Nat : m = n + 1 - p
  BY <1>1
<1>3. Partly(x[i], b, 0 + P[i], n + 1 - P[i])
  <2>1. 0 \in Nat
    OBVIOUS
  <2>2. QED
    BY <2>1, FieldsStand
<1>4. 0 + P[i] = p /\ n + 1 - P[i] = m /\ p + m = Len(b) + 1
  BY <1>1, <1>2, SMTT(60)
<1>5. PICK s \in Seq(C) : s = x[i]
  BY DEF Texts7
<1>6. Partly(s, b, p, m)
  BY <1>3, <1>4, <1>5
<1>7. ReadToEnd(C, b, p, s, m)
  BY <1>1, <1>4, <1>6, CutRead
<1>8. P[i] = n + 1 => m = 0
  BY <1>1, <1>2
<1>9. QED
  BY <1>1, <1>5, <1>7, <1>8 DEF ReadToEnd

\* A field that is cut, with a line after it.
LEMMA GluedField ==
  ASSUME NEW C, Letters(C), NEW t \in Seq(C), NEW x, NEW P, Texts7(x, C), Layout(t, x, P),
         NEW b \in Seq(C), NEW n \in Nat, Agree(b, t, n, 0), NEW h \in Nat, Agree(b, t, h, n), h + 1 = Len(t),
         NEW i \in 1 .. 7, Hits(P, i, n), Unsigned(x[1])
  PROVE  GluedOn(C, b, P, i, n)
<1> USE DEF GluedOn, Hits
<1>1. PICK p \in Nat : p = P[i] /\ 1 <= p /\ p <= n + 1
  BY DEF Layout
<1>2. PICK m \in Nat : m = n + 1 - p
  BY <1>1
<1>3. Partly(x[i], b, 0 + P[i], n + 1 - P[i])
  <2>1. 0 \in Nat
    OBVIOUS
  <2>2. QED
    BY <2>1, FieldsStand
<1>4. 0 + P[i] = p /\ n + 1 - P[i] = m /\ p + m = n + 1
  BY <1>1, <1>2, SMTT(60)
<1>5. PICK s \in Seq(C), z \in Seq(C) : s = x[i] /\ z = x[1]
  <2>0. 1 \in 1 .. 7 /\ \A j \in 1 .. 7 : x[j] \in Seq(C)
    BY DEF Texts7
  <2>1. x[i] \in Seq(C)
    BY <2>0
  <2>2. x[1] \in Seq(C)
    BY <2>0
  <2>3. QED
    BY <2>1, <2>2
<1>6. Partly(s, b, p, m)
  BY <1>3, <1>4, <1>5
<1>7. fmt_esc(z) = z /\ z # <<>> /\ z[1] \in Digits
  BY <1>5, NumbersPlain DEF Number
<1>8. PICK l \in Nat : l = Len(z) /\ 1 <= l
  BY <1>7
<1>9. P[1] = 1 /\ P[2] = l + 2 /\ P[2] <= h + 1
  <2>1. P[1] = 1 /\ P[2] = P[1] + Len(fmt_esc(x[1])) + 1 /\ Len(t) = P[8] - 1
    <3>1. 1 \in 1 .. 7 /\ 1 + 1 = 2
      OBVIOUS
    <3>2. QED
      BY <3>1 DEF Layout
  <2>2. P[2] = l + 2
    BY <1>5, <1>7, <1>8, <2>1, SMTT(60)
  <2>3. P[2] < P[8] /\ P[2] \in Nat /\ P[8] \in Nat
    <3>1. 2 \in 1 .. 8 /\ 8 \in 1 .. 8 /\ 2 < 8
      OBVIOUS
    <3>2. \A j \in 1 .. 8 : P[j] \in Nat
      BY PlacesRise
    <3>3. \A k, j \in 1 .. 8 : k < j => P[k] < P[j]
      BY PlacesOrdered
    <3>4. QED
      BY <3>1, <3>2, <3>3
  <2>4. QED
    BY <2>1, <2>2, <2>3, SMTT(60)
<1>10. Stands(z, b, n + 1) /\ b[n + P[2] - 1] = "|" /\ n + P[2] - 1 <= Len(b)
  <2>1. 1 \in 1 .. 7 /\ 1 + 1 = 2 /\ 1 # 7
    OBVIOUS
  <2>2. /\ Stands(fmt_esc(x[1]), b, n + P[1])
        /\ b[n + P[2] - 1] = Sep(1)
        /\ n + P[2] - 1 <= Len(b)
    <3>1. \A j \in 1 .. 7 : P[j + 1] <= h + 1 => /\ Stands(fmt_esc(x[j]), b, n + P[j])
                                                 /\ b[n + P[j + 1] - 1] = Sep(j)
                                                 /\ n + P[j + 1] - 1 <= Len(b)
      BY FieldsStand
    <3>2. QED
      BY <1>9, <2>1, <3>1
  <2>3. QED
    BY <1>5, <1>7, <1>9, <2>1, <2>2 DEF Sep
<1>11. PICK q \in Nat : q = n + l + 1 /\ n + P[2] - 1 = q /\ n + P[2] = q + 1
  BY <1>9
<1>12. b[n + 1] = z[1]
  <2>1. 1 \in 1 .. Len(z) /\ (n + 1) + 1 - 1 = n + 1
    BY <1>8
  <2>2. b[(n + 1) + 1 - 1] = z[1]
    BY <1>10, <2>1 DEF Stands
  <2>3. QED
    BY <2>1, <2>2
<1>13. \A c \in DOMAIN Escapes : Escapes[c] # b[p + m]
  BY <1>4, <1>7, <1>12, EscapeKinds, SMTT(60)
<1>14. p + m <= Len(b)
  BY <1>4, <1>8, <1>10, <1>11, SMTT(60)
<1>15. Stands(fmt_esc(z), b, p + m)
  BY <1>4, <1>7, <1>10
<1>16. ReadThrough(C, b, p, p + m + Len(fmt_esc(z)))
  BY <1>1, <1>6, <1>13, <1>14, <1>15, GluedRead
<1>17. p + m + Len(fmt_esc(z)) = q
  <2>1. Len(fmt_esc(z)) = l
    BY <1>7, <1>8
  <2>2. (n + 1) + l = q
    BY <1>11
  <2>3. QED
    BY <1>4, <2>1, <2>2
<1>18. esc_field(b, q) = [ok |-> TRUE, out |-> <<>>, next |-> q + 1]
  <2>1. q \in 1 .. Len(b) /\ b[q] = "|"
    BY <1>10, <1>11, SMTT(60)
  <2>2. QED
    BY <2>1, SeparatorRead
<1>19. \A y \in Seq(C) : Before(y, [ok |-> TRUE, out |-> <<>>, next |-> q + 1]) = [ok |-> TRUE, out |-> y, next |-> q + 1]
  BY WholeList DEF Before
<1>20. QED
  BY <1>1, <1>11, <1>16, <1>17, <1>18, <1>19 DEF ReadThrough

\* What the first k fields of a line are read as.
FirstRead(C, b, x, P, k) ==
  LET r == Read(b)[k] IN
  /\ r.ok /\ r.out \in Seq(Seq(C)) /\ Len(r.out) = k /\ \A j \in 1 .. k : r.out[j] = x[j]
  /\ r.next = IF k = 7 THEN Len(b) + 1 ELSE P[k + 1]

\* A list of lists and one more.
LEMMA OneMoreText ==
  ASSUME NEW S, NEW o \in Seq(S), NEW s \in S, NEW k \in Nat, Len(o) = k
  PROVE  /\ Append(o, s) \in Seq(S) /\ Len(Append(o, s)) = k + 1 /\ Append(o, s)[k + 1] = s
         /\ \A j \in 1 .. k : Append(o, s)[j] = o[j]
  OBVIOUS

\* All fields of a whole line are read as the texts they were written for.
LEMMA WholeParsed ==
  ASSUME NEW C, Letters(C), NEW t \in Seq(C), NEW x, NEW P, Texts7(x, C), Layout(t, x, P),
         \A i \in 1 .. 7 : Fits(i, x[i]),
         NEW b \in Seq(C), NEW n \in Nat, Agree(b, t, n, 0), Len(b) = n, n + 1 = Len(t)
  PROVE  FirstRead(C, b, x, P, 7)
<1>1. P[8] = n + 2 /\ n # 0 /\ P[1] = 1 /\ 1 <= n + 1
  <2>1. Len(t) = P[8] - 1 /\ Len(t) \in Nat /\ P[1] = 1
    BY DEF Layout
  <2>2. 1 \in 1 .. 8 /\ 2 \in 1 .. 8 /\ 8 \in 1 .. 8 /\ 1 < 2 /\ 2 < 8
    OBVIOUS
  <2>3. P[1] < P[2] /\ P[2] < P[8]
    BY <2>2, PlacesOrdered
  <2>4. P[2] \in Nat /\ P[8] \in Nat
    BY <2>2, PlacesRise
  <2>5. P[8] >= 3
    BY <2>1, <2>3, <2>4
  <2>6. PICK p \in Nat : p = P[8]
    BY <2>4
  <2>7. n + 1 = p - 1 /\ p >= 3
    BY <2>1, <2>5, <2>6
  <2>8. p = n + 2 /\ n # 0 /\ 1 <= n + 1
    BY <2>7
  <2>9. QED
    BY <2>1, <2>6, <2>8
<1> DEFINE T == {k \in Nat : k <= 7 => FirstRead(C, b, x, P, k)}
<1>4. 0 \in T
  <2>1. Read(b)[0] = [ok |-> b # <<>>, out |-> <<>>, next |-> 1]
    BY ReadIs
  <2>2. b # <<>>
    BY <1>1
  <2>3. <<>> \in Seq(Seq(C)) /\ Len(<<>>) = 0 /\ 0 # 7 /\ 0 + 1 = 1
    OBVIOUS
  <2>4. PICK r : r = Read(b)[0]
    OBVIOUS
  <2>5. r.ok /\ r.out = <<>> /\ r.next = 1
    <3>1. (b # <<>>) = TRUE
      BY <2>2
    <3>2. r = [ok |-> TRUE, out |-> <<>>, next |-> 1]
      BY <2>1, <2>4, <3>1
    <3>3. QED
      BY <3>2
  <2>6. r.out \in Seq(Seq(C)) /\ Len(r.out) = 0 /\ (\A j \in 1 .. 0 : r.out[j] = x[j]) /\ r.next = P[0 + 1]
    BY <1>1, <2>3, <2>5
  <2>7. FirstRead(C, b, x, P, 0)
    BY <2>3, <2>4, <2>5, <2>6 DEF FirstRead
  <2>8. QED
    BY <2>7
<1>5. ASSUME NEW k \in Nat, k \in T PROVE k + 1 \in T
  <2> SUFFICES ASSUME k + 1 <= 7 PROVE FirstRead(C, b, x, P, k + 1)
    OBVIOUS
  <2>1. PICK i \in 1 .. 7 : i = k + 1
    OBVIOUS
  <2>2. i - 1 = k /\ k # 7 /\ k <= 7
    BY <2>1
  <2>3. PICK r : r = Read(b)[k]
    OBVIOUS
  <2>4. /\ r.ok /\ r.out \in Seq(Seq(C)) /\ Len(r.out) = k /\ \A j \in 1 .. k : r.out[j] = x[j]
        /\ r.next = P[i]
    BY <1>5, <2>1, <2>2, <2>3 DEF FirstRead
  <2>5. Read(b)[i] = OneMore(b, i, r)
    BY <2>2, <2>3, ReadIs
  <2>6. PICK q : q = IF i = 7 THEN Len(b) + 1 ELSE P[i + 1]
    OBVIOUS
  <2>7. esc_field(b, P[i]) = [ok |-> TRUE, out |-> x[i], next |-> q]
    <3>1. CASE i = 7
      <4>1. esc_field(b, P[7]) = [ok |-> TRUE, out |-> x[7], next |-> Len(b) + 1]
        BY LastField
      <4>2. QED
        BY <2>6, <3>1, <4>1
    <3>2. CASE i # 7
      <4>1. i \in 1 .. 6
        BY <3>2
      <4>2. P[i + 1] <= n + 1
        <5>1. i + 1 \in 1 .. 8 /\ 8 \in 1 .. 8 /\ i + 1 < 8
          BY <4>1
        <5>2. P[i + 1] < P[8] /\ P[i + 1] \in Nat
          BY <5>1, PlacesOrdered, PlacesRise
        <5>3. QED
          BY <1>1, <5>2
      <4>3. PICK z \in Nat, g \in 1 .. 6 : z = 0 /\ g = i
        BY <4>1
      <4>4. esc_field(b, 0 + P[i]) = [ok |-> TRUE, out |-> x[i], next |-> 0 + P[i + 1]]
        <5>1. Agree(b, t, n, z) /\ Inside(P, g, n)
          BY <4>2, <4>3 DEF Inside
        <5>2. esc_field(b, z + P[g]) = [ok |-> TRUE, out |-> x[g], next |-> z + P[g + 1]]
          <6>1. WhollyRead(b, z, x, P, g)
            BY <5>1, WholeField
          <6>2. QED
            BY <6>1 DEF WhollyRead
        <5>3. QED
          BY <4>3, <5>2
      <4>5. 0 + P[i] = P[i] /\ 0 + P[i + 1] = P[i + 1]
        <5>1. i \in 1 .. 8 /\ i + 1 \in 1 .. 8
          BY <4>1
        <5>2. P[i] \in Nat /\ P[i + 1] \in Nat
          BY <5>1, PlacesRise
        <5>3. QED
          BY <5>2, SMTT(60)
      <4>6. QED
        BY <2>6, <3>2, <4>4, <4>5
    <3>3. QED
      BY <3>1, <3>2
  <2>8. OneMore(b, i, r) = [ok |-> TRUE, out |-> Append(r.out, x[i]), next |-> q]
    <3>1. Fits(i, x[i])
      OBVIOUS
    <3>2. esc_field(b, r.next) = [ok |-> TRUE, out |-> x[i], next |-> q]
      BY <2>4, <2>7
    <3>3. \A s, g : esc_field(b, r.next) = [ok |-> TRUE, out |-> s, next |-> g] =>
              OneMore(b, i, r) = IF r.ok /\ Fits(i, s) THEN [ok |-> TRUE, out |-> Append(r.out, s), next |-> g]
                                    ELSE NoField
      BY OneMoreIs
    <3>4. OneMore(b, i, r) = IF r.ok /\ Fits(i, x[i]) THEN [ok |-> TRUE, out |-> Append(r.out, x[i]), next |-> q]
                             ELSE NoField
      BY <3>2, <3>3
    <3>5. QED
      BY <2>4, <3>1, <3>4
  <2>9. PICK o : o = Append(r.out, x[i])
    OBVIOUS
  <2>10. o \in Seq(Seq(C)) /\ Len(o) = k + 1 /\ o[k + 1] = x[i] /\ \A j \in 1 .. k : o[j] = r.out[j]
    <3>1. x[i] \in Seq(C)
      BY DEF Texts7
    <3>2. QED
      BY <2>4, <2>9, <3>1, OneMoreText, SMTT(60)
  <2>11. \A j \in 1 .. k + 1 : o[j] = x[j]
    <3>1. \A j \in 1 .. k + 1 : j = k + 1 \/ j \in 1 .. k
      OBVIOUS
    <3>2. QED
      BY <2>1, <2>4, <2>10, <3>1
  <2>12. PICK w : w = Read(b)[i]
    OBVIOUS
  <2>13. w.ok /\ w.out = o /\ w.next = IF i = 7 THEN Len(b) + 1 ELSE P[i + 1]
    BY <2>5, <2>6, <2>8, <2>9, <2>12
  <2>14. w.out \in Seq(Seq(C)) /\ Len(w.out) = i /\ \A j \in 1 .. i : w.out[j] = x[j]
    BY <2>1, <2>10, <2>11, <2>13
  <2>15. FirstRead(C, b, x, P, i)
    BY <2>12, <2>13, <2>14 DEF FirstRead
  <2>16. QED
    BY <2>1, <2>15
<1>6. 7 \in T
  <2> HIDE DEF T
  <2>1. QED
    BY <1>4, <1>5, ByInduction
<1>7. QED
  BY <1>6

\* A line that was cut is refused, or read as far as it goes.
PartOf(C, o, x, P, n, j) ==
  /\ o[j] \in Seq(C) /\ Begins(o[j], x[j]) /\ Fits(j, o[j])
  /\ P[j + 1] <= n + 1 => o[j] = x[j]
  /\ P[j] > n => o[j] = <<>>
PartRead7(C, b, x, P, n, k) ==
  LET r == Read(b)[k] IN
  r.ok => /\ r.out \in Seq(Seq(C)) /\ Len(r.out) = k /\ \A j \in 1 .. k : PartOf(C, r.out, x, P, n, j)
          /\ r.next = IF P[k + 1] <= n + 1 THEN P[k + 1] ELSE n + 1

\* Each field of a cut line that is accepted is read as a part of its text, the whole of
\* it when the cut is behind it.
LEMMA CutParsed ==
  ASSUME NEW C, Letters(C), NEW t \in Seq(C), NEW x, NEW P, Texts7(x, C), Layout(t, x, P),
         NEW b \in Seq(C), NEW n \in Nat, Agree(b, t, n, 0), Len(b) = n, n < Len(t)
  PROVE  PartRead7(C, b, x, P, n, 7)
<1>1. P[1] = 1 /\ n + 1 < P[8]
  <2>1. Len(t) = P[8] - 1 /\ Len(t) \in Nat /\ P[1] = 1 /\ P[8] \in Nat
    BY DEF Layout
  <2>2. QED
    BY <2>1
<1>2. \A i \in 1 .. 8 : P[i] \in Nat /\ 1 <= P[i]
  BY PlacesRise
<1>3. \A i, j \in 1 .. 8 : i < j => P[i] < P[j]
  BY PlacesOrdered
<1>4. esc_field(b, n + 1) = [ok |-> TRUE, out |-> <<>>, next |-> n + 1]
  <2>1. n + 1 \in Nat /\ 1 <= n + 1 /\ n + 1 <= Len(b) + 2 /\ n + 1 > Len(b)
    OBVIOUS
  <2>2. esc_field(b, n + 1) = AtEnd(b)
    BY <2>1, FieldReads
  <2>3. QED
    BY <2>2 DEF AtEnd
<1> DEFINE T == {k \in Nat : k <= 7 => PartRead7(C, b, x, P, n, k)}
<1>5. 0 \in T
  <2>1. PICK r : r = Read(b)[0]
    OBVIOUS
  <2>2. r = [ok |-> b # <<>>, out |-> <<>>, next |-> 1]
    BY <2>1, ReadIs
  <2>3. r.out = <<>> /\ r.next = 1
    BY <2>2
  <2>4. 0 + 1 = 1 /\ P[1] <= n + 1
    BY <1>1
  <2>5. r.out \in Seq(Seq(C)) /\ Len(r.out) = 0 /\ (\A j \in 1 .. 0 : PartOf(C, r.out, x, P, n, j))
        /\ r.next = IF P[0 + 1] <= n + 1 THEN P[0 + 1] ELSE n + 1
    BY <1>1, <2>3, <2>4
  <2>6. PartRead7(C, b, x, P, n, 0)
    BY <2>1, <2>5 DEF PartRead7
  <2>7. QED
    BY <2>6
<1>6. ASSUME NEW k \in Nat, k \in T PROVE k + 1 \in T
  <2> SUFFICES ASSUME k + 1 <= 7 PROVE PartRead7(C, b, x, P, n, k + 1)
    OBVIOUS
  <2>1. PICK i \in 1 .. 7 : i = k + 1
    OBVIOUS
  <2>2. i - 1 = k /\ k <= 7
    BY <2>1
  <2>3. PICK r, w : r = Read(b)[k] /\ w = Read(b)[i]
    OBVIOUS
  <2>4. w = OneMore(b, i, r)
    BY <2>2, <2>3, ReadIs
  <2>5. SUFFICES ASSUME w.ok
                 PROVE  /\ w.out \in Seq(Seq(C)) /\ Len(w.out) = i /\ \A j \in 1 .. i : PartOf(C, w.out, x, P, n, j)
                        /\ w.next = IF P[i + 1] <= n + 1 THEN P[i + 1] ELSE n + 1
    BY <2>1, <2>3 DEF PartRead7
  <2>6. r.ok /\ esc_field(b, r.next).ok
    BY <2>4, <2>5, OneMoreIs
  <2>7. /\ r.out \in Seq(Seq(C)) /\ Len(r.out) = k /\ \A j \in 1 .. k : PartOf(C, r.out, x, P, n, j)
        /\ r.next = IF P[i] <= n + 1 THEN P[i] ELSE n + 1
    BY <1>6, <2>1, <2>2, <2>3, <2>6 DEF PartRead7
  <2>8. PICK p \in Nat, q \in Nat : p = P[i] /\ q = P[i + 1] /\ p < q /\ 1 <= p
    <3>1. i \in 1 .. 8 /\ i + 1 \in 1 .. 8 /\ i < i + 1
      OBVIOUS
    <3>2. P[i] \in Nat /\ P[i + 1] \in Nat /\ P[i] < P[i + 1] /\ 1 <= P[i]
      BY <1>2, <1>3, <3>1
    <3>3. QED
      BY <3>2
  <2>9. PICK s \in Seq(C) : s = x[i]
    BY DEF Texts7
  <2>0. PICK h : h = IF q <= n + 1 THEN q ELSE n + 1
    OBVIOUS
  <2>10. PICK y \in Seq(C) : /\ esc_field(b, r.next) = [ok |-> TRUE, out |-> y, next |-> h]
                             /\ Begins(y, s) /\ (q <= n + 1 => y = s) /\ (p > n => y = <<>>)
    <3>0. Begins(s, s) /\ <<>> \in Seq(C) /\ Begins(<<>>, s)
      BY DEF Begins
    <3>1. CASE q <= n + 1
      <4>1. i \in 1 .. 6
        <5>1. i # 7
          <6>1. 7 + 1 = 8
            OBVIOUS
          <6>2. P[8] \in Nat /\ n + 1 < P[8]
            BY <1>1, <1>2
          <6>3. QED
            BY <2>8, <3>1, <6>1, <6>2
        <5>2. QED
          BY <5>1
      <4>2. PICK z \in Nat, g \in 1 .. 6 : z = 0 /\ g = i
        BY <4>1
      <4>3. Agree(b, t, n, z) /\ Inside(P, g, n)
        BY <2>8, <3>1, <4>2 DEF Inside
      <4>4. WhollyRead(b, z, x, P, g)
        BY <4>3, WholeField
      <4>5. z + P[g] = p /\ z + P[g + 1] = q
        BY <2>8, <4>2
      <4>6. esc_field(b, p) = [ok |-> TRUE, out |-> s, next |-> q]
        BY <2>9, <4>2, <4>4, <4>5 DEF WhollyRead
      <4>7. r.next = p /\ ~(p > n)
        BY <2>7, <2>8, <3>1
      <4>8. QED
        BY <2>0, <3>0, <3>1, <4>6, <4>7
    <3>2. CASE ~(q <= n + 1) /\ p <= n + 1
      <4>1. Hits(P, i, n) /\ r.next = P[i]
        BY <2>7, <2>8, <3>2 DEF Hits
      <4>2. CutShort(C, b, x, P, i, n)
        BY <4>1, CutField
      <4>3. PICK y \in Seq(C) : /\ Begins(y, s) /\ esc_field(b, r.next) = [ok |-> TRUE, out |-> y, next |-> n + 1]
                                /\ p = n + 1 => y = <<>>
        BY <2>6, <2>8, <2>9, <4>1, <4>2 DEF CutShort
      <4>4. p > n => p = n + 1
        BY <3>2
      <4>5. h = n + 1
        BY <2>0, <3>2
      <4>6. QED
        BY <3>2, <4>3, <4>4, <4>5
    <3>3. CASE ~(p <= n + 1)
      <4>1. r.next = n + 1 /\ ~(q <= n + 1)
        BY <2>7, <2>8, <3>3
      <4>2. esc_field(b, n + 1) = [ok |-> TRUE, out |-> <<>>, next |-> n + 1]
        BY <1>4
      <4>3. h = n + 1
        BY <2>0, <4>1
      <4>4. QED
        BY <3>0, <4>1, <4>2, <4>3
    <3>4. QED
      BY <3>1, <3>2, <3>3
  <2>11. /\ Fits(i, y) /\ w = [ok |-> TRUE, out |-> Append(r.out, y), next |-> h]
    <3>1. \A u, g : esc_field(b, r.next) = [ok |-> TRUE, out |-> u, next |-> g] =>
              OneMore(b, i, r) = IF r.ok /\ Fits(i, u) THEN [ok |-> TRUE, out |-> Append(r.out, u), next |-> g]
                                    ELSE NoField
      BY OneMoreIs
    <3>2. w = IF r.ok /\ Fits(i, y) THEN [ok |-> TRUE, out |-> Append(r.out, y), next |-> h] ELSE NoField
      BY <2>4, <2>10, <3>1
    <3>3. ~NoField.ok
      BY DEF NoField
    <3>4. QED
      BY <2>5, <2>6, <3>2, <3>3
  <2>12. PICK o : o = Append(r.out, y)
    OBVIOUS
  <2>13. o \in Seq(Seq(C)) /\ Len(o) = k + 1 /\ o[k + 1] = y /\ \A j \in 1 .. k : o[j] = r.out[j]
    BY <2>7, <2>12, OneMoreText
  <2>14. PartOf(C, o, x, P, n, i)
    BY <2>1, <2>8, <2>9, <2>10, <2>11, <2>13 DEF PartOf
  <2>15. \A j \in 1 .. k : PartOf(C, o, x, P, n, j)
    BY <2>7, <2>13 DEF PartOf
  <2>16. \A j \in 1 .. i : PartOf(C, o, x, P, n, j)
    <3>1. \A j \in 1 .. i : j = i \/ j \in 1 .. k
      BY <2>1
    <3>2. QED
      BY <2>14, <2>15, <3>1
  <2>17. w.out = o /\ w.next = h
    BY <2>11, <2>12
  <2>18. QED
    BY <2>0, <2>1, <2>8, <2>10, <2>13, <2>16, <2>17
<1>7. 7 \in T
  <2> HIDE DEF T
  <2>1. QED
    BY <1>5, <1>6, ByInduction
<1>8. QED
  BY <1>7

\* Where the fields of a line that is glued to the rest of another, which was cut
\* in its m-th field, are read from; those after the m-th are the line's own.
ReadShifted(b, x, P, n, m, k) ==
  LET r == Read(b)[k] IN
  r.ok => /\ k < m => r.next = P[k + 1]
          /\ k >= m => r.next = n + P[k + 2 - m]
          /\ k > m => Fits(k, x[k + 1 - m])

\* Of a glued line, fields before the cut are read at their places, and those after it
\* one place later, or more, from the line that was glued.
LEMMA GluedParsed ==
  ASSUME NEW C, Letters(C), NEW t \in Seq(C), NEW x, NEW P, Texts7(x, C), Layout(t, x, P),
         NEW b \in Seq(C), NEW n \in Nat, Agree(b, t, n, 0), NEW h \in Nat, Agree(b, t, h, n), h + 1 = Len(t),
         Unsigned(x[1]), NEW m \in 2 .. 7, Hits(P, m, n), NEW k \in Nat, k <= 7
  PROVE  ReadShifted(b, x, P, n, m, k)
<1>1. P[1] = 1 /\ h + 2 = P[8]
  <2>1. Len(t) = P[8] - 1 /\ P[1] = 1 /\ P[8] \in Nat
    BY DEF Layout
  <2>2. QED
    BY <2>1
<1>2. \A i \in 1 .. 8 : P[i] \in Nat /\ 1 <= P[i]
  BY PlacesRise
<1>3. \A i, j \in 1 .. 8 : i < j => P[i] < P[j]
  BY PlacesOrdered
<1> DEFINE T == {l \in Nat : l <= 7 => ReadShifted(b, x, P, n, m, l)}
<1>4. 0 \in T
  <2>1. PICK r : r = Read(b)[0]
    OBVIOUS
  <2>2. r = [ok |-> b # <<>>, out |-> <<>>, next |-> 1]
    BY <2>1, ReadIs
  <2>3. r.next = P[0 + 1] /\ ~(0 >= m) /\ ~(0 > m)
    BY <1>1, <2>2
  <2>4. ReadShifted(b, x, P, n, m, 0)
    BY <2>1, <2>3 DEF ReadShifted
  <2>5. QED
    BY <2>4
<1>5. ASSUME NEW l \in Nat, l \in T PROVE l + 1 \in T
  <2> SUFFICES ASSUME l + 1 <= 7 PROVE ReadShifted(b, x, P, n, m, l + 1)
    OBVIOUS
  <2>1. PICK i \in 1 .. 7 : i = l + 1
    OBVIOUS
  <2>2. i - 1 = l /\ l <= 7
    BY <2>1
  <2>3. PICK r, w : r = Read(b)[l] /\ w = Read(b)[i]
    OBVIOUS
  <2>4. w = OneMore(b, i, r)
    BY <2>2, <2>3, ReadIs
  <2>5. SUFFICES ASSUME w.ok
                 PROVE  /\ i < m => w.next = P[i + 1]
                        /\ i >= m => w.next = n + P[i + 2 - m]
                        /\ i > m => Fits(i, x[i + 1 - m])
    BY <2>1, <2>3 DEF ReadShifted
  <2>6. r.ok /\ esc_field(b, r.next).ok
    BY <2>4, <2>5, OneMoreIs
  <2>7. /\ l < m => r.next = P[l + 1]
        /\ l >= m => r.next = n + P[l + 2 - m]
    BY <1>5, <2>2, <2>3, <2>6 DEF ReadShifted
  <2>8. ASSUME NEW u, NEW g, esc_field(b, r.next) = [ok |-> TRUE, out |-> u, next |-> g]
        PROVE  w.next = g /\ Fits(i, u)
    <3>1. OneMore(b, i, r) = IF r.ok /\ Fits(i, u) THEN [ok |-> TRUE, out |-> Append(r.out, u), next |-> g]
                             ELSE NoField
      BY <2>8, OneMoreIs
    <3>2. ~NoField.ok
      BY DEF NoField
    <3>3. QED
      BY <2>4, <2>5, <2>6, <3>1, <3>2
  <2>9. CASE i < m
    <3>1. PICK z \in Nat, g \in 1 .. 6 : z = 0 /\ g = i
      BY <2>9
    <3>2. P[i + 1] <= n + 1
      <4>1. i + 1 = m \/ (i + 1 \in 1 .. 8 /\ m \in 1 .. 8 /\ i + 1 < m)
        BY <2>9
      <4>2. P[i + 1] \in Nat /\ P[m] \in Nat /\ (i + 1 = m \/ P[i + 1] < P[m])
        <5>1. i + 1 \in 1 .. 8 /\ m \in 1 .. 8
          BY <2>9
        <5>2. QED
          BY <1>2, <1>3, <4>1, <5>1
      <4>3. P[m] <= n + 1
        BY DEF Hits
      <4>4. QED
        BY <4>2, <4>3
    <3>3. Agree(b, t, n, z) /\ Inside(P, g, n)
      BY <3>1, <3>2 DEF Inside
    <3>4. WhollyRead(b, z, x, P, g)
      BY <3>3, WholeField
    <3>5. z + P[g] = P[i] /\ z + P[g + 1] = P[i + 1]
      <4>1. i \in 1 .. 8 /\ i + 1 \in 1 .. 8
        OBVIOUS
      <4>2. P[i] \in Nat /\ P[i + 1] \in Nat
        BY <1>2, <4>1
      <4>3. QED
        BY <3>1, <4>2
    <3>6. r.next = P[i]
      BY <2>1, <2>7, <2>9
    <3>7. esc_field(b, r.next) = [ok |-> TRUE, out |-> x[i], next |-> P[i + 1]]
      BY <3>1, <3>4, <3>5, <3>6 DEF WhollyRead
    <3>8. w.next = P[i + 1]
      BY <2>8, <3>7
    <3>9. QED
      BY <2>9, <3>8
  <2>10. CASE i = m
    <3>1. r.next = P[i]
      BY <2>1, <2>7, <2>10
    <3>2. Hits(P, i, n)
      BY <2>10
    <3>3. GluedOn(C, b, P, i, n)
      BY <3>2, GluedField
    <3>4. PICK y \in Seq(C) : esc_field(b, r.next) = [ok |-> TRUE, out |-> y, next |-> n + P[2]]
      BY <2>6, <3>1, <3>3 DEF GluedOn
    <3>5. w.next = n + P[2]
      BY <2>8, <3>4
    <3>6. i + 2 - m = 2 /\ ~(i < m) /\ ~(i > m)
      BY <2>10
    <3>7. QED
      BY <3>5, <3>6
  <2>11. CASE i > m
    <3>1. PICK g \in 1 .. 6 : g = i + 1 - m
      BY <2>11
    <3>2. g + 1 = i + 2 - m /\ l + 2 - m = g /\ l >= m
      BY <2>1, <2>11, <3>1
    <3>3. r.next = n + P[g]
      BY <2>7, <3>2
    <3>4. P[g + 1] <= h + 1
      <4>1. g + 1 \in 1 .. 8 /\ 8 \in 1 .. 8 /\ g + 1 < 8
        OBVIOUS
      <4>2. P[g + 1] \in Nat /\ P[8] \in Nat /\ P[g + 1] < P[8]
        BY <1>2, <1>3, <4>1
      <4>3. QED
        BY <1>1, <4>2
    <3>5. Agree(b, t, h, n) /\ Inside(P, g, h)
      BY <3>4 DEF Inside
    <3>6. WhollyRead(b, n, x, P, g)
      BY <3>5, WholeField
    <3>7. esc_field(b, r.next) = [ok |-> TRUE, out |-> x[g], next |-> n + P[g + 1]]
      BY <3>3, <3>6 DEF WhollyRead
    <3>8. w.next = n + P[g + 1] /\ Fits(i, x[g])
      BY <2>8, <3>7
    <3>9. QED
      BY <2>11, <3>1, <3>2, <3>8
  <2>12. QED
    BY <2>9, <2>10, <2>11
<1>6. k \in T
  <2> HIDE DEF T
  <2>1. QED
    BY <1>4, <1>5, ByInduction
<1>7. QED
  BY <1>6

\* What is accepted of a glued line: only when the cut left the number of the one
\* line, the other has a number for its target and no detail.
LEMMA GluedRefused ==
  ASSUME NEW C, Letters(C), NEW t \in Seq(C), NEW x, NEW P, Texts7(x, C), Layout(t, x, P),
         NEW b \in Seq(C), NEW n \in Nat, Agree(b, t, n, 0), NEW h \in Nat, Agree(b, t, h, n), h + 1 = Len(t),
         Len(b) = n + h, n <= h, Unsigned(x[1]), P[2] <= n + 1,
         Read(b)[7].ok, Read(b)[7].next = Len(b) + 1
  PROVE  Number(x[5]) /\ x[7] = <<>>
<1>1. h + 2 = P[8]
  <2>1. Len(t) = P[8] - 1 /\ P[8] \in Nat
    BY DEF Layout
  <2>2. QED
    BY <2>1, SMTT(60)
<1>2. \A i \in 1 .. 8 : P[i] \in Nat /\ 1 <= P[i]
  BY PlacesRise
<1>3. \A i, j \in 1 .. 8 : i < j => P[i] < P[j]
  BY PlacesOrdered
<1>4. PICK m \in 2 .. 7 : Hits(P, m, n)
  <2>1. PICK p2 \in Nat, p3 \in Nat, p4 \in Nat, p5 \in Nat, p6 \in Nat, p7 \in Nat, p8 \in Nat :
          /\ p2 = P[2] /\ p3 = P[3] /\ p4 = P[4] /\ p5 = P[5] /\ p6 = P[6] /\ p7 = P[7] /\ p8 = P[8]
    <3>1. 2 \in 1 .. 8 /\ 3 \in 1 .. 8 /\ 4 \in 1 .. 8 /\ 5 \in 1 .. 8 /\ 6 \in 1 .. 8 /\ 7 \in 1 .. 8 /\ 8 \in 1 .. 8
      OBVIOUS
    <3>2. P[2] \in Nat /\ P[3] \in Nat /\ P[4] \in Nat /\ P[5] \in Nat
      BY <1>2, <3>1
    <3>3. P[6] \in Nat /\ P[7] \in Nat /\ P[8] \in Nat
      BY <1>2, <3>1
    <3>4. QED
      BY <3>2, <3>3
  <2>2. PICK z \in Nat, c \in Nat : z = p2 /\ c = n + 1 /\ p2 <= c /\ c < p8
    <3>1. n + 1 < p8
      BY <1>1, <2>1
    <3>2. p2 <= n + 1
      BY <2>1
    <3>3. QED
      BY <3>1, <3>2
  <2>3. z <= c
    BY <2>2
  <2>4. \/ z <= c /\ c < p2
        \/ p2 <= c /\ c < p3
        \/ p3 <= c /\ c < p4
        \/ p4 <= c /\ c < p5
        \/ p5 <= c /\ c < p6
        \/ p6 <= c /\ c < p7
        \/ p7 <= c /\ c < p8
    BY <2>2, <2>3, SomeStep
  <2>5. ~(z <= c /\ c < p2)
    BY <2>2
  <2>6. 2 \in 2 .. 7 /\ 3 \in 2 .. 7 /\ 4 \in 2 .. 7 /\ 5 \in 2 .. 7 /\ 6 \in 2 .. 7 /\ 7 \in 2 .. 7
        /\ 2 + 1 = 3 /\ 3 + 1 = 4 /\ 4 + 1 = 5 /\ 5 + 1 = 6 /\ 6 + 1 = 7 /\ 7 + 1 = 8
    OBVIOUS
  <2>7. QED
    BY <2>1, <2>2, <2>4, <2>5, <2>6 DEF Hits
<1>5. \A k \in Nat : k <= 7 => ReadShifted(b, x, P, n, m, k)
  <2> SUFFICES ASSUME NEW k \in Nat, k <= 7 PROVE ReadShifted(b, x, P, n, m, k)
    OBVIOUS
  <2>1. Hits(P, m, n)
    BY <1>4
  <2>2. QED
    BY <2>1, GluedParsed
<1>6. PICK g \in 2 .. 7 : g = 9 - m
  OBVIOUS
<1>7. n + P[g] = n + h + 1
  <2>1. ReadShifted(b, x, P, n, m, 7)
    BY <1>5
  <2>2. 7 >= m /\ 7 + 2 - m = g
    BY <1>6
  <2>3. Read(b)[7].next = n + P[7 + 2 - m]
    BY <2>1, <2>2 DEF ReadShifted
  <2>4. QED
    BY <2>2, <2>3
<1>8. PICK p \in Nat, q \in Nat : p = P[g] /\ q = P[7] /\ p = h + 1
  <2>1. g \in 1 .. 8 /\ 7 \in 1 .. 8
    OBVIOUS
  <2>2. P[g] \in Nat /\ P[7] \in Nat
    BY <1>2, <2>1
  <2>3. QED
    BY <1>7, <2>2, SMTT(60)
<1>9. g = 7
  <2> SUFFICES ASSUME g # 7 PROVE FALSE
    OBVIOUS
  <2>1. g \in 1 .. 8 /\ 7 \in 1 .. 8 /\ 8 \in 1 .. 8 /\ g < 7 /\ 7 < 8
    OBVIOUS
  <2>2. P[g] < P[7] /\ P[7] < P[8]
    BY <1>3, <2>1
  <2>3. p < q /\ q < h + 2
    BY <1>1, <1>8, <2>2
  <2>4. QED
    BY <1>8, <2>3, SMTT(60)
<1>10. x[7] = <<>>
  <2>1. 7 \in 1 .. 7 /\ 7 + 1 = 8
    OBVIOUS
  <2>2. PICK s \in Seq(C) : s = x[7]
    BY <2>1 DEF Texts7
  <2>3. PICK l \in Nat : l = Len(fmt_esc(s)) /\ Len(s) <= l
    <3>1. fmt_esc(s) \in Seq(C)
      BY WrittenOn
    <3>2. Len(fmt_esc(s)) \in Nat
      BY <3>1
    <3>3. QED
      BY <3>2, WrittenText
  <2>4. P[8] = P[7] + l + 1
    BY <2>1, <2>2, <2>3 DEF Layout
  <2>5. l = 0
    <3>1. P[7] = h + 1
      BY <1>8, <1>9
    <3>2. h + 2 = (h + 1) + l + 1
      BY <1>1, <2>4, <3>1
    <3>3. QED
      BY <3>2
  <2>6. Len(s) = 0
    BY <2>3, <2>5
  <2>7. QED
    BY <2>2, <2>6
<1>11. Number(x[5])
  <2>1. m = 2
    BY <1>6, <1>9
  <2>2. ReadShifted(b, x, P, n, m, 6)
    BY <1>5
  <2>3. Read(b)[6].ok
    <3>1. 7 \in 1 .. 7 /\ 7 - 1 = 6
      OBVIOUS
    <3>2. Read(b)[7] = OneMore(b, 7, Read(b)[6])
      BY <3>1, ReadIs, ZenonT(60)
    <3>3. QED
      BY <3>2, OneMoreIs
  <2>4. 6 > m /\ 6 + 1 - m = 5
    BY <2>1
  <2>5. Fits(6, x[5])
    BY <2>2, <2>3, <2>4 DEF ReadShifted
  <2>6. FieldNames[6] = "result" /\ "result" \in NumberFields
    BY DEF FieldNames, NumberFields
  <2>7. QED
    BY <2>5, <2>6 DEF Fits
<1>12. QED
  BY <1>10, <1>11

\* The names of the fields are seven, and each has one place.
LEMMA NamesApart ==
  /\ ToSet(FieldNames) = {"seq", "ts", "subject", "action", "target", "result", "detail"}
  /\ \A f \in ToSet(FieldNames) : \E j \in 1 .. 7 : f = FieldNames[j]
  /\ \A j \in 1 .. 7 : FieldNames[j] \in ToSet(FieldNames)
  /\ \A i, j \in 1 .. 7 : FieldNames[i] = FieldNames[j] => i = j
<1>1. DOMAIN FieldNames = 1 .. 7
  BY DEF FieldNames
<1>2. ToSet(FieldNames) = {FieldNames[i] : i \in 1 .. 7}
  BY <1>1 DEF ToSet
<1>3. /\ FieldNames[1] = "seq" /\ FieldNames[2] = "ts" /\ FieldNames[3] = "subject" /\ FieldNames[4] = "action"
      /\ FieldNames[5] = "target" /\ FieldNames[6] = "result" /\ FieldNames[7] = "detail"
  BY DEF FieldNames
<1>4. 1 .. 7 = {1, 2, 3, 4, 5, 6, 7}
  OBVIOUS
<1>5. \A i, j \in 1 .. 7 : FieldNames[i] = FieldNames[j] => i = j
  <2> SUFFICES ASSUME NEW i \in {1, 2, 3, 4, 5, 6, 7}, NEW j \in {1, 2, 3, 4, 5, 6, 7}, FieldNames[i] = FieldNames[j]
               PROVE  i = j
    BY <1>4
  <2>1. QED
    BY <1>3
<1>6. ToSet(FieldNames) = {"seq", "ts", "subject", "action", "target", "result", "detail"}
  <2>1. ToSet(FieldNames) = {FieldNames[i] : i \in {1, 2, 3, 4, 5, 6, 7}}
    BY <1>2, <1>4
  <2>2. \A i \in {1, 2, 3, 4, 5, 6, 7} : FieldNames[i] \in {"seq", "ts", "subject", "action", "target", "result", "detail"}
    BY <1>3
  <2>3. \A f \in {"seq", "ts", "subject", "action", "target", "result", "detail"} :
          \E i \in {1, 2, 3, 4, 5, 6, 7} : f = FieldNames[i]
    BY <1>3
  <2>4. QED
    BY <2>1, <2>2, <2>3
<1>7. QED
  BY <1>2, <1>5, <1>6

\* What a list of seven texts is made into.
Named(o) == [f \in ToSet(FieldNames) |-> o[CHOOSE i \in 1 .. 7 : FieldNames[i] = f]]

\* Each text is found under its own name.
LEMMA NamedIs ==
  ASSUME NEW o
  PROVE  \A j \in 1 .. 7 : Named(o)[FieldNames[j]] = o[j]
<1> SUFFICES ASSUME NEW j \in 1 .. 7 PROVE Named(o)[FieldNames[j]] = o[j]
  OBVIOUS
<1>1. PICK c : c = CHOOSE i \in 1 .. 7 : FieldNames[i] = FieldNames[j]
  OBVIOUS
<1>2. c \in 1 .. 7 /\ FieldNames[c] = FieldNames[j]
  BY <1>1
<1>3. c = j
  BY <1>2, NamesApart
<1>4. FieldNames[j] \in ToSet(FieldNames)
  BY NamesApart
<1>5. QED
  BY <1>1, <1>3, <1>4 DEF Named

\* A list over some characters is one over more.
LEMMA OverMore ==
  ASSUME NEW A, NEW B, A \subseteq B, NEW s \in Seq(A)
  PROVE  s \in Seq(B)
  OBVIOUS

\* The texts of an event are over some characters.
EventTexts(ev, C) == Letters(C) /\ \A i \in 1 .. 7 : ev[FieldNames[i]] \in Seq(C) /\ Fits(i, ev[FieldNames[i]])

\* Every event is made of such texts.
LEMMA TextsOfEvents ==
  ASSUME AuditTextAssumption, NEW ev \in Events
  PROVE  /\ \E C : EventTexts(ev, C)
         /\ ev = [f \in ToSet(FieldNames) |-> ev[f]]
         /\ Unsigned(ev[FieldNames[1]])
<1>1. PICK C : C = {"\\", "|", "\n", "\r", "n", "r"} \cup UNION {ToSet(ev[f]) : f \in ToSet(FieldNames)}
  OBVIOUS
<1>2. Letters(C)
  BY <1>1 DEF Letters
<1>3. /\ ev = [f \in ToSet(FieldNames) |-> ev[f]] /\ \A f \in ToSet(FieldNames) : ev[f] \in Seq(ToSet(ev[f]))
      /\ Unsigned(ev.seq) /\ ToSet(ev.seq) # {"0"} /\ Number(ev.ts) /\ Number(ev.result)
  BY AuditTextAssumption DEF AuditTextAssumption
<1>4. ASSUME NEW i \in 1 .. 7 PROVE ev[FieldNames[i]] \in Seq(C)
  <2>1. PICK f \in ToSet(FieldNames) : f = FieldNames[i]
    BY NamesApart
  <2>2. PICK A, s : A = ToSet(ev[f]) /\ s = ev[f]
    OBVIOUS
  <2>3. s \in Seq(A)
    BY <1>3, <2>2
  <2>4. A \subseteq C
    BY <1>1, <2>2
  <2>5. s \in Seq(C)
    BY <2>3, <2>4, OverMore
  <2>6. QED
    BY <2>1, <2>2, <2>5
<1>5. /\ FieldNames[1] = "seq" /\ FieldNames[2] = "ts" /\ FieldNames[3] = "subject" /\ FieldNames[4] = "action"
      /\ FieldNames[5] = "target" /\ FieldNames[6] = "result" /\ FieldNames[7] = "detail"
  BY DEF FieldNames
<1>6. ASSUME NEW i \in 1 .. 7 PROVE Fits(i, ev[FieldNames[i]])
  <2>1. Number(ev.seq)
    BY <1>3 DEF Number
  <2>2. CASE i = 1
    BY <1>3, <1>5, <2>1, <2>2 DEF Fits
  <2>3. CASE i = 2
    BY <1>3, <1>5, <2>3 DEF Fits
  <2>4. CASE i = 6
    BY <1>3, <1>5, <2>4 DEF Fits
  <2>5. CASE i \in {3, 4, 5, 7}
    <3>1. FieldNames[i] \in {"subject", "action", "target", "detail"}
      BY <1>5, <2>5
    <3>2. FieldNames[i] \notin NumberFields /\ i # 1
      BY <2>5, <3>1 DEF NumberFields
    <3>3. QED
      BY <3>2 DEF Fits
  <2>6. QED
    BY <2>2, <2>3, <2>4, <2>5
<1>7. EventTexts(ev, C)
  BY <1>2, <1>4, <1>6 DEF EventTexts
<1>8. QED
  BY <1>3, <1>5, <1>7

\* A line laid out, with its texts.
LaidOut(C, ev, t, x, P) ==
  /\ Letters(C) /\ t \in Seq(C) /\ t = fmt_line(ev) /\ Texts7(x, C) /\ Layout(t, x, P)
  /\ \A i \in 1 .. 7 : x[i] = ev[FieldNames[i]] /\ Fits(i, x[i])
  /\ Unsigned(x[1]) /\ ev = [f \in ToSet(FieldNames) |-> ev[f]]

\* The line of every event is laid out so.
LEMMA EventsLaidOut ==
  ASSUME AuditTextAssumption, NEW ev \in Events
  PROVE  \E C, t, x, P : LaidOut(C, ev, t, x, P)
<1>1. PICK C : EventTexts(ev, C)
  BY TextsOfEvents
<1>2. PICK x : x = [i \in 1 .. 7 |-> ev[FieldNames[i]]]
  OBVIOUS
<1>3. \A i \in 1 .. 7 : x[i] = ev[FieldNames[i]]
  BY <1>2
<1>4. Letters(C) /\ TextsOf(ev, x, C)
  BY <1>1, <1>3 DEF EventTexts, TextsOf
<1>5. fmt_line(ev) \in Seq(C) /\ \E P : Layout(fmt_line(ev), x, P)
  BY <1>4, LineLayout
<1>6. PICK t, P : t = fmt_line(ev) /\ Layout(t, x, P)
  BY <1>5
<1>7. Texts7(x, C) /\ \A i \in 1 .. 7 : x[i] = ev[FieldNames[i]] /\ Fits(i, x[i])
  BY <1>4 DEF TextsOf, Texts7
<1>8. Unsigned(x[1]) /\ ev = [f \in ToSet(FieldNames) |-> ev[f]]
  <2>1. 1 \in 1 .. 7
    OBVIOUS
  <2>2. QED
    BY <1>3, <2>1, TextsOfEvents
<1>9. LaidOut(C, ev, t, x, P)
  BY <1>4, <1>5, <1>6, <1>7, <1>8 DEF LaidOut
<1>10. QED
  BY <1>9

\* What stands in the first part of a line, and in a line after such a part.
LEMMA PartsAgree ==
  ASSUME NEW C, NEW t \in Seq(C), NEW n \in Nat, n <= Len(t), NEW h \in Nat, h <= Len(t)
  PROVE  LET a == SubSeq(t, 1, n)
             b == SubSeq(t, 1, n) \o SubSeq(t, 1, h) IN
         /\ a \in Seq(C) /\ Len(a) = n /\ Agree(a, t, n, 0)
         /\ b \in Seq(C) /\ Len(b) = n + h /\ Agree(b, t, n, 0) /\ Agree(b, t, h, n)
<1>1. PICK a \in Seq(C) : a = SubSeq(t, 1, n) /\ Len(a) = n /\ \A k \in 1 .. n : a[k] = t[k]
  <2>1. SubSeq(t, 1, n) \in Seq(C) /\ Len(SubSeq(t, 1, n)) = n /\ \A k \in 1 .. n : SubSeq(t, 1, n)[k] = t[k]
    BY FirstPart
  <2>2. QED
    BY <2>1
<1>2. PICK c \in Seq(C) : c = SubSeq(t, 1, h) /\ Len(c) = h /\ \A k \in 1 .. h : c[k] = t[k]
  <2>1. SubSeq(t, 1, h) \in Seq(C) /\ Len(SubSeq(t, 1, h)) = h /\ \A k \in 1 .. h : SubSeq(t, 1, h)[k] = t[k]
    BY FirstPart
  <2>2. QED
    BY <2>1
<1>3. PICK b : b = a \o c
  OBVIOUS
<1>4. b \in Seq(C) /\ Len(b) = n + h /\ (\A k \in 1 .. n : b[k] = a[k]) /\ \A k \in 1 .. h : b[n + k] = c[k]
  BY <1>1, <1>2, <1>3, SMTT(60)
<1>5. PICK z \in Nat : z = 0
  OBVIOUS
<1>6. \A k \in 1 .. n : z + k = k
  BY <1>5
<1>7. Agree(a, t, n, z)
  BY <1>1, <1>5, <1>6 DEF Agree
<1>8. Agree(b, t, n, z)
  <2>1. n <= Len(t) /\ z + n <= Len(b)
    BY <1>4, <1>5
  <2>2. \A k \in 1 .. n : b[z + k] = t[k]
    BY <1>1, <1>4, <1>6
  <2>3. QED
    BY <2>1, <2>2 DEF Agree
<1>9. Agree(b, t, h, n)
  <2>1. h <= Len(t) /\ n + h <= Len(b)
    BY <1>4
  <2>2. \A k \in 1 .. h : b[n + k] = t[k]
    BY <1>2, <1>4
  <2>3. QED
    BY <2>1, <2>2 DEF Agree
<1>10. QED
  BY <1>1, <1>2, <1>3, <1>4, <1>5, <1>7, <1>8, <1>9

\* Names for what the fields of parse_event's result are taken from.
LEMMA ParseNamed ==
  ASSUME NEW text, NEW b, b = Bare(text)
  PROVE  parse_event(text) = IF Read(b)[7].ok /\ Read(b)[7].next = Len(b) + 1 THEN Named(Read(b)[7].out) ELSE NotAnEvent
<1>1. parse_event(text) =
        LET all == Read(Bare(text))[7] IN
        IF all.ok /\ all.next = Len(Bare(text)) + 1
        THEN [f \in ToSet(FieldNames) |-> all.out[CHOOSE i \in 1 .. 7 : FieldNames[i] = f]]
        ELSE NotAnEvent
  BY ParseIs
<1>2. QED
  BY <1>1, Zenon DEF Named

\* A whole line is read back.
LEMMA WholeLineRead ==
  ASSUME NEW C, NEW ev, NEW t, NEW x, NEW P, LaidOut(C, ev, t, x, P)
  PROVE  parse_event(t) = ev
<1>1. /\ Letters(C) /\ t \in Seq(C) /\ Texts7(x, C) /\ Layout(t, x, P) /\ \A i \in 1 .. 7 : Fits(i, x[i])
  BY DEF LaidOut
<1>2. PICK n \in Nat : n + 1 = Len(t)
  <2>1. Len(t) >= 1 /\ Len(t) \in Nat
    BY <1>1, OneLineEnd
  <2>2. Len(t) - 1 \in Nat /\ (Len(t) - 1) + 1 = Len(t)
    BY <2>1
  <2>3. QED
    BY <2>2
<1>3. PICK b : b = SubSeq(t, 1, n)
  OBVIOUS
<1>4. n <= Len(t) /\ n = Len(t) - 1
  BY <1>1, <1>2
<1>5. b \in Seq(C) /\ Len(b) = n /\ Agree(b, t, n, 0)
  BY <1>1, <1>3, <1>4, PartsAgree, ZenonT(60)
<1>6. FirstRead(C, b, x, P, 7)
  BY <1>1, <1>2, <1>5, WholeParsed
<1>7. b = Bare(t)
  BY <1>1, <1>3, <1>4, BareLine
<1>8. PICK o : o = Read(b)[7].out
  OBVIOUS
<1>9. Read(b)[7].ok /\ Read(b)[7].next = Len(b) + 1 /\ \A j \in 1 .. 7 : o[j] = x[j]
  BY <1>6, <1>8 DEF FirstRead
<1>10. parse_event(t) = Named(o)
  BY <1>7, <1>8, <1>9, ParseNamed
<1>11. \A j \in 1 .. 7 : Named(o)[FieldNames[j]] = ev[FieldNames[j]]
  BY <1>9, NamedIs DEF LaidOut
<1>12. \A f \in ToSet(FieldNames) : Named(o)[f] = ev[f]
  <2> SUFFICES ASSUME NEW f \in ToSet(FieldNames) PROVE Named(o)[f] = ev[f]
    OBVIOUS
  <2>1. PICK j \in 1 .. 7 : f = FieldNames[j]
    BY NamesApart
  <2>2. QED
    BY <1>11, <2>1
<1>13. PICK u : u = Named(o)
  OBVIOUS
<1>14. u = [f \in ToSet(FieldNames) |-> u[f]]
  BY <1>13 DEF Named
<1>15. ev = [f \in ToSet(FieldNames) |-> ev[f]]
  BY DEF LaidOut
<1>16. u = ev
  BY <1>12, <1>13, <1>14, <1>15
<1>17. QED
  BY <1>10, <1>13, <1>16

\* A list that begins another is a prefix of it.
LEMMA BeginsIsPrefix ==
  ASSUME NEW C, NEW a \in Seq(C), NEW s \in Seq(C), Begins(a, s)
  PROVE  IsPrefix(a, s)
<1>1. Len(a) <= Len(s) /\ \A k \in 1 .. Len(a) : a[k] = s[k]
  BY DEF Begins
<1>2. PICK n \in Nat : n = Len(a)
  OBVIOUS
<1>3. PICK c \in Seq(C) : c = SubSeq(s, 1, n) /\ Len(c) = n /\ \A k \in 1 .. n : c[k] = s[k]
  BY <1>1, <1>2, FirstPart
<1>4. \A k \in 1 .. n : a[k] = c[k]
  BY <1>1, <1>2, <1>3
<1>5. PICK d \in Seq(C) : d = SubSeq(a, 1, n) /\ Len(d) = n /\ \A k \in 1 .. n : d[k] = a[k]
  BY <1>2, FirstPart
<1>6. d = c
  <2>1. \A k \in 1 .. n : d[k] = c[k]
    BY <1>4, <1>5
  <2>2. QED
    BY <1>3, <1>5, <2>1, SameMembers
<1>7. QED
  BY <1>1, <1>2, <1>3, <1>5, <1>6 DEF IsPrefix

\* A part of an event: what is left of it when its line is cut.
PartOfEvent(part, ev) ==
  /\ \A f \in {"seq", "ts", "subject", "action", "target"} : part[f] = ev[f]
  /\ IsPrefix(part.result, ev.result) /\ IsPrefix(part.detail, ev.detail)

\* A cut line that is accepted is a part of the event it was written for.
LEMMA CutLineRead ==
  ASSUME NEW C, NEW ev, NEW t, NEW x, NEW P, LaidOut(C, ev, t, x, P), NEW n \in 0 .. Len(t) - 1,
         parse_event(SubSeq(t, 1, n)) # NotAnEvent
  PROVE  PartOfEvent(parse_event(SubSeq(t, 1, n)), ev)
<1>1. Letters(C) /\ t \in Seq(C) /\ Texts7(x, C) /\ Layout(t, x, P)
  BY DEF LaidOut
<1>2. n \in Nat /\ n < Len(t) /\ n <= Len(t)
  BY <1>1
<1>3. PICK b : b = SubSeq(t, 1, n)
  OBVIOUS
<1>4. b \in Seq(C) /\ Len(b) = n /\ Agree(b, t, n, 0)
  BY <1>1, <1>2, <1>3, PartsAgree
<1>5. PartRead7(C, b, x, P, n, 7)
  BY <1>1, <1>2, <1>4, CutParsed
<1>6. b = Bare(b)
  BY <1>1, <1>3, BareLine
<1>7. PICK r, o : r = Read(b)[7] /\ o = r.out
  OBVIOUS
<1>8. r.ok /\ parse_event(b) = Named(o)
  BY <1>3, <1>6, <1>7, ParseNamed
<1>9. \A j \in 1 .. 7 : PartOf(C, o, x, P, n, j)
  BY <1>5, <1>7, <1>8 DEF PartRead7
<1>10. PICK y \in Seq(C) : y = o[6] /\ Begins(y, x[6]) /\ Fits(6, y) /\ (P[6] > n => y = <<>>)
  BY <1>9 DEF PartOf
<1>11. P[6] <= n
  <2>1. Number(y)
    BY <1>10 DEF Fits, FieldNames, NumberFields
  <2>2. y # <<>>
    BY <2>1 DEF Number, Unsigned
  <2>3. P[6] \in Nat
    BY <1>1, PlacesRise
  <2>4. QED
    BY <1>2, <1>10, <2>2, <2>3
<1>12. ASSUME NEW j \in 1 .. 5 PROVE o[j] = x[j]
  <2>1. PICK i \in 1 .. 8 : i = j + 1
    OBVIOUS
  <2>2. \A k \in 1 .. 8 : P[k] \in Nat
    BY <1>1, PlacesRise
  <2>3. \A k, l \in 1 .. 8 : k < l => P[k] < P[l]
    BY <1>1, PlacesOrdered
  <2>4. P[i] <= P[6]
    <3>1. i = 6 \/ i < 6
      BY <2>1
    <3>2. CASE i = 6
      BY <2>2, <3>2
    <3>3. CASE i < 6
      <4>1. 6 \in 1 .. 8
        OBVIOUS
      <4>2. P[i] < P[6] /\ P[i] \in Nat /\ P[6] \in Nat
        BY <2>2, <2>3, <3>3, <4>1
      <4>3. QED
        BY <4>2
    <3>4. QED
      BY <3>1, <3>2, <3>3
  <2>5. P[j + 1] <= n + 1
    <3>1. P[i] \in Nat /\ P[6] \in Nat
      <4>1. 6 \in 1 .. 8
        OBVIOUS
      <4>2. QED
        BY <2>2, <4>1
    <3>2. P[i] <= n + 1
      BY <1>2, <1>11, <2>4, <3>1
    <3>3. QED
      BY <2>1, <3>2
  <2>6. j \in 1 .. 7
    OBVIOUS
  <2>7. QED
    BY <1>9, <2>5, <2>6 DEF PartOf
<1>13. PICK part : part = Named(o)
  OBVIOUS
<1>14. \A j \in 1 .. 7 : part[FieldNames[j]] = o[j] /\ x[j] = ev[FieldNames[j]]
  BY <1>13, NamedIs DEF LaidOut
<1>15. /\ FieldNames[1] = "seq" /\ FieldNames[2] = "ts" /\ FieldNames[3] = "subject" /\ FieldNames[4] = "action"
       /\ FieldNames[5] = "target" /\ FieldNames[6] = "result" /\ FieldNames[7] = "detail"
  BY DEF FieldNames
<1>16. \A j \in 1 .. 5 : part[FieldNames[j]] = ev[FieldNames[j]]
  <2>1. \A j \in 1 .. 5 : j \in 1 .. 7
    OBVIOUS
  <2>2. QED
    BY <1>12, <1>14, <2>1
<1>17. \A f \in {"seq", "ts", "subject", "action", "target"} : part[f] = ev[f]
  <2>1. 1 \in 1 .. 5 /\ 2 \in 1 .. 5 /\ 3 \in 1 .. 5 /\ 4 \in 1 .. 5 /\ 5 \in 1 .. 5
    OBVIOUS
  <2>2. /\ part["seq"] = ev["seq"] /\ part["ts"] = ev["ts"] /\ part["subject"] = ev["subject"]
        /\ part["action"] = ev["action"] /\ part["target"] = ev["target"]
    BY <1>15, <1>16, <2>1
  <2>3. QED
    BY <2>2
<1>18. ASSUME NEW j \in 6 .. 7 PROVE IsPrefix(part[FieldNames[j]], ev[FieldNames[j]])
  <2>1. j \in 1 .. 7
    OBVIOUS
  <2>2. PICK u \in Seq(C), s \in Seq(C) : u = o[j] /\ s = x[j] /\ Begins(u, s)
    BY <1>1, <1>9, <2>1 DEF PartOf, Texts7
  <2>3. IsPrefix(u, s)
    BY <2>2, BeginsIsPrefix
  <2>4. QED
    BY <1>14, <2>1, <2>2, <2>3
<1>19. IsPrefix(part.result, ev.result) /\ IsPrefix(part.detail, ev.detail)
  <2>1. 6 \in 6 .. 7 /\ 7 \in 6 .. 7
    OBVIOUS
  <2>2. QED
    BY <1>15, <1>18, <2>1
<1>20. QED
  BY <1>3, <1>8, <1>13, <1>17, <1>19 DEF PartOfEvent

\* A line after the rest of another, which was cut behind its number, is refused.
LEMMA GluedLineRead ==
  ASSUME NEW C, NEW ev, NEW t, NEW x, NEW P, LaidOut(C, ev, t, x, P), NEW n \in 0 .. Len(t) - 1,
         n > Len(ev.seq), ~(Number(ev.target) /\ ev.detail = <<>>)
  PROVE  parse_event(SubSeq(t, 1, n) \o t) = NotAnEvent
<1>1. Letters(C) /\ t \in Seq(C) /\ Texts7(x, C) /\ Layout(t, x, P) /\ Unsigned(x[1])
  BY SMTT(60) DEF LaidOut
<1>2. PICK h \in Nat : h = Len(t) - 1 /\ h + 1 = Len(t)
  <2>1. Len(t) >= 1 /\ Len(t) \in Nat
    BY <1>1, OneLineEnd
  <2>2. Len(t) - 1 \in Nat /\ (Len(t) - 1) + 1 = Len(t)
    BY <2>1
  <2>3. QED
    BY <2>2, Zenon
<1>3. n \in Nat /\ n <= Len(t) /\ n <= h /\ h <= Len(t)
  BY <1>1, <1>2
<1>4. PICK b : b = SubSeq(t, 1, n) \o SubSeq(t, 1, h)
  OBVIOUS
<1>5. b \in Seq(C) /\ Len(b) = n + h /\ Agree(b, t, n, 0) /\ Agree(b, t, h, n)
  BY <1>1, <1>3, <1>4, PartsAgree
<1>6. b = Bare(SubSeq(t, 1, n) \o t)
  BY <1>1, <1>2, <1>4, BareLine
<1>7. \A i \in 1 .. 7 : x[i] = ev[FieldNames[i]]
  BY DEF LaidOut
<1>8. x[1] = ev.seq /\ x[5] = ev.target /\ x[7] = ev.detail
  <2>1. 1 \in 1 .. 7 /\ 5 \in 1 .. 7 /\ 7 \in 1 .. 7
    OBVIOUS
  <2>2. FieldNames[1] = "seq" /\ FieldNames[5] = "target" /\ FieldNames[7] = "detail"
    BY DEF FieldNames
  <2>3. QED
    BY <1>7, <2>1, <2>2
<1>9. P[2] <= n + 1
  <2>1. 1 \in 1 .. 7 /\ 1 + 1 = 2
    OBVIOUS
  <2>2. PICK s \in Seq(C) : s = x[1]
    BY <1>1, <2>1 DEF Texts7
  <2>3. fmt_esc(s) = s
    <3>1. Number(s)
      BY <1>1, <2>2 DEF Number
    <3>2. QED
      BY <1>1, <3>1, NumbersPlain
  <2>4. PICK l \in Nat : l = Len(s)
    OBVIOUS
  <2>5. P[1] = 1 /\ P[2] = P[1] + l + 1
    BY <1>1, <2>1, <2>2, <2>3, <2>4 DEF Layout
  <2>6. P[2] = l + 2
    BY <2>5
  <2>7. n > l
    BY <1>8, <2>2, <2>4
  <2>8. QED
    BY <1>3, <2>6, <2>7
<1>10. ~(Read(b)[7].ok /\ Read(b)[7].next = Len(b) + 1)
  <2> SUFFICES ASSUME Read(b)[7].ok, Read(b)[7].next = Len(b) + 1 PROVE FALSE
    OBVIOUS
  <2>1. Number(x[5]) /\ x[7] = <<>>
    BY <1>1, <1>2, <1>3, <1>5, <1>9, GluedRefused
  <2>2. QED
    BY <1>8, <2>1
<1>11. PICK u : u = SubSeq(t, 1, n) \o t
  OBVIOUS
<1>12. QED
  BY <1>6, <1>10, <1>11, ParseNamed

\* What LinesReadBack says of a written line.
LineReadBack(ev, t) ==
  /\ parse_event(t) = ev
  /\ \A n \in 0 .. Len(t) - 1 :
       LET rest == SubSeq(t, 1, n) IN
       /\ parse_event(rest) # NotAnEvent => PartOfEvent(parse_event(rest), ev)
       /\ n > Len(ev.seq) /\ ~(Number(ev.target) /\ ev.detail = <<>>) => parse_event(rest \o t) = NotAnEvent

\* Every line that can be written is read back, whole, cut and glued.
LEMMA WrittenLines ==
  ASSUME AuditTextAssumption, NEW ev \in Events
  PROVE  LineReadBack(ev, fmt_line(ev))
<1>1. PICK C, t, x, P : LaidOut(C, ev, t, x, P)
  BY EventsLaidOut
<1>2. parse_event(t) = ev
  BY <1>1, WholeLineRead
<1>3. ASSUME NEW n \in 0 .. Len(t) - 1
      PROVE  /\ parse_event(SubSeq(t, 1, n)) # NotAnEvent => PartOfEvent(parse_event(SubSeq(t, 1, n)), ev)
             /\ n > Len(ev.seq) /\ ~(Number(ev.target) /\ ev.detail = <<>>) =>
                  parse_event(SubSeq(t, 1, n) \o t) = NotAnEvent
  BY <1>1, CutLineRead, GluedLineRead
<1>4. t = fmt_line(ev)
  BY <1>1 DEF LaidOut
<1>5. LineReadBack(ev, t)
  BY <1>2, <1>3 DEF LineReadBack
<1>6. QED
  BY <1>4, <1>5

\* The line is that of the event.
LineOfEvent == event \in Events /\ (line = <<>> \/ line = fmt_line(event))

\* fmt_line writes the line of the event, and nothing changes after.
LEMMA LineOfEventStep == LineOfEvent /\ [AuditTextNext]_textVars => LineOfEvent'
  BY DEF LineOfEvent, AuditTextNext, WriteLine, textVars

\* A line that is the event's is read back.
LEMMA LineOfEventReads ==
  ASSUME AuditTextAssumption, LineOfEvent
  PROVE  LinesReadBack
<1> SUFFICES ASSUME line # <<>> PROVE LinesReadBack
  BY DEF LinesReadBack
<1>1. LineReadBack(event, line)
  BY WrittenLines DEF LineOfEvent
<1>2. QED
  BY <1>1 DEF LinesReadBack, LineReadBack, PartOfEvent

\* An event is read back as it was written, whatever its texts hold; of a line that
\* was cut, only the result and the detail can be shorter; and a line glued to such
\* a rest is refused.
THEOREM LinesAreReadBack == AuditTextSpec => []LinesReadBack
<1>1. AuditTextInit => LineOfEvent
  BY DEF AuditTextInit, LineOfEvent
<1>2. LineOfEvent /\ [AuditTextNext]_textVars => LineOfEvent'
  BY LineOfEventStep
<1>3. LineOfEvent => LinesReadBack
  BY AuditTextAssumption, LineOfEventReads
<1>4. QED
  BY <1>1, <1>2, <1>3, PTL DEF AuditTextSpec
=============================================================================
