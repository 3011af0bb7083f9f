---------------------------- MODULE MobileCasesProofs ----------------------------
(***************************************************************************)
(* Theorems about MobileCases, for any cases, roles, changes in flight,    *)
(* acts and faults: type correctness, and that at rest the query cache has *)
(* what the server has.                                                    *)
(***************************************************************************)
EXTENDS MobileCases, TLAPS

-------------------------------------------------------------------------------
(* The cache *)

DataOf(k) == IF k = "cases" THEN [Case -> CaseRecord] ELSE CaseRecord

IsFetch(f, k) ==
    /\ f = [answer |-> f.answer, value |-> f.value, retried |-> f.retried, calm |-> f.calm]
    /\ f.answer = "ok" => f.value \in DataOf(k)

IsQuery(q, k) ==
    /\ q = [data |-> q.data, valid |-> q.valid, calm |-> q.calm, fetch |-> q.fetch]
    /\ q.data = None \/ q.data \in DataOf(k)
    /\ q.valid => q.data # None
    /\ q.fetch = None \/ IsFetch(q.fetch, k)

\* While changes are in flight, no fetch was asked for in calm.
Hasty(q) == q.fetch # None => ~ q.fetch.calm

\* While none is, what was asked for in calm is what the server has, v.
Settled(q, v) ==
    /\ q.fetch # None /\ q.fetch.calm /\ q.fetch.answer = "ok" => q.fetch.value = v
    /\ q.valid /\ q.calm => q.data = v

Coherent(q, k, muts, v) ==
    /\ IsQuery(q, k)
    /\ muts # {} => Hasty(q)
    /\ muts = {} => Settled(q, v)

SessionOK ==
    /\ accepts \in BOOLEAN /\ token \in BOOLEAN
    /\ disk \in [token : BOOLEAN, roleId : RoleId] /\ roleId \in RoleId

ScreenOK ==
    /\ screen \in {"login", "tabs", "case", "view"}
    /\ caseId \in Case \cup {None} /\ (caseId # None <=> screen = "case")

ChangesOK ==
    /\ server \in [Case -> CaseRecord]
    /\ mutation \in [Mutation -> {None} \cup Change]
    /\ mine \in Mutation \cup {None} /\ (mine # None => mine \in InFlight)

CacheOK ==
    /\ query = [k \in Key |-> query[k]]
    /\ \A k \in Key : Coherent(query[k], k, InFlight, Served(k))

MobileInv == SessionOK /\ ScreenOK /\ ChangesOK /\ CacheOK

LEMMA MobileTypes == MobileInv => TypeOK /\ CacheComesToServer
BY DEF MobileInv, SessionOK, ScreenOK, ChangesOK, CacheOK, Coherent, IsQuery, Settled,
       TypeOK, CacheComesToServer

LEMMA ServedType ==
    ASSUME ChangesOK, NEW k \in Key
    PROVE  Served(k) \in DataOf(k) /\ Served(k) # None
BY NoneAssumption, CaseAssumption DEF ChangesOK, Served, DataOf, Key

\* A query without data and fetch is coherent whatever happens.
LEMMA NewQuery ==
    ASSUME NEW k, NEW muts, NEW v
    PROVE  Coherent(NoQuery, k, muts, v)
BY DEF Coherent, NoQuery, IsQuery, Hasty, Settled

\* A new fetch says whether it was asked for in calm.
LEMMA FetchNew ==
    ASSUME NEW k, NEW muts
    PROVE  /\ IsFetch(NewFetch(muts), k)
           /\ NewFetch(muts).answer = "none"
           /\ muts # {} => ~ NewFetch(muts).calm
BY DEF NewFetch, IsFetch

\* A query with another fetch, or with none.
LEMMA Refetched ==
    ASSUME NEW q, NEW k, NEW muts, NEW v, Coherent(q, k, muts, v), NEW f,
           f = None \/ IsFetch(f, k),
           f # None /\ muts # {} => ~ f.calm,
           f # None /\ muts = {} /\ f.calm /\ f.answer = "ok" => f.value = v
    PROVE  Coherent([q EXCEPT !.fetch = f], k, muts, v)
<1> DEFINE r == [q EXCEPT !.fetch = f]
<1>1. /\ r = [data |-> r.data, valid |-> r.valid, calm |-> r.calm, fetch |-> r.fetch]
      /\ r.data = q.data /\ r.valid = q.valid /\ r.calm = q.calm /\ r.fetch = f
  BY DEF Coherent, IsQuery
<1> HIDE DEF r
<1>2. Coherent(r, k, muts, v)
  BY <1>1 DEF Coherent, IsQuery, Hasty, Settled
<1>3. QED
  BY <1>2 DEF r

LEMMA WantedCoherent ==
    ASSUME NEW q, NEW k, NEW v, Coherent(q, k, InFlight, v)
    PROVE  Coherent(Wanted(q), k, InFlight, v)
<1>1. CASE q.fetch = None
  <2>1. Coherent([q EXCEPT !.fetch = NewFetch(InFlight)], k, InFlight, v)
    BY FetchNew, Refetched
  <2>2. QED
    BY <1>1, <2>1 DEF Wanted
<1>2. CASE q.fetch # None
  BY <1>2 DEF Wanted
<1>3. QED
  BY <1>1, <1>2

\* Some queries are replaced by coherent ones, the server's data and the changes
\* in flight being the same.
LEMMA Replaced ==
    ASSUME MobileInv, NEW k \in Key, NEW q, query' = [query EXCEPT ![k] = q],
           Coherent(q, k, InFlight, Served(k)), UNCHANGED <<server, mutation>>
    PROVE  CacheOK'
<1>1. InFlight' = InFlight /\ \A z \in Key : Served(z)' = Served(z)
  BY DEF InFlight, Served
<1>2. \A z \in Key : query'[z] = IF z = k THEN q ELSE query[z]
  BY DEF MobileInv, CacheOK
<1>3. query' = [z \in Key |-> query'[z]]
  BY DEF MobileInv, CacheOK
<1>4. QED
  BY <1>1, <1>2, <1>3 DEF MobileInv, CacheOK

LEMMA CacheKept ==
    ASSUME MobileInv, UNCHANGED <<server, mutation, query>>
    PROVE  CacheOK'
BY DEF MobileInv, CacheOK, InFlight, Served

LEMMA SessionKept ==
    ASSUME MobileInv, UNCHANGED <<accepts, session>>
    PROVE  SessionOK'
BY DEF MobileInv, SessionOK, session

LEMMA ScreenKept ==
    ASSUME MobileInv, UNCHANGED place
    PROVE  ScreenOK'
BY DEF MobileInv, ScreenOK, place

LEMMA ChangesKept ==
    ASSUME MobileInv, UNCHANGED <<server, mutation, mine>>
    PROVE  ChangesOK'
BY DEF MobileInv, ChangesOK, InFlight

LEMMA InitMobile == Init => MobileInv
<1> SUFFICES ASSUME Init PROVE MobileInv
  OBVIOUS
<1>1. SessionOK /\ ScreenOK
  BY RoleAssumption DEF Init, SessionOK, ScreenOK
<1>2. ChangesOK
  BY StartAssumption DEF Init, ChangesOK, CaseRecord
<1>3. CacheOK
  BY NewQuery DEF Init, CacheOK
<1>4. QED
  BY <1>1, <1>2, <1>3 DEF MobileInv

-------------------------------------------------------------------------------
(* The server and the network *)

\* A fetch with its answer.
LEMMA Answered ==
    ASSUME NEW f, NEW k, IsFetch(f, k), NEW a, NEW v
    PROVE  /\ [f EXCEPT !.answer = a]
                = [answer |-> a, value |-> f.value, retried |-> f.retried, calm |-> f.calm]
           /\ [f EXCEPT !.answer = a, !.value = v]
                = [answer |-> a, value |-> v, retried |-> f.retried, calm |-> f.calm]
<1> DEFINE b == f.value
           d == f.retried
           e == f.calm
           g == [f EXCEPT !.answer = a]
<1>1. f = [answer |-> f.answer, value |-> b, retried |-> d, calm |-> e]
  BY DEF IsFetch
<1>2. [f EXCEPT !.answer = a, !.value = v] = [g EXCEPT !.value = v]
  BY Zenon
<1> HIDE DEF b, d, e
<1>3. g = [answer |-> a, value |-> b, retried |-> d, calm |-> e]
  BY <1>1
<1> HIDE DEF g
<1>4. [g EXCEPT !.value = v] = [answer |-> a, value |-> v, retried |-> d, calm |-> e]
  BY <1>3
<1>5. QED
  BY <1>2, <1>3, <1>4, Zenon DEF b, d, e, g

LEMMA FetchAnswered ==
    ASSUME MobileInv, NEW k \in Key, query[k].fetch # None
    PROVE  ServeFetch(k) \/ LoseFetch(k) => MobileInv'
<1> DEFINE q == query[k]
           f == q.fetch
<1>1. Coherent(q, k, InFlight, Served(k)) /\ IsFetch(f, k)
  BY DEF MobileInv, CacheOK, Coherent, IsQuery
<1>2. ASSUME NEW g, query' = [query EXCEPT ![k].fetch = g],
             IsFetch(g, k), g.calm = f.calm, g.answer = "ok" => g.value = Served(k),
             UNCHANGED <<server, accepts, session, place, mutation, mine>>
      PROVE  MobileInv'
  <2>1. Coherent([q EXCEPT !.fetch = g], k, InFlight, Served(k))
    BY <1>1, <1>2, Refetched DEF Coherent, Hasty
  <2>2. query' = [query EXCEPT ![k] = [q EXCEPT !.fetch = g]]
    BY <1>2
  <2>3. CacheOK'
    BY <1>2, <2>1, <2>2, Replaced
  <2>4. QED
    BY <1>2, <2>3, SessionKept, ScreenKept, ChangesKept DEF MobileInv
<1>3. ASSUME ServeFetch(k) PROVE MobileInv'
  <2>1. CASE accepts
    <3> DEFINE g == [f EXCEPT !.answer = "ok", !.value = Served(k)]
    <3>1. query' = [query EXCEPT ![k].fetch = g]
      BY <1>3, <2>1, Zenon DEF ServeFetch
    <3>2. g = [answer |-> "ok", value |-> Served(k), retried |-> f.retried, calm |-> f.calm]
      BY <1>1, Answered
    <3> HIDE DEF g
    <3>3. IsFetch(g, k) /\ g.calm = f.calm /\ g.value = Served(k)
      BY <3>2, ServedType DEF IsFetch, MobileInv
    <3>4. QED
      BY <1>2, <1>3, <3>1, <3>3 DEF ServeFetch
  <2>2. CASE ~ accepts
    <3> DEFINE g == [f EXCEPT !.answer = "refused"]
    <3>1. query' = [query EXCEPT ![k].fetch = g]
      BY <1>3, <2>2, Zenon DEF ServeFetch
    <3>2. g = [answer |-> "refused", value |-> f.value, retried |-> f.retried, calm |-> f.calm]
      BY <1>1, Answered
    <3> HIDE DEF g
    <3>3. IsFetch(g, k) /\ g.calm = f.calm /\ g.answer # "ok"
      BY <3>2 DEF IsFetch
    <3>4. QED
      BY <1>2, <1>3, <3>1, <3>3 DEF ServeFetch
  <2>3. QED
    BY <2>1, <2>2
<1>4. ASSUME LoseFetch(k) PROVE MobileInv'
  <2> DEFINE g == [f EXCEPT !.answer = "lost"]
  <2>1. query' = [query EXCEPT ![k].fetch = g]
    BY <1>4, Zenon DEF LoseFetch
  <2>2. g = [answer |-> "lost", value |-> f.value, retried |-> f.retried, calm |-> f.calm]
    BY <1>1, Answered
  <2> HIDE DEF g
  <2>3. IsFetch(g, k) /\ g.calm = f.calm /\ g.answer # "ok"
    BY <2>2 DEF IsFetch
  <2>4. QED
    BY <1>2, <1>4, <2>1, <2>3 DEF LoseFetch
<1>5. QED
  BY <1>3, <1>4

\* A change is answered; while it is in flight the server may move.
LEMMA ChangeAnswered ==
    ASSUME MobileInv, NEW m \in Mutation, ServeStatus(m) \/ LoseStatus(m)
    PROVE  MobileInv'
<1>1. /\ mutation[m] # None /\ mutation[m] \in Change
      /\ UNCHANGED <<accepts, session, place, query, mine>>
  BY DEF MobileInv, ChangesOK, ServeStatus, LoseStatus
<1>2. PICK a \in {"ok", "refused", "lost"} : mutation' = [mutation EXCEPT ![m].answer = a]
  BY DEF ServeStatus, LoseStatus
<1>3. mutation' \in [Mutation -> {None} \cup Change] /\ InFlight' = InFlight /\ InFlight # {}
  <2>1. [mutation[m] EXCEPT !.answer = a] \in Change
    BY <1>1 DEF Change
  <2>2. [mutation[m] EXCEPT !.answer = a] # None
    BY <2>1, NoneAssumption
  <2>3. QED
    BY <1>1, <1>2, <2>1, <2>2 DEF MobileInv, ChangesOK, InFlight
<1>4. server' \in [Case -> CaseRecord]
  <2>1. CASE UNCHANGED server
    BY <2>1 DEF MobileInv, ChangesOK
  <2>2. CASE ServeStatus(m) /\ accepts
    <3> DEFINE c == mutation[m].id
               to == mutation[m].to
               n == server[c].reopened
               again == to = "open" /\ server[c].status \in {"closed", "done"}
    <3>1. c \in Case /\ to \in Status /\ n \in Nat
      BY <1>1 DEF Change, MobileInv, ChangesOK, CaseRecord
    <3>2. server' = [server EXCEPT ![c] = [status |-> to, reopened |-> n + (IF again THEN 1 ELSE 0)]]
      BY <2>2, Zenon DEF ServeStatus
    <3>3. n + (IF again THEN 1 ELSE 0) \in Nat
      BY <3>1
    <3> HIDE DEF c, to, n, again
    <3>4. QED
      BY <3>1, <3>2, <3>3 DEF MobileInv, ChangesOK, CaseRecord
  <2>3. CASE (ServeStatus(m) /\ ~ accepts) \/ LoseStatus(m)
    BY <2>1, <2>3 DEF ServeStatus, LoseStatus
  <2>4. QED
    BY <2>2, <2>3
<1>5. ChangesOK'
  BY <1>1, <1>3, <1>4 DEF MobileInv, ChangesOK
<1>6. CacheOK'
  BY <1>1, <1>3 DEF MobileInv, CacheOK, Coherent
<1>7. QED
  BY <1>1, <1>5, <1>6, SessionKept, ScreenKept DEF MobileInv

-------------------------------------------------------------------------------
(* Sessions and screens *)

LEMMA ListMounted ==
    ASSUME MobileInv, query' \in MountList(query), UNCHANGED <<server, mutation>>
    PROVE  CacheOK'
<1>1. CASE query' = query
  BY <1>1, CacheKept
<1>2. CASE query' = [query EXCEPT !["cases"] = Wanted(query["cases"])]
  <2>1. "cases" \in Key
    BY DEF Key
  <2>2. Coherent(Wanted(query["cases"]), "cases", InFlight, Served("cases"))
    BY <2>1, WantedCoherent DEF MobileInv, CacheOK
  <2>3. QED
    BY <1>2, <2>1, <2>2, Replaced
<1>3. QED
  BY <1>1, <1>2 DEF MountList

LEMMA SessionKeeps ==
    ASSUME MobileInv
    PROVE  /\ Expire => MobileInv'
           /\ Restart => MobileInv'
           /\ Hydrate => MobileInv'
           /\ \A r \in RoleId : SignIn(r) \/ SwitchRole(r) => MobileInv'
           /\ SignOut => MobileInv'
<1>1. ASSUME Expire PROVE MobileInv'
  <2>1. UNCHANGED <<server, place, session, query, mutation, mine>> /\ accepts' = FALSE
    BY <1>1 DEF Expire, cache
  <2>2. SessionOK'
    BY <2>1 DEF MobileInv, SessionOK, session
  <2>3. QED
    BY <2>1, <2>2, ScreenKept, ChangesKept, CacheKept DEF MobileInv
<1>2. ASSUME Restart PROVE MobileInv'
  <2>1. SessionOK' /\ ScreenOK'
    BY <1>2, RoleAssumption DEF Restart, MobileInv, SessionOK, ScreenOK
  <2>2. ChangesOK'
    BY <1>2 DEF Restart, MobileInv, ChangesOK
  <2>3. CacheOK'
    BY <1>2, NewQuery DEF Restart, CacheOK
  <2>4. QED
    BY <2>1, <2>2, <2>3 DEF MobileInv
<1>3. ASSUME Hydrate PROVE MobileInv'
  <2>1. UNCHANGED <<server, accepts, disk, place, query, mutation, mine>>
    BY <1>3 DEF Hydrate, cache
  <2>2. SessionOK'
    BY <1>3, <2>1 DEF Hydrate, MobileInv, SessionOK
  <2>3. QED
    BY <2>1, <2>2, ScreenKept, ChangesKept, CacheKept DEF MobileInv
<1>4. ASSUME NEW r \in RoleId, SignIn(r) PROVE MobileInv'
  <2>1. UNCHANGED <<server, mutation, mine>> /\ query' \in MountList(query)
    BY <1>4 DEF SignIn
  <2>2. SessionOK' /\ ScreenOK'
    BY <1>4 DEF SignIn, SetSession, MobileInv, SessionOK, ScreenOK
  <2>3. QED
    BY <2>1, <2>2, ListMounted, ChangesKept DEF MobileInv
<1>5. ASSUME NEW r \in RoleId, SwitchRole(r) PROVE MobileInv'
  <2>1. UNCHANGED <<server, accepts, place, query, mutation, mine>>
    BY <1>5 DEF SwitchRole, cache
  <2>2. SessionOK'
    BY <1>5, <2>1 DEF SwitchRole, SetSession, MobileInv, SessionOK
  <2>3. QED
    BY <2>1, <2>2, ScreenKept, ChangesKept, CacheKept DEF MobileInv
<1>6. ASSUME SignOut PROVE MobileInv'
  <2>1. UNCHANGED <<server, accepts, caseId, query, mutation, mine>>
    BY <1>6 DEF SignOut, cache
  <2>2. SessionOK' /\ ScreenOK'
    BY <1>6, <2>1 DEF SignOut, SetSession, MobileInv, SessionOK, ScreenOK
  <2>3. QED
    BY <2>1, <2>2, ChangesKept, CacheKept DEF MobileInv
<1>7. QED
  BY <1>1, <1>2, <1>3, <1>4, <1>5, <1>6

LEMMA ScreensKeep ==
    ASSUME MobileInv
    PROVE  /\ MountTab => MobileInv'
           /\ \A v \in View : GoMore(v) => MobileInv'
           /\ \A c \in Case : OpenCase(c) => MobileInv'
           /\ Back => MobileInv'
<1>1. ASSUME MountTab PROVE MobileInv'
  <2>1. UNCHANGED <<server, accepts, session, place, mutation, mine>>
        /\ query' \in MountList(query)
    BY <1>1 DEF MountTab
  <2>2. QED
    BY <2>1, ListMounted, SessionKept, ScreenKept, ChangesKept DEF MobileInv
<1>2. ASSUME NEW v \in View, GoMore(v) PROVE MobileInv'
  <2>1. UNCHANGED <<server, accepts, session, query, mutation, mine>>
    BY <1>2 DEF GoMore, cache
  <2>2. ScreenOK'
    BY <1>2 DEF GoMore, MobileInv, ScreenOK
  <2>3. QED
    BY <2>1, <2>2, SessionKept, ChangesKept, CacheKept DEF MobileInv
<1>3. ASSUME NEW c \in Case, OpenCase(c) PROVE MobileInv'
  <2>1. /\ UNCHANGED <<server, accepts, session, mutation, mine>>
        /\ query' = [query EXCEPT ![c] = Wanted(query[c])] /\ c \in Key
    BY <1>3 DEF OpenCase, Key
  <2>2. Coherent(Wanted(query[c]), c, InFlight, Served(c))
    BY <2>1, WantedCoherent DEF MobileInv, CacheOK
  <2>3. CacheOK'
    BY <2>1, <2>2, Replaced
  <2>4. ScreenOK'
    BY <1>3, NoneAssumption DEF OpenCase, ScreenOK
  <2>5. QED
    BY <2>1, <2>3, <2>4, SessionKept, ChangesKept DEF MobileInv
<1>4. ASSUME Back PROVE MobileInv'
  <2>1. UNCHANGED <<server, accepts, session, query, mutation>>
    BY <1>4 DEF Back
  <2>2. ScreenOK' /\ ChangesOK'
    BY <1>4 DEF Back, MobileInv, ScreenOK, ChangesOK, InFlight
  <2>3. QED
    BY <2>1, <2>2, SessionKept, CacheKept DEF MobileInv
<1>5. QED
  BY <1>1, <1>2, <1>3, <1>4

-------------------------------------------------------------------------------
(* The change of a case's status *)

\* What the optimistic update leaves: no fetch, and data of the right kind.
LEMMA Unfetched ==
    ASSUME NEW q, NEW k, IsQuery(q, k)
    PROVE  LET r == [q EXCEPT !.fetch = None]
           IN IsQuery(r, k) /\ r.fetch = None /\ r.data = q.data
<1> DEFINE r == [q EXCEPT !.fetch = None]
<1>1. /\ r = [data |-> r.data, valid |-> r.valid, calm |-> r.calm, fetch |-> r.fetch]
      /\ r.data = q.data /\ r.valid = q.valid /\ r.fetch = None
  BY DEF IsQuery
<1> HIDE DEF r
<1>2. IsQuery(r, k)
  BY <1>1 DEF IsQuery
<1>3. QED
  BY <1>1, <1>2 DEF r

LEMMA Written ==
    ASSUME NEW q, NEW k \in Key, NEW v, IsQuery(q, k), q.fetch = None,
           q.data # None => v \in DataOf(k)
    PROVE  IsQuery(Write(q, v), k) /\ Write(q, v).fetch = None
<1>1. CASE q.data = None
  BY <1>1 DEF Write
<1>2. CASE q.data # None
  <2> DEFINE yes == TRUE
             g == [q EXCEPT !.data = v]
             w == [g EXCEPT !.valid = yes]
  <2>1. [q EXCEPT !.data = v, !.valid = TRUE] = w
    BY Zenon
  <2> HIDE DEF yes
  <2>2. Write(q, v) = w
    BY <1>2, <2>1, Zenon DEF Write
  <2>3. g = [data |-> g.data, valid |-> g.valid, calm |-> g.calm, fetch |-> g.fetch]
        /\ g.data = v /\ g.fetch = None
    BY DEF IsQuery
  <2> HIDE DEF g
  <2>4. w = [data |-> w.data, valid |-> w.valid, calm |-> w.calm, fetch |-> w.fetch]
        /\ w.data = v /\ w.fetch = None
    BY <2>3
  <2> HIDE DEF w
  <2>5. v \in DataOf(k) /\ v # None
    BY <1>2, NoneAssumption DEF DataOf
  <2>6. QED
    BY <2>2, <2>4, <2>5 DEF IsQuery
<1>3. QED
  BY <1>1, <1>2

LEMMA PressKeeps ==
    ASSUME MobileInv, NEW m \in Mutation, NEW to \in Status, Press(m, to)
    PROVE  MobileInv'
<1> DEFINE c == caseId
           list == query["cases"].data
           q(k) == [query[k] EXCEPT !.fetch = None]
           x == [id |-> c, to |-> to, prev |-> list, answer |-> "none"]
<1>1. /\ c \in Case /\ query[c].data # None
      /\ mutation' = [mutation EXCEPT ![m] = x] /\ mine' = m
      /\ UNCHANGED <<server, accepts, session, place>>
  BY DEF Press, MobileInv, ScreenOK, Cached
<1>2. query' = [k \in Key |->
             CASE k = "cases" -> Write(q(k), [list EXCEPT ![c].status = to])
               [] k = c       -> Write(q(k), [q(k).data EXCEPT !.status = to])
               [] OTHER       -> q(k)]
  BY Zenon DEF Press
<1>3. "cases" \in Key /\ c \in Key /\ c # "cases"
  BY <1>1, CaseAssumption DEF Key
<1>4. \A k \in Key : IsQuery(q(k), k) /\ q(k).fetch = None /\ q(k).data = query[k].data
  BY Unfetched DEF MobileInv, CacheOK, Coherent
<1>5. list = None \/ list \in [Case -> CaseRecord]
  BY <1>3 DEF MobileInv, CacheOK, Coherent, IsQuery, DataOf
<1>6. query[c].data \in CaseRecord
  BY <1>1, <1>3 DEF MobileInv, CacheOK, Coherent, IsQuery, DataOf
<1> HIDE DEF q
<1>7. \A k \in Key : IsQuery(query'[k], k) /\ query'[k].fetch = None
  <2>1. IsQuery(query'["cases"], "cases") /\ query'["cases"].fetch = None
    <3> DEFINE v == [list EXCEPT ![c].status = to]
    <3>1. query'["cases"] = Write(q("cases"), v)
      BY <1>2, <1>3
    <3>2. list # None => v \in DataOf("cases")
      BY <1>1, <1>5 DEF DataOf, CaseRecord
    <3> HIDE DEF v
    <3>3. QED
      BY <1>3, <1>4, <3>1, <3>2, Written
  <2>2. IsQuery(query'[c], c) /\ query'[c].fetch = None
    <3> DEFINE v == [q(c).data EXCEPT !.status = to]
    <3>1. query'[c] = Write(q(c), v)
      BY <1>2, <1>3
    <3>2. v \in DataOf(c)
      BY <1>3, <1>4, <1>6 DEF DataOf, CaseRecord
    <3> HIDE DEF v
    <3>3. QED
      BY <1>3, <1>4, <3>1, <3>2, Written
  <2>3. ASSUME NEW k \in Key, k # "cases", k # c
        PROVE  IsQuery(query'[k], k) /\ query'[k].fetch = None
    <3>1. query'[k] = q(k)
      BY <1>2, <2>3
    <3>2. QED
      BY <1>4, <3>1
  <2>4. QED
    BY <2>1, <2>2, <2>3
<1>8. x \in Change /\ x # None
  BY <1>1, <1>5, NoneAssumption DEF Change
<1> HIDE DEF x
<1>9. m \in InFlight'
  BY <1>1, <1>8 DEF InFlight, MobileInv, ChangesOK
<1>10. ChangesOK'
  BY <1>1, <1>8, <1>9 DEF MobileInv, ChangesOK
<1>11. query' = [k \in Key |-> query'[k]]
  BY <1>2
<1>12. CacheOK'
  BY <1>7, <1>9, <1>11 DEF CacheOK, Coherent, Hasty
<1>13. QED
  BY <1>1, <1>10, <1>12, SessionKept, ScreenKept DEF MobileInv

LEMMA LeaveKeeps ==
    ASSUME MobileInv, NEW answer, Leave(answer = "refused"), UNCHANGED accepts
    PROVE  SessionOK' /\ ScreenOK'
<1>1. CASE answer = "refused"
  <2>1. SetSession(FALSE, roleId) /\ screen' = "login" /\ caseId' = None
    BY <1>1 DEF Leave
  <2>2. QED
    BY <2>1, NoneAssumption DEF SetSession, MobileInv, SessionOK, ScreenOK
<1>2. CASE answer # "refused"
  <2>1. UNCHANGED <<session, place>>
    BY <1>2 DEF Leave
  <2>2. QED
    BY <2>1, SessionKept, ScreenKept
<1>3. QED
  BY <1>1, <1>2

\* After an invalidation nothing valid is left, and what is fetched anew says
\* whether other changes were in flight.
LEMMA InvalidatedCoherent ==
    ASSUME NEW q, NEW k, NEW active \in BOOLEAN, NEW muts, NEW v, IsQuery(q, k), Hasty(q)
    PROVE  Coherent(Invalidated(q, active, muts), k, muts, v)
<1> DEFINE f == IF active /\ (q.data # None \/ q.fetch = None) THEN NewFetch(muts) ELSE q.fetch
           no == FALSE
           g == [q EXCEPT !.valid = no]
           r == [g EXCEPT !.fetch = f]
<1>1. Invalidated(q, active, muts) = r
  BY Zenon DEF Invalidated
<1>2. /\ f = None \/ IsFetch(f, k)
      /\ f # None /\ muts # {} => ~ f.calm
      /\ f # None /\ f.calm => f.answer = "none"
  BY FetchNew DEF IsQuery, Hasty
<1> HIDE DEF f, no
<1>3. g = [data |-> g.data, valid |-> g.valid, calm |-> g.calm, fetch |-> g.fetch]
      /\ g.data = q.data /\ g.valid = no
  BY DEF IsQuery
<1> HIDE DEF g
<1>4. r = [data |-> r.data, valid |-> r.valid, calm |-> r.calm, fetch |-> r.fetch]
      /\ r.data = q.data /\ r.valid = no /\ r.fetch = f
  BY <1>3
<1> HIDE DEF r
<1>5. Coherent(r, k, muts, v)
  BY <1>2, <1>4 DEF no, Coherent, IsQuery, Hasty, Settled
<1>6. QED
  BY <1>1, <1>5

LEMMA SettleKeeps ==
    ASSUME MobileInv, NEW m \in Mutation, Settle(m)
    PROVE  MobileInv'
<1> DEFINE prev == mutation[m].prev
           failed == mutation[m].answer # "ok"
           q == IF failed /\ prev # None THEN [query EXCEPT !["cases"].data = prev] ELSE query
           muts == InFlight \ {m}
<1>1. /\ mutation[m] # None /\ mutation[m] \in Change
      /\ mutation' = [mutation EXCEPT ![m] = None]
      /\ mine' = IF mine = m \/ screen' = "login" THEN None ELSE mine
      /\ UNCHANGED <<server, accepts>>
  BY DEF Settle, MobileInv, ChangesOK
<1>2. query' = [k \in Key |-> Invalidated(q[k], Active(k), muts)]
  BY Zenon DEF Settle
<1>3. InFlight # {} /\ InFlight' = muts
  BY <1>1 DEF InFlight, MobileInv, ChangesOK
<1>4. \A k \in Key : IsQuery(q[k], k) /\ Hasty(q[k])
  <2>1. \A k \in Key : IsQuery(query[k], k) /\ Hasty(query[k])
    BY <1>3 DEF MobileInv, CacheOK, Coherent
  <2>2. CASE failed /\ prev # None
    <3> DEFINE d == query["cases"]
               e == [d EXCEPT !.data = prev]
    <3>1. q = [query EXCEPT !["cases"] = e] /\ "cases" \in Key
      BY <2>2 DEF Key
    <3>2. prev \in DataOf("cases") /\ prev # None
      BY <1>1, <2>2 DEF Change, DataOf
    <3>3. IsQuery(d, "cases") /\ Hasty(d)
      BY <2>1, <3>1
    <3> HIDE DEF prev, d
    <3>4. e = [data |-> e.data, valid |-> e.valid, calm |-> e.calm, fetch |-> e.fetch]
          /\ e.data = prev /\ e.fetch = d.fetch
      BY <3>3 DEF IsQuery
    <3> HIDE DEF e, q
    <3>5. IsQuery(e, "cases") /\ Hasty(e)
      BY <3>2, <3>3, <3>4 DEF IsQuery, Hasty
    <3>6. \A k \in Key : q[k] = IF k = "cases" THEN e ELSE query[k]
      BY <3>1 DEF MobileInv, CacheOK
    <3>7. QED
      BY <2>1, <3>5, <3>6
  <2>3. CASE ~ (failed /\ prev # None)
    BY <2>1, <2>3
  <2>4. QED
    BY <2>2, <2>3
<1> HIDE DEF q, muts
<1>5. CacheOK'
  <2>1. \A k \in Key : query'[k] = Invalidated(q[k], Active(k), muts)
    BY <1>2
  <2>2. \A k \in Key : Active(k) \in BOOLEAN
    BY DEF Active
  <2>3. \A k \in Key : Coherent(query'[k], k, muts, Served(k)')
    BY <1>4, <2>1, <2>2, InvalidatedCoherent
  <2>4. query' = [k \in Key |-> query'[k]]
    BY <1>2
  <2>5. QED
    BY <1>3, <2>3, <2>4 DEF CacheOK
<1>6. ChangesOK'
  BY <1>1 DEF MobileInv, ChangesOK, InFlight
<1>7. SessionOK' /\ ScreenOK'
  <2>1. Leave(mutation[m].answer = "refused")
    BY DEF Settle
  <2>2. QED
    BY <1>1, <2>1, LeaveKeeps
<1>8. QED
  BY <1>5, <1>6, <1>7 DEF MobileInv

LEMMA ReceiveKeeps ==
    ASSUME MobileInv, NEW k \in Key, Receive(k)
    PROVE  MobileInv'
<1> DEFINE q == query[k]
           f == q.fetch
<1>1. /\ f # None /\ Leave(f.answer = "refused")
      /\ mine' = IF screen' = "login" THEN None ELSE mine
      /\ UNCHANGED <<server, accepts, mutation>>
  BY DEF Receive
<1>2. Coherent(q, k, InFlight, Served(k)) /\ IsFetch(f, k)
  BY <1>1 DEF MobileInv, CacheOK, Coherent, IsQuery
<1>3. CacheOK'
  <2>1. CASE f.answer = "ok"
    <3> DEFINE r == [data |-> f.value, valid |-> TRUE, calm |-> f.calm, fetch |-> None]
    <3>1. query' = [query EXCEPT ![k] = r]
      BY <2>1, Zenon DEF Receive
    <3>2. f.value \in DataOf(k) /\ f.value # None
      BY <1>2, <2>1, NoneAssumption DEF IsFetch, DataOf
    <3>3. InFlight = {} /\ f.calm => f.value = Served(k)
      BY <1>1, <1>2, <2>1 DEF Coherent, Settled
    <3>4. Coherent(r, k, InFlight, Served(k))
      BY <3>2, <3>3 DEF Coherent, IsQuery, Hasty, Settled
    <3> HIDE DEF r
    <3>5. QED
      BY <1>1, <3>1, <3>4, Replaced
  <2>2. CASE f.answer # "ok" /\ ~ f.retried
    <3> DEFINE yes == TRUE
               n == NewFetch(InFlight)
               g == [n EXCEPT !.retried = yes]
               r == [q EXCEPT !.fetch = g]
    <3>1. query' = [query EXCEPT ![k] = r]
      BY <2>2, Zenon DEF Receive
    <3>2. IsFetch(n, k) /\ n.answer = "none" /\ (InFlight # {} => ~ n.calm)
      BY FetchNew
    <3> HIDE DEF n, yes
    <3>3. g = [answer |-> g.answer, value |-> g.value, retried |-> g.retried, calm |-> g.calm]
          /\ g.answer = "none" /\ g.calm = n.calm
      BY <3>2 DEF IsFetch
    <3> HIDE DEF g
    <3>4. Coherent(r, k, InFlight, Served(k))
      BY <1>2, <3>2, <3>3, Refetched DEF IsFetch
    <3> HIDE DEF r
    <3>5. QED
      BY <1>1, <3>1, <3>4, Replaced
  <2>3. CASE f.answer # "ok" /\ f.retried
    <3> DEFINE no == FALSE
               g == [q EXCEPT !.valid = no]
               r == [g EXCEPT !.fetch = None]
    <3>1. [q EXCEPT !.valid = FALSE, !.fetch = None] = r
      BY Zenon
    <3>2. query' = [query EXCEPT ![k] = r]
      BY <2>3, <3>1, Zenon DEF Receive
    <3> HIDE DEF no
    <3>3. g = [data |-> g.data, valid |-> g.valid, calm |-> g.calm, fetch |-> g.fetch]
          /\ g.data = q.data /\ g.valid = no
      BY <1>2 DEF Coherent, IsQuery
    <3> HIDE DEF g
    <3>4. r = [data |-> r.data, valid |-> r.valid, calm |-> r.calm, fetch |-> r.fetch]
          /\ r.data = q.data /\ r.valid = no /\ r.fetch = None
      BY <3>3
    <3> HIDE DEF r
    <3>5. Coherent(r, k, InFlight, Served(k))
      BY <1>2, <3>4 DEF no, Coherent, IsQuery, Hasty, Settled
    <3>6. QED
      BY <1>1, <3>2, <3>5, Replaced
  <2>4. QED
    BY <2>1, <2>2, <2>3
<1>4. ChangesOK'
  BY <1>1 DEF MobileInv, ChangesOK, InFlight
<1>5. SessionOK' /\ ScreenOK'
  BY <1>1, LeaveKeeps
<1>6. QED
  BY <1>3, <1>4, <1>5 DEF MobileInv

-------------------------------------------------------------------------------
(* Theorems *)

LEMMA NextMobile == MobileInv /\ [Next]_vars => MobileInv'
<1> SUFFICES ASSUME MobileInv, [Next]_vars PROVE MobileInv'
  OBVIOUS
<1>1. ASSUME NEW k \in Key, ServeFetch(k) \/ LoseFetch(k) PROVE MobileInv'
  BY <1>1, FetchAnswered DEF ServeFetch, LoseFetch
<1>2. ASSUME NEW k \in Key, Receive(k) PROVE MobileInv'
  BY <1>2, ReceiveKeeps
<1>3. ASSUME NEW m \in Mutation, ServeStatus(m) \/ LoseStatus(m) PROVE MobileInv'
  BY <1>3, ChangeAnswered
<1>4. ASSUME NEW m \in Mutation, Settle(m) PROVE MobileInv'
  BY <1>4, SettleKeeps
<1>5. ASSUME NEW m \in Mutation, NEW to \in Status, Press(m, to) PROVE MobileInv'
  BY <1>5, PressKeeps
<1>6. CASE UNCHANGED vars
  <2>1. UNCHANGED <<server, accepts, session, place, query, mutation, mine>>
    BY <1>6 DEF vars, cache
  <2>2. QED
    BY <2>1, SessionKept, ScreenKept, ChangesKept, CacheKept DEF MobileInv
<1>7. QED
  BY <1>1, <1>2, <1>3, <1>4, <1>5, <1>6, SessionKeeps, ScreensKeep DEF Next

\* The invariant of the device and the server: while a change of status is in
\* flight no fetch in calm is under way, because the change cancelled them and
\* those that follow are marked; while none is, a fetch in calm that has been
\* answered, and valid data from one, are what the server has.
THEOREM MobileInvariant == Spec => []MobileInv
<1>1. Init => MobileInv
  BY InitMobile
<1>2. MobileInv /\ [Next]_vars => MobileInv'
  BY NextMobile
<1>3. QED
  BY <1>1, <1>2, PTL DEF Spec

\* The types, and that the case screen has its case and waits only for a change
\* that is under way (case/[id].tsx, useUpdateStatus).
THEOREM MobileTypeCorrect == Spec => []TypeOK
BY MobileInvariant, MobileTypes, PTL

\* At rest the cache has what the server has, whatever was lost, rolled back or
\* left unfinished (queries.ts: cancelQueries, onError and onSettled together).
THEOREM CacheIsServers == Spec => []CacheComesToServer
BY MobileInvariant, MobileTypes, PTL
===============================================================================
