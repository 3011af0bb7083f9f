--------------------------- MODULE AdminClientProofs ---------------------------
(***************************************************************************)
(* Theorems about AdminClient, for any cases, replies, tokens and number   *)
(* of calls in flight: type correctness, that a list is taken in for the   *)
(* filters it was asked for, that only stale views are refused, and that a *)
(* page sends one reply at a time.                                         *)
(***************************************************************************)
EXTENDS AdminClient, FiniteSetTheorems, WellFoundedInduction, TLAPS

-------------------------------------------------------------------------------
(* Calls *)

Page == {"login", "local", "inbox", "case", "approvals", "pipeline"}

\* What the component of a page asks for.
KindsOf(p) ==
    CASE p = "login"     -> {"login"}
      [] p = "inbox"     -> {"list", "facets"}
      [] p = "case"      -> {"detail", "status", "reply"}
      [] p = "approvals" -> {"approvals", "decide"}
      [] p = "pipeline"  -> {"pipeline"}
      [] OTHER           -> {}

IsCall(x) ==
    x = [kind |-> x.kind, id |-> x.id, arg |-> x.arg, basis |-> x.basis,
         token |-> x.token, client |-> x.client, answer |-> x.answer, value |-> x.value]

\* What a call of each kind is about; a button is one of the view it was on.
Meant(x) ==
    /\ x.kind = "login" => x.id \in Token
    /\ x.kind \in {"detail", "status", "reply"} => x.id \in Case
    /\ x.kind = "status" => x.arg \in Actions(x.basis[2])
    /\ x.kind = "decide" => x.arg \in {"approved", "rejected"}

\* What is live was asked for by the page p, with the filters f it has.
FitsPage(x, p, f) ==
    x.client = "live" => x.kind \in KindsOf(p) /\ (x.kind = "list" => x.arg = f)

Good(x, p, f) ==
    /\ IsCall(x)
    /\ x.kind \in Kind
    /\ x.client \in {"live", "orphan", "gone"}
    /\ x.answer \in {"none", "ok", "refused", "unauthorized", "lost"}
    /\ Meant(x)
    /\ FitsPage(x, p, f)

LiveLogin(x) == x # None /\ x.kind = "login" /\ x.client = "live"

\* The calls in flight, on page p with filters f.
Sound(cs, p, f) ==
    /\ cs = [s \in Slot |-> cs[s]]
    /\ \A s \in Slot : cs[s] = None \/ Good(cs[s], p, f)
    /\ \A s, z \in Slot : LiveLogin(cs[s]) /\ LiveLogin(cs[z]) => s = z

\* The free slots up to and with a free one are counted from one.
LEMMA PlaceType ==
    ASSUME NEW cs, NEW s \in Free(cs)
    PROVE  Cardinality({z \in Free(cs) : z <= s}) \in Nat \ {0}
<1> DEFINE S == {z \in Free(cs) : z <= s}
<1>1. IsFiniteSet(Slot)
  BY FS_Interval, BoundAssumption DEF Slot
<1>2. S \subseteq Slot /\ s \in S
  BY BoundAssumption DEF Free, Slot
<1>3. IsFiniteSet(S)
  BY <1>1, <1>2, FS_Subset
<1>4. Cardinality(S) \in Nat /\ Cardinality(S) # 0
  BY <1>2, <1>3, FS_CardinalityType, FS_EmptySet
<1>5. QED
  BY <1>4

\* What is added is in a slot that was free, all else as before.
LEMMA AddedSlot ==
    ASSUME NEW cs, NEW asked, Len(asked) \in Nat, NEW s \in Slot
    PROVE  \/ AddAll(cs, asked)[s] = cs[s]
           \/ /\ cs[s] = None
              /\ \E i \in 1..Len(asked) : AddAll(cs, asked)[s] = asked[i]
<1> DEFINE n == Cardinality({z \in Free(cs) : z <= s})
<1>1. AddAll(cs, asked)[s] = IF cs[s] = None /\ n <= Len(asked) THEN asked[n] ELSE cs[s]
  BY DEF AddAll
<1>2. CASE cs[s] = None /\ n <= Len(asked)
  <2>1. n \in Nat \ {0}
    BY <1>2, PlaceType DEF Free
  <2> HIDE DEF n
  <2>2. n \in 1..Len(asked)
    BY <1>2, <2>1
  <2>3. QED
    BY <1>1, <1>2, <2>2
<1>3. CASE ~ (cs[s] = None /\ n <= Len(asked))
  BY <1>1, <1>3
<1>4. QED
  BY <1>2, <1>3

LEMMA AddSound ==
    ASSUME NEW cs, NEW p, NEW f, NEW asked, Len(asked) \in Nat, Sound(cs, p, f),
           \A i \in 1..Len(asked) : Good(asked[i], p, f) /\ asked[i].kind # "login"
    PROVE  Sound(AddAll(cs, asked), p, f)
<1> DEFINE new == AddAll(cs, asked)
<1>1. new = [s \in Slot |-> new[s]]
  BY DEF AddAll
<1> HIDE DEF new
<1>2. \A s \in Slot : new[s] = cs[s] \/ (Good(new[s], p, f) /\ ~ LiveLogin(new[s]))
  BY AddedSlot DEF new, LiveLogin
<1>3. QED
  BY <1>1, <1>2 DEF Sound, new

\* No two free slots have the same place.
LEMMA PlaceGrows ==
    ASSUME NEW cs, NEW s \in Free(cs), NEW y \in Free(cs), s < y
    PROVE  Cardinality({z \in Free(cs) : z <= s}) < Cardinality({z \in Free(cs) : z <= y})
<1> DEFINE S == {z \in Free(cs) : z <= s}
           Y == {z \in Free(cs) : z <= y}
<1>1. Slot \subseteq Int /\ Free(cs) \subseteq Slot
  BY DEF Slot, Free
<1>2. IsFiniteSet(S) /\ IsFiniteSet(Y)
  <2>1. IsFiniteSet(Slot)
    BY FS_Interval, BoundAssumption DEF Slot
  <2>2. S \subseteq Slot /\ Y \subseteq Slot
    BY <1>1
  <2>3. QED
    BY <2>1, <2>2, FS_Subset
<1>3. s \in Int /\ y \in Int /\ \A z \in Free(cs) : z \in Int
  BY <1>1
<1>4. y \notin S /\ S \cup {y} \subseteq Y
  <2>1. y \notin S
    BY <1>3
  <2>2. \A z \in Free(cs) : z <= s => z <= y
    BY <1>3
  <2>3. y <= y
    BY <1>3
  <2>4. QED
    BY <2>1, <2>2, <2>3
<1>5. Cardinality(S \cup {y}) = Cardinality(S) + 1
  BY <1>2, <1>4, FS_AddElement
<1>6. Cardinality(S \cup {y}) <= Cardinality(Y)
  BY <1>2, <1>4, FS_Subset
<1>7. Cardinality(S) \in Nat /\ Cardinality(Y) \in Nat
  BY <1>2, FS_CardinalityType
<1>8. QED
  BY <1>5, <1>6, <1>7

\* One call is added once.
LEMMA AddedOnce ==
    ASSUME NEW cs, NEW call, NEW s \in Slot, NEW y \in Slot,
           Add(cs, call)[s] # cs[s], Add(cs, call)[y] # cs[y]
    PROVE  s = y
<1> DEFINE asked == <<call>>
           place(z) == Cardinality({x \in Free(cs) : x <= z})
<1>1. Len(asked) = 1
  OBVIOUS
<1>2. Add(cs, call) = AddAll(cs, asked)
  BY DEF Add
<1> HIDE DEF asked
<1>3. \A z \in Slot : Add(cs, call)[z] # cs[z] => cs[z] = None /\ place(z) <= 1
  BY <1>1, <1>2 DEF AddAll
<1>4. s \in Free(cs) /\ y \in Free(cs) /\ place(s) <= 1 /\ place(y) <= 1
  BY <1>3 DEF Free
<1>5. place(s) \in Nat \ {0} /\ place(y) \in Nat \ {0}
  BY <1>4, PlaceType
<1>6. s < y => place(s) < place(y)
  BY <1>4, PlaceGrows
<1>7. y < s => place(y) < place(s)
  BY <1>4, PlaceGrows
<1> HIDE DEF place
<1>8. s \in Int /\ y \in Int
  BY BoundAssumption DEF Slot
<1>9. QED
  BY <1>4, <1>5, <1>6, <1>7, <1>8

\* The login page's own call, when there is no live one.
LEMMA AddLogin ==
    ASSUME NEW cs, NEW p, NEW f, NEW call, Sound(cs, p, f), Good(call, p, f),
           \A s \in Slot : ~ LiveLogin(cs[s])
    PROVE  Sound(Add(cs, call), p, f)
<1> DEFINE asked == <<call>>
           new == Add(cs, call)
<1>1. Len(asked) = 1 /\ asked[1] = call
  OBVIOUS
<1>2. new = AddAll(cs, asked)
  BY DEF Add
<1>3. new = [s \in Slot |-> new[s]]
  BY <1>2 DEF AddAll
<1>4. \A i \in 1..Len(asked) : asked[i] = call
  BY <1>1
<1> HIDE DEF asked
<1>5. \A s \in Slot : new[s] = cs[s] \/ new[s] = call
  BY <1>1, <1>2, <1>4, AddedSlot
<1>6. \A s \in Slot : new[s] = None \/ Good(new[s], p, f)
  BY <1>5 DEF Sound
<1>7. \A s, z \in Slot : LiveLogin(new[s]) /\ LiveLogin(new[z]) => s = z
  BY AddedOnce
<1> HIDE DEF new
<1>8. QED
  BY <1>3, <1>6, <1>7 DEF Sound, new

\* A call in flight is replaced, by its answer or by the call that follows it.
LEMMA ReplaceSound ==
    ASSUME NEW cs, NEW p, NEW f, NEW s \in Slot, NEW x, Sound(cs, p, f),
           x = None \/ Good(x, p, f), LiveLogin(x) => LiveLogin(cs[s])
    PROVE  Sound([cs EXCEPT ![s] = x], p, f)
<1> DEFINE new == [cs EXCEPT ![s] = x]
<1>1. new = [z \in Slot |-> new[z]] /\ \A z \in Slot : new[z] = IF z = s THEN x ELSE cs[z]
  BY DEF Sound
<1> HIDE DEF new
<1>2. \A z \in Slot : LiveLogin(new[z]) => LiveLogin(cs[z])
  BY <1>1
<1>3. QED
  BY <1>1, <1>2 DEF Sound, new

\* Once all calls are left behind, they are sound on any page.
LEMMA LeftSound ==
    ASSUME NEW cs, NEW p, NEW f, NEW q, NEW g, NEW how \in {"orphan", "gone"},
           Sound(cs, p, f)
    PROVE  Sound(Left(cs, Kind, how), q, g)
<1> DEFINE new == Left(cs, Kind, how)
<1>1. new = [s \in Slot |-> new[s]]
  BY DEF Left
<1>2. ASSUME NEW s \in Slot, cs[s] # None
      PROVE  Good(new[s], q, g) /\ ~ LiveLogin(new[s])
  <2>1. Good(cs[s], p, f)
    BY <1>2 DEF Sound
  <2>2. new[s] = IF cs[s].client # "gone" THEN [cs[s] EXCEPT !.client = how] ELSE cs[s]
    BY <1>2, <2>1 DEF Left, Good
  <2>3. CASE cs[s].client # "gone"
    <3>1. /\ IsCall(new[s]) /\ new[s].client = how /\ new[s].kind = cs[s].kind
          /\ new[s].answer = cs[s].answer /\ new[s].id = cs[s].id
          /\ new[s].arg = cs[s].arg /\ new[s].basis = cs[s].basis
      BY <2>1, <2>2, <2>3 DEF Good, IsCall
    <3>2. QED
      BY <2>1, <3>1 DEF Good, Meant, FitsPage, LiveLogin
  <2>4. CASE cs[s].client = "gone"
    BY <2>1, <2>2, <2>4 DEF Good, FitsPage, LiveLogin
  <2>5. QED
    BY <2>3, <2>4
<1>3. \A s \in Slot : cs[s] = None => new[s] = None
  BY DEF Left
<1> HIDE DEF new
<1>4. QED
  BY <1>1, <1>2, <1>3 DEF Sound, LiveLogin, new

-------------------------------------------------------------------------------
(* The invariant *)

ServerOK ==
    /\ status \in [Case -> CaseStatus]
    /\ \A r \in Reply : replies[r] = None \/
          replies[r] \in [case : Case, status : {"pending_approval", "approved", "rejected"}]
    /\ replies = [r \in Reply |-> replies[r]]
    /\ tokens \in [Token -> {"new", "valid", "expired"}]

IsFilters(f) ==
    /\ f = [status |-> f.status, source |-> f.source, rating |-> f.rating]
    /\ f.source \in Source \cup {""}
    /\ f.rating # "" => f.source = Google

PagesOK ==
    /\ token \in Token \cup {None}
    /\ page \in Page
    /\ token = None <=> page = "login"
    /\ caseId \in Case \cup {None} /\ (caseId # None <=> page = "case")
    /\ inbox = [filters |-> inbox.filters, cases |-> inbox.cases,
                askedFor |-> inbox.askedFor, facets |-> inbox.facets]
    /\ IsFilters(inbox.filters)
    /\ form = [d |-> form.d, err |-> form.err, replyText |-> form.replyText,
               sending |-> form.sending]
    /\ form.replyText \in BOOLEAN /\ form.sending \in BOOLEAN

CallsOK == Sound(calls, page, inbox.filters)

ClientInv == ServerOK /\ PagesOK /\ CallsOK

LEMMA ClientTypes == ClientInv => TypeOK
BY DEF ClientInv, ServerOK, PagesOK, CallsOK, Sound, Good, IsFilters, Page, TypeOK

LEMMA InitClient == Init => ClientInv
<1> SUFFICES ASSUME Init PROVE ClientInv
  OBVIOUS
<1>1. ServerOK
  BY HighAssumption DEF Init, ServerOK, CaseStatus
<1>2. PagesOK
  BY DEF Init, PagesOK, IsFilters, NewInbox, NewForm, EMPTY, Page
<1>3. CallsOK
  BY DEF Init, CallsOK, Sound, LiveLogin
<1>4. QED
  BY <1>1, <1>2, <1>3 DEF ClientInv

-------------------------------------------------------------------------------
(* The server and the network: a call gets its answer, the pages stay. *)

LEMMA AnswerSound ==
    ASSUME ClientInv, NEW s \in Slot, calls[s] # None, NEW a, NEW v, Answer(s, a, v),
           a \in {"ok", "refused", "unauthorized", "lost"}, UNCHANGED pages
    PROVE  CallsOK'
<1> DEFINE y == [calls[s] EXCEPT !.answer = a]
           x == [y EXCEPT !.value = v]
<1>1. Sound(calls, page, inbox.filters) /\ Good(calls[s], page, inbox.filters)
  BY DEF ClientInv, CallsOK, Sound
<1>2. /\ IsCall(x) /\ x.answer = a /\ x.kind = calls[s].kind /\ x.id = calls[s].id
      /\ x.arg = calls[s].arg /\ x.basis = calls[s].basis /\ x.client = calls[s].client
  <2>1. /\ IsCall(y) /\ y.answer = a /\ y.kind = calls[s].kind /\ y.id = calls[s].id
        /\ y.arg = calls[s].arg /\ y.basis = calls[s].basis /\ y.client = calls[s].client
    BY <1>1 DEF Good, IsCall
  <2> HIDE DEF y
  <2>2. QED
    BY <2>1 DEF IsCall
<1>3. calls' = [calls EXCEPT ![s] = x]
  BY <1>1 DEF Answer, Sound
<1> HIDE DEF x
<1>4. Good(x, page, inbox.filters) /\ (LiveLogin(x) => LiveLogin(calls[s]))
  BY <1>1, <1>2 DEF Good, Meant, FitsPage, LiveLogin
<1>5. QED
  BY <1>1, <1>3, <1>4, ReplaceSound DEF CallsOK, pages

LEMMA PagesKept ==
    ASSUME ClientInv, UNCHANGED <<token, pages>>
    PROVE  PagesOK'
BY DEF ClientInv, PagesOK, IsFilters, pages

LEMMA ServerKept ==
    ASSUME ClientInv, UNCHANGED server
    PROVE  ServerOK'
BY DEF ClientInv, ServerOK, server

LEMMA CallsKept ==
    ASSUME ClientInv, UNCHANGED <<pages, calls>>
    PROVE  CallsOK'
BY DEF ClientInv, CallsOK, pages

LEMMA MovesKeep ==
    ASSUME NEW x, x \in CaseStatus
    PROVE  ValidTransitions(x) \subseteq CaseStatus /\ Actions(x) = ValidTransitions(x)
BY DEF ValidTransitions, Actions, CaseStatus

LEMMA ServeKeeps ==
    ASSUME ClientInv, NEW s \in Slot, Serve(s)
    PROVE  ClientInv'
<1>1. calls[s] # None /\ UNCHANGED <<tokens, token, pages, acts, events>>
  BY DEF Serve, Unserved
<1>2. Good(calls[s], page, inbox.filters)
  BY <1>1 DEF ClientInv, CallsOK, Sound
<1>3. CASE calls[s].token = None \/ tokens[calls[s].token] # "valid"
  <2>1. Answer(s, "unauthorized", None) /\ UNCHANGED server
    BY <1>1, <1>3 DEF Serve, server
  <2>2. QED
    BY <1>1, <2>1, AnswerSound, PagesKept, ServerKept DEF ClientInv
<1>4. CASE ~ (calls[s].token = None \/ tokens[calls[s].token] # "valid")
  <2>1. CASE calls[s].kind = "status"
    <3>1. ServeStatus(s)
      BY <1>4, <2>1 DEF Serve
    <3>2. CASE calls[s].arg \in ValidTransitions(status[calls[s].id])
      <4>1. calls[s].id \in Case
        BY <1>2, <2>1 DEF Good, Meant
      <4>2. status' \in [Case -> CaseStatus]
        BY <3>1, <3>2, <4>1, MovesKeep DEF ServeStatus, ClientInv, ServerOK
      <4>3. Answer(s, "ok", None) /\ UNCHANGED <<replies, tokens>>
        BY <1>1, <3>1, <3>2 DEF ServeStatus
      <4>4. ServerOK'
        BY <4>2, <4>3 DEF ClientInv, ServerOK
      <4>5. QED
        BY <1>1, <4>3, <4>4, AnswerSound, PagesKept DEF ClientInv
    <3>3. CASE ~ (calls[s].arg \in ValidTransitions(status[calls[s].id]))
      <4>1. Answer(s, "refused", None) /\ UNCHANGED server
        BY <1>1, <3>1, <3>3 DEF ServeStatus, Refuse, server
      <4>2. QED
        BY <1>1, <4>1, AnswerSound, PagesKept, ServerKept DEF ClientInv
    <3>4. QED
      BY <3>2, <3>3
  <2>2. CASE calls[s].kind = "reply"
    <3>1. ServeReply(s) /\ calls[s].id \in Case
      BY <1>2, <1>4, <2>2 DEF Serve, Good, Meant
    <3>2. PICK r \in Reply : replies' = [replies EXCEPT ![r] =
              [case |-> calls[s].id,
               status |-> IF calls[s].id \in IsHigh THEN "pending_approval" ELSE "approved"]]
      BY <3>1 DEF ServeReply
    <3>3. Answer(s, "ok", None) /\ UNCHANGED <<status, tokens>>
      BY <1>1, <3>1 DEF ServeReply
    <3>4. ServerOK'
      BY <3>1, <3>2, <3>3 DEF ClientInv, ServerOK
    <3>5. QED
      BY <1>1, <3>3, <3>4, AnswerSound, PagesKept DEF ClientInv
  <2>3. CASE calls[s].kind = "decide"
    <3>1. ServeDecision(s) /\ calls[s].arg \in {"approved", "rejected"}
      BY <1>2, <1>4, <2>3 DEF Serve, Good, Meant
    <3>2. CASE calls[s].id \in Pending
      <4>1. /\ calls[s].id \in Reply /\ replies[calls[s].id] # None
            /\ replies' = [replies EXCEPT ![calls[s].id].status = calls[s].arg]
            /\ Answer(s, "ok", None) /\ UNCHANGED <<status, tokens>>
        BY <1>1, <3>1, <3>2 DEF ServeDecision, Pending
      <4>2. ServerOK'
        BY <3>1, <4>1 DEF ClientInv, ServerOK
      <4>3. QED
        BY <1>1, <4>1, <4>2, AnswerSound, PagesKept DEF ClientInv
    <3>3. CASE calls[s].id \notin Pending
      <4>1. Answer(s, "refused", None) /\ UNCHANGED server
        BY <1>1, <3>1, <3>3 DEF ServeDecision, Refuse, server
      <4>2. QED
        BY <1>1, <4>1, AnswerSound, PagesKept, ServerKept DEF ClientInv
    <3>4. QED
      BY <3>2, <3>3
  <2>4. CASE calls[s].kind \notin {"status", "reply", "decide"}
    <3>1. ServeRead(s)
      BY <1>4, <2>4 DEF Serve
    <3>2. PICK v : Answer(s, "ok", v)
      BY <3>1 DEF ServeRead
    <3>3. UNCHANGED server
      BY <1>1, <3>1 DEF ServeRead, server
    <3>4. QED
      BY <1>1, <3>2, <3>3, AnswerSound, PagesKept, ServerKept DEF ClientInv
  <2>5. QED
    BY <2>1, <2>2, <2>3, <2>4
<1>5. QED
  BY <1>3, <1>4

LEMMA OutsideKeeps ==
    ASSUME ClientInv
    PROVE  /\ \A s \in Slot : ServeLogin(s) \/ Lose(s) => ClientInv'
           /\ \A c \in Case : OtherMoves(c) => ClientInv'
           /\ \A r \in Reply : OtherDecides(r) => ClientInv'
           /\ \A k \in Token : Expire(k) => ClientInv'
<1>1. ASSUME NEW s \in Slot, ServeLogin(s) PROVE ClientInv'
  <2>1. calls[s] # None /\ Answer(s, "ok", None) /\ UNCHANGED <<token, pages>>
    BY <1>1 DEF ServeLogin, Unserved
  <2>2. ServerOK'
    BY <1>1 DEF ServeLogin, ClientInv, ServerOK
  <2>3. QED
    BY <2>1, <2>2, AnswerSound, PagesKept DEF ClientInv
<1>2. ASSUME NEW s \in Slot, Lose(s) PROVE ClientInv'
  <2>1. calls[s] # None /\ Answer(s, "lost", None) /\ UNCHANGED <<server, token, pages>>
    BY <1>2 DEF Lose
  <2>2. QED
    BY <2>1, AnswerSound, PagesKept, ServerKept DEF ClientInv
<1>3. ASSUME NEW c \in Case, OtherMoves(c) PROVE ClientInv'
  <2>1. status[c] \in CaseStatus
    BY DEF ClientInv, ServerOK
  <2>2. status' \in [Case -> CaseStatus]
    BY <1>3, <2>1, MovesKeep DEF OtherMoves, ClientInv, ServerOK, CaseStatus
  <2>3. UNCHANGED <<replies, tokens, token, pages, calls>>
    BY <1>3 DEF OtherMoves
  <2>4. ServerOK'
    BY <2>2, <2>3 DEF ClientInv, ServerOK
  <2>5. QED
    BY <2>3, <2>4, PagesKept, CallsKept DEF ClientInv
<1>4. ASSUME NEW r \in Reply, OtherDecides(r) PROVE ClientInv'
  <2>1. UNCHANGED <<status, tokens, token, pages, calls>>
    BY <1>4 DEF OtherDecides
  <2>2. ServerOK'
    BY <1>4, <2>1 DEF OtherDecides, Pending, ClientInv, ServerOK
  <2>3. QED
    BY <2>1, <2>2, PagesKept, CallsKept DEF ClientInv
<1>5. ASSUME NEW k \in Token, Expire(k) PROVE ClientInv'
  <2>1. UNCHANGED <<status, replies, token, pages, calls>>
    BY <1>5 DEF Expire
  <2>2. ServerOK'
    BY <1>5, <2>1 DEF Expire, ClientInv, ServerOK
  <2>3. QED
    BY <2>1, <2>2, PagesKept, CallsKept DEF ClientInv
<1>6. QED
  BY <1>1, <1>2, <1>3, <1>4, <1>5

-------------------------------------------------------------------------------
(* The user: calls are sent, pages are entered. *)

LEMMA RequestGood ==
    ASSUME NEW kind \in Kind, NEW id, NEW arg, NEW basis, NEW p, NEW f,
           kind \in KindsOf(p), kind = "list" => arg = f,
           kind = "login" => id \in Token,
           kind \in {"detail", "status", "reply"} => id \in Case,
           kind = "status" => arg \in Actions(basis[2]),
           kind = "decide" => arg \in {"approved", "rejected"}
    PROVE  /\ Good(Request(kind, id, arg, basis), p, f)
           /\ Request(kind, id, arg, basis).kind = kind
BY DEF Request, Good, IsCall, Meant, FitsPage

LEMMA SendKeeps ==
    ASSUME ClientInv, NEW call, Send(call), Good(call, page, inbox.filters),
           call.kind # "login", page' = page, inbox'.filters = inbox.filters
    PROVE  CallsOK'
<1> DEFINE asked == <<call>>
<1>1. Len(asked) = 1 /\ asked[1] = call
  OBVIOUS
<1>2. calls' = AddAll(calls, asked)
  BY DEF Send, Add
<1> HIDE DEF asked
<1>3. \A i \in 1..Len(asked) : asked[i] = call
  BY <1>1
<1>4. QED
  BY <1>1, <1>2, <1>3, AddSound DEF ClientInv, CallsOK

LEMMA MountGood ==
    ASSUME NEW p \in Page, NEW c, p = "case" => c \in Case
    PROVE  /\ Len(MountCalls(p, c)) \in Nat
           /\ \A i \in 1..Len(MountCalls(p, c)) :
                 /\ Good(MountCalls(p, c)[i], p, EMPTY)
                 /\ MountCalls(p, c)[i].kind # "login"
<1>1. CASE p = "inbox"
  <2>1. MountCalls(p, c) = <<facets, listCases(EMPTY)>>
    BY <1>1 DEF MountCalls
  <2>2. /\ Good(facets, p, EMPTY) /\ facets.kind = "facets"
        /\ Good(listCases(EMPTY), p, EMPTY) /\ listCases(EMPTY).kind = "list"
    BY <1>1, RequestGood DEF facets, listCases, KindsOf, Kind
  <2>3. QED
    BY <2>1, <2>2
<1>2. CASE p = "case"
  <2>1. MountCalls(p, c) = <<caseDetail(c)>>
    BY <1>2 DEF MountCalls
  <2>2. Good(caseDetail(c), p, EMPTY) /\ caseDetail(c).kind = "detail"
    BY <1>2, RequestGood DEF caseDetail, KindsOf, Kind
  <2>3. QED
    BY <2>1, <2>2
<1>3. CASE p = "approvals"
  <2>1. MountCalls(p, c) = <<approvals>>
    BY <1>3 DEF MountCalls
  <2>2. Good(approvals, p, EMPTY) /\ approvals.kind = "approvals"
    BY <1>3, RequestGood DEF approvals, KindsOf, Kind
  <2>3. QED
    BY <2>1, <2>2
<1>4. CASE p = "pipeline"
  <2>1. MountCalls(p, c) = <<pipeline>>
    BY <1>4 DEF MountCalls
  <2>2. Good(pipeline, p, EMPTY) /\ pipeline.kind = "pipeline"
    BY <1>4, RequestGood DEF pipeline, KindsOf, Kind
  <2>3. QED
    BY <2>1, <2>2
<1>5. CASE p \in {"login", "local"}
  <2>1. MountCalls(p, c) = << >>
    BY <1>5 DEF MountCalls
  <2>2. QED
    BY <2>1
<1>6. QED
  BY <1>1, <1>2, <1>3, <1>4, <1>5 DEF Page

\* A page is entered with calls that are sound on it.
LEMMA EnterKeeps ==
    ASSUME NEW p \in Page, NEW c, NEW cs, Enter(p, c, cs), Sound(cs, p, EMPTY),
           p = "case" => c \in Case,
           token' \in Token \cup {None}, token' = None <=> p = "login"
    PROVE  PagesOK' /\ CallsOK' /\ inbox'.cases = None
<1>1. page' = p /\ inbox' = NewInbox /\ form' = NewForm
      /\ caseId' = IF p = "case" THEN c ELSE None
  BY DEF Enter
<1>2. inbox'.filters = EMPTY /\ inbox'.cases = None
  BY <1>1 DEF NewInbox
<1>3. PagesOK'
  BY <1>1, <1>2, NoneAssumption DEF PagesOK, IsFilters, NewInbox, NewForm, EMPTY
<1>4. calls' = AddAll(cs, MountCalls(p, c))
  BY DEF Enter
<1>5. Sound(calls', p, EMPTY)
  BY <1>4, MountGood, AddSound
<1>6. QED
  BY <1>1, <1>2, <1>3, <1>5 DEF CallsOK

LEMMA OrphanedSound ==
    ASSUME ClientInv, NEW p
    PROVE  Sound(Orphaned, p, EMPTY)
BY LeftSound DEF ClientInv, CallsOK, Orphaned

\* The list takes in nothing but what was asked for with its filters.
Takes == inbox'.cases # inbox.cases /\ inbox'.cases # None => inbox'.askedFor = inbox'.filters

LEMMA LeavingKeeps ==
    ASSUME ClientInv
    PROVE  /\ Logout => ClientInv' /\ Takes
           /\ \A p \in {"local", "inbox", "approvals", "pipeline"} : Visit(p) => ClientInv' /\ Takes
           /\ \A c \in Case : VisitCase(c) => ClientInv' /\ Takes
<1>1. ASSUME Logout PROVE ClientInv' /\ Takes
  <2>1. Enter("login", None, Orphaned) /\ token' = None /\ UNCHANGED server
    BY <1>1 DEF Logout
  <2>2. PagesOK' /\ CallsOK' /\ inbox'.cases = None
    BY <2>1, OrphanedSound, EnterKeeps DEF Page
  <2>3. QED
    BY <2>1, <2>2, ServerKept DEF ClientInv, Takes
<1>2. ASSUME NEW p \in {"local", "inbox", "approvals", "pipeline"}, Visit(p)
      PROVE  ClientInv' /\ Takes
  <2>1. Enter(p, None, Orphaned) /\ page # "login" /\ UNCHANGED <<server, token>>
    BY <1>2 DEF Visit
  <2>2. token' \in Token \cup {None} /\ token' # None
    BY <2>1 DEF ClientInv, PagesOK
  <2>3. PagesOK' /\ CallsOK' /\ inbox'.cases = None
    BY <2>1, <2>2, OrphanedSound, EnterKeeps DEF Page
  <2>4. QED
    BY <2>1, <2>3, ServerKept DEF ClientInv, Takes
<1>3. ASSUME NEW c \in Case, VisitCase(c) PROVE ClientInv' /\ Takes
  <2>1. Enter("case", c, Orphaned) /\ page # "login" /\ UNCHANGED <<server, token>>
    BY <1>3 DEF VisitCase
  <2>2. token' \in Token \cup {None} /\ token' # None
    BY <2>1 DEF ClientInv, PagesOK
  <2>3. PagesOK' /\ CallsOK' /\ inbox'.cases = None
    BY <2>1, <2>2, OrphanedSound, EnterKeeps DEF Page
  <2>4. QED
    BY <2>1, <2>3, ServerKept DEF ClientInv, Takes
<1>4. QED
  BY <1>1, <1>2, <1>3

LEMMA LoginSent ==
    ASSUME ClientInv, SubmitLogin
    PROVE  ClientInv'
<1> DEFINE k == CHOOSE k \in Token : tokens[k] = "new"
<1>1. k \in Token /\ page = "login" /\ UNCHANGED <<server, token, pages>>
  BY DEF SubmitLogin
<1>2. calls' = Add(calls, Request("login", k, None, None))
  BY DEF SubmitLogin, Send
<1> HIDE DEF k
<1>3. Good(Request("login", k, None, None), page, inbox.filters)
  BY <1>1, RequestGood DEF KindsOf, Kind
<1>4. \A s \in Slot : ~ LiveLogin(calls[s])
  BY DEF SubmitLogin, LiveLogin
<1>5. Sound(calls', page, inbox.filters)
  BY <1>2, <1>3, <1>4, AddLogin DEF ClientInv, CallsOK
<1>6. QED
  BY <1>1, <1>5, PagesKept, ServerKept DEF ClientInv, CallsOK, pages

\* Lists asked for before do not fit the new filters, and are left behind.
LEMMA ListsLeft ==
    ASSUME NEW cs, NEW p, NEW f, NEW g, Sound(cs, p, f)
    PROVE  Sound(Left(cs, {"list"}, "orphan"), p, g)
<1> DEFINE new == Left(cs, {"list"}, "orphan")
<1>1. new = [s \in Slot |-> new[s]]
  BY DEF Left
<1>2. ASSUME NEW s \in Slot, cs[s] # None
      PROVE  Good(new[s], p, g) /\ (LiveLogin(new[s]) => LiveLogin(cs[s]))
  <2>1. Good(cs[s], p, f)
    BY <1>2 DEF Sound
  <2>2. CASE cs[s].kind = "list" /\ cs[s].client # "gone"
    <3>1. new[s] = [cs[s] EXCEPT !.client = "orphan"]
      BY <1>2, <2>2 DEF Left
    <3>2. /\ IsCall(new[s]) /\ new[s].client = "orphan" /\ new[s].kind = cs[s].kind
          /\ new[s].answer = cs[s].answer /\ new[s].id = cs[s].id
          /\ new[s].arg = cs[s].arg /\ new[s].basis = cs[s].basis
      BY <2>1, <3>1 DEF Good, IsCall
    <3>3. QED
      BY <2>1, <3>2 DEF Good, Meant, FitsPage, LiveLogin
  <2>3. CASE ~ (cs[s].kind = "list" /\ cs[s].client # "gone")
    <3>1. new[s] = cs[s]
      BY <2>3 DEF Left
    <3>2. QED
      BY <2>1, <2>3, <3>1 DEF Good, FitsPage
  <2>4. QED
    BY <2>2, <2>3
<1>3. \A s \in Slot : cs[s] = None => new[s] = None
  BY DEF Left
<1> HIDE DEF new
<1>4. QED
  BY <1>1, <1>2, <1>3 DEF Sound, LiveLogin, new

LEMMA FiltersSet ==
    ASSUME ClientInv, NEW f, IsFilters(f), SetFilters(f)
    PROVE  ClientInv' /\ Takes
<1> DEFINE cs == Left(calls, {"list"}, "orphan")
           asked == <<listCases(f)>>
<1>1. /\ page = "inbox" /\ calls' = AddAll(cs, asked)
      /\ inbox' = [inbox EXCEPT !.filters = f]
      /\ UNCHANGED <<server, token, page, caseId, form>>
  BY DEF SetFilters, Add
<1>2. Sound(cs, page, f)
  BY ListsLeft DEF ClientInv, CallsOK
<1>3. Len(asked) = 1 /\ \A i \in 1..1 : asked[i] = listCases(f)
  OBVIOUS
<1>4. Good(listCases(f), page, f) /\ listCases(f).kind = "list"
  BY <1>1, RequestGood DEF listCases, KindsOf, Kind
<1> HIDE DEF cs, asked
<1>5. Sound(calls', page, f)
  BY <1>1, <1>2, <1>3, <1>4, AddSound
<1>6. /\ inbox'.filters = f /\ inbox'.cases = inbox.cases
      /\ inbox' = [filters |-> inbox'.filters, cases |-> inbox'.cases,
                   askedFor |-> inbox'.askedFor, facets |-> inbox'.facets]
  BY <1>1 DEF ClientInv, PagesOK
<1>7. PagesOK'
  BY <1>1, <1>6 DEF ClientInv, PagesOK, IsFilters
<1>8. QED
  BY <1>1, <1>5, <1>6, <1>7, ServerKept DEF ClientInv, CallsOK, Takes

LEMMA FilterFields ==
    ASSUME NEW f, IsFilters(f), NEW x
    PROVE  /\ [f EXCEPT !.status = x] = [status |-> x, source |-> f.source, rating |-> f.rating]
           /\ [f EXCEPT !.source = x] = [status |-> f.status, source |-> x, rating |-> f.rating]
           /\ [f EXCEPT !.rating = x] = [status |-> f.status, source |-> f.source, rating |-> x]
<1> DEFINE a == f.status
           b == f.source
           d == f.rating
<1>1. f = [status |-> a, source |-> b, rating |-> d]
  BY DEF IsFilters
<1> HIDE DEF a, b, d
<1>2. /\ [f EXCEPT !.status = x] = [status |-> x, source |-> b, rating |-> d]
      /\ [f EXCEPT !.source = x] = [status |-> a, source |-> x, rating |-> d]
      /\ [f EXCEPT !.rating = x] = [status |-> a, source |-> b, rating |-> x]
  BY <1>1
<1>3. QED
  BY <1>2 DEF a, b, d

LEMMA FilteringKeeps ==
    ASSUME ClientInv
    PROVE  /\ \A x \in CaseStatus : PickStatus(x) => ClientInv' /\ Takes
           /\ \A x \in Source \cup {""} : SetSource(x) => ClientInv' /\ Takes
           /\ \A c \in Case : PickRating(RatingOf[c]) => ClientInv' /\ Takes
<1> DEFINE f == inbox.filters
<1>1. IsFilters(f)
  BY DEF ClientInv, PagesOK
<1>2. ASSUME NEW x \in CaseStatus, PickStatus(x) PROVE ClientInv' /\ Takes
  <2>1. IsFilters([f EXCEPT !.status = x])
    BY <1>1, FilterFields DEF IsFilters
  <2>2. QED
    BY <1>2, <2>1, FiltersSet DEF PickStatus
<1>3. ASSUME NEW x \in Source \cup {""}, SetSource(x) PROVE ClientInv' /\ Takes
  <2> DEFINE r == IF x = Google THEN f.rating ELSE ""
             h == [status |-> f.status, source |-> x, rating |-> r]
  <2>2. SetFilters(h)
    BY <1>3 DEF SetSource
  <2>3. IsFilters(h)
    BY <1>1, <1>3 DEF IsFilters
  <2>4. QED
    BY <2>2, <2>3, FiltersSet
<1>4. ASSUME NEW c \in Case, PickRating(RatingOf[c]) PROVE ClientInv' /\ Takes
  <2>1. IsFilters([f EXCEPT !.rating = RatingOf[c]])
    BY <1>1, <1>4, FilterFields DEF IsFilters, PickRating
  <2>2. QED
    BY <1>4, <2>1, FiltersSet DEF PickRating
<1>5. QED
  BY <1>2, <1>3, <1>4

\* The fields of the form that a handler sets.
LEMMA FormFields ==
    ASSUME PagesOK, NEW x
    PROVE  /\ [form EXCEPT !.d = x] = [d |-> x, err |-> form.err,
                  replyText |-> form.replyText, sending |-> form.sending]
           /\ [form EXCEPT !.err = x] = [d |-> form.d, err |-> x,
                  replyText |-> form.replyText, sending |-> form.sending]
           /\ [form EXCEPT !.replyText = x] = [d |-> form.d, err |-> form.err,
                  replyText |-> x, sending |-> form.sending]
<1> DEFINE f == form
           a == form.d
           b == form.err
           c == form.replyText
           z == form.sending
<1>1. f = [d |-> a, err |-> b, replyText |-> c, sending |-> z]
  BY DEF PagesOK
<1> HIDE DEF f, a, b, c, z
<1>2. [f EXCEPT !.d = x] = [d |-> x, err |-> b, replyText |-> c, sending |-> z]
  BY <1>1
<1>3. [f EXCEPT !.err = x] = [d |-> a, err |-> x, replyText |-> c, sending |-> z]
  BY <1>1
<1>4. [f EXCEPT !.replyText = x] = [d |-> a, err |-> b, replyText |-> x, sending |-> z]
  BY <1>1
<1>5. QED
  BY <1>2, <1>3, <1>4, Zenon DEF f, a, b, c, z

\* The same for the values the handlers give: a reply is sent, a call has
\* failed, a reply has been accepted.
LEMMA FormSent ==
    ASSUME PagesOK
    PROVE  [form EXCEPT !.sending = TRUE, !.err = FALSE]
             = [d |-> form.d, err |-> FALSE, replyText |-> form.replyText, sending |-> TRUE]
<1> DEFINE f == form
           a == form.d
           b == form.err
           c == form.replyText
           z == form.sending
           yes == TRUE
           no == FALSE
           g == [f EXCEPT !.sending = yes]
<1>1. f = [d |-> a, err |-> b, replyText |-> c, sending |-> z]
  BY DEF PagesOK
<1>2. [f EXCEPT !.sending = yes, !.err = no] = [g EXCEPT !.err = no]
  BY Zenon
<1> HIDE DEF f, a, b, c, z, yes, no
<1>3. g = [d |-> a, err |-> b, replyText |-> c, sending |-> yes]
  BY <1>1
<1> HIDE DEF g
<1>4. [g EXCEPT !.err = no] = [d |-> a, err |-> no, replyText |-> c, sending |-> yes]
  BY <1>3
<1>5. QED
  BY <1>2, <1>4, Zenon DEF f, a, b, c, z, yes, no

LEMMA FormFailed ==
    ASSUME PagesOK, NEW e
    PROVE  [form EXCEPT !.err = TRUE, !.sending = e]
             = [d |-> form.d, err |-> TRUE, replyText |-> form.replyText, sending |-> e]
<1> DEFINE f == form
           a == form.d
           b == form.err
           c == form.replyText
           z == form.sending
           yes == TRUE
           g == [f EXCEPT !.err = yes]
<1>1. f = [d |-> a, err |-> b, replyText |-> c, sending |-> z]
  BY DEF PagesOK
<1>2. [f EXCEPT !.err = yes, !.sending = e] = [g EXCEPT !.sending = e]
  BY Zenon
<1> HIDE DEF f, a, b, c, z, yes
<1>3. g = [d |-> a, err |-> yes, replyText |-> c, sending |-> z]
  BY <1>1
<1> HIDE DEF g
<1>4. [g EXCEPT !.sending = e] = [d |-> a, err |-> yes, replyText |-> c, sending |-> e]
  BY <1>3
<1>5. QED
  BY <1>2, <1>4, Zenon DEF f, a, b, c, z, yes

LEMMA FormCleared ==
    ASSUME PagesOK
    PROVE  [form EXCEPT !.replyText = FALSE, !.sending = FALSE]
             = [d |-> form.d, err |-> form.err, replyText |-> FALSE, sending |-> FALSE]
<1> DEFINE f == form
           a == form.d
           b == form.err
           c == form.replyText
           z == form.sending
           no == FALSE
           g == [f EXCEPT !.replyText = no]
<1>1. f = [d |-> a, err |-> b, replyText |-> c, sending |-> z]
  BY DEF PagesOK
<1>2. [f EXCEPT !.replyText = no, !.sending = no] = [g EXCEPT !.sending = no]
  BY Zenon
<1> HIDE DEF f, a, b, c, z, no
<1>3. g = [d |-> a, err |-> b, replyText |-> no, sending |-> z]
  BY <1>1
<1> HIDE DEF g
<1>4. [g EXCEPT !.sending = no] = [d |-> a, err |-> b, replyText |-> no, sending |-> no]
  BY <1>3
<1>5. QED
  BY <1>2, <1>4, Zenon DEF f, a, b, c, z, no

\* A handler that only sets the form.
LEMMA FormSet ==
    ASSUME ClientInv, UNCHANGED <<token, page, caseId, inbox>>,
           form' = [d |-> form'.d, err |-> form'.err, replyText |-> form'.replyText,
                    sending |-> form'.sending],
           form'.replyText \in BOOLEAN, form'.sending \in BOOLEAN
    PROVE  PagesOK'
BY DEF ClientInv, PagesOK, IsFilters

LEMMA ActingKeeps ==
    ASSUME ClientInv
    PROVE  /\ \A c \in Case : Jump(c) => ClientInv'
           /\ Poll => ClientInv'
           /\ \A x \in CaseStatus : ClickStatus(x) => ClientInv'
           /\ TypeReply => ClientInv'
           /\ SubmitReply => ClientInv'
           /\ \A r \in Reply, a \in {"approved", "rejected"} : Decide(r, a) => ClientInv'
<1>1. ASSUME NEW c \in Case, Jump(c) PROVE ClientInv'
  <2>1. /\ page = "case" /\ caseId' = c /\ Send(caseDetail(c))
        /\ UNCHANGED <<server, token, page, inbox, form>>
    BY <1>1 DEF Jump
  <2>2. Good(caseDetail(c), page, inbox.filters) /\ caseDetail(c).kind = "detail"
    BY <2>1, RequestGood DEF caseDetail, KindsOf, Kind
  <2>3. PagesOK'
    BY <2>1, NoneAssumption DEF ClientInv, PagesOK, IsFilters
  <2>4. QED
    BY <2>1, <2>2, <2>3, SendKeeps, ServerKept DEF ClientInv
<1>2. ASSUME Poll PROVE ClientInv'
  <2>1. UNCHANGED <<server, token, pages>>
    BY <1>2 DEF Poll
  <2>2. UNCHANGED <<page, inbox>>
    BY <2>1 DEF pages
  <2>3. CASE page = "inbox" /\ Send(listCases(inbox.filters))
    <3>1. /\ Good(listCases(inbox.filters), page, inbox.filters)
          /\ listCases(inbox.filters).kind = "list"
      BY <2>3, RequestGood DEF listCases, KindsOf, Kind
    <3>2. QED
      BY <2>1, <2>2, <2>3, <3>1, SendKeeps, PagesKept, ServerKept DEF ClientInv
  <2>4. CASE page = "approvals" /\ Send(approvals)
    <3>1. Good(approvals, page, inbox.filters) /\ approvals.kind = "approvals"
      BY <2>4, RequestGood DEF approvals, KindsOf, Kind
    <3>2. QED
      BY <2>1, <2>2, <2>4, <3>1, SendKeeps, PagesKept, ServerKept DEF ClientInv
  <2>5. CASE page = "pipeline" /\ Send(pipeline)
    <3>1. Good(pipeline, page, inbox.filters) /\ pipeline.kind = "pipeline"
      BY <2>5, RequestGood DEF pipeline, KindsOf, Kind
    <3>2. QED
      BY <2>1, <2>2, <2>5, <3>1, SendKeeps, PagesKept, ServerKept DEF ClientInv
  <2>6. QED
    BY <1>2, <2>3, <2>4, <2>5 DEF Poll
<1>3. ASSUME NEW x \in CaseStatus, ClickStatus(x) PROVE ClientInv'
  <2> DEFINE basis == <<form.d.id, form.d.status>>
             call == Request("status", caseId, x, basis)
  <2>1. /\ page = "case" /\ x \in Actions(form.d.status) /\ Send(call)
        /\ form' = [form EXCEPT !.err = FALSE]
        /\ UNCHANGED <<server, token, page, caseId, inbox>>
    BY <1>3 DEF ClickStatus
  <2>2. basis[2] = form.d.status
    OBVIOUS
  <2>3. caseId \in Case
    BY <2>1 DEF ClientInv, PagesOK
  <2> HIDE DEF basis
  <2>4. Good(call, page, inbox.filters) /\ call.kind = "status"
    BY <2>1, <2>2, <2>3, RequestGood DEF KindsOf, Kind
  <2>5. CallsOK'
    BY <2>1, <2>4, SendKeeps
  <2>6. PagesOK'
    BY <2>1, FormFields, FormSet DEF ClientInv, PagesOK
  <2>7. QED
    BY <2>1, <2>5, <2>6, ServerKept DEF ClientInv
<1>4. ASSUME TypeReply PROVE ClientInv'
  <2>1. /\ form' = [form EXCEPT !.replyText = TRUE]
        /\ UNCHANGED <<server, token, page, caseId, inbox, calls>>
    BY <1>4 DEF TypeReply
  <2>2. PagesOK'
    BY <2>1, FormFields, FormSet DEF ClientInv, PagesOK
  <2>3. CallsOK'
    BY <2>1 DEF ClientInv, CallsOK
  <2>4. QED
    BY <2>1, <2>2, <2>3, ServerKept DEF ClientInv
<1>5. ASSUME SubmitReply PROVE ClientInv'
  <2> DEFINE call == Request("reply", caseId, None, None)
  <2>1. /\ page = "case" /\ Send(call)
        /\ form' = [form EXCEPT !.sending = TRUE, !.err = FALSE]
        /\ UNCHANGED <<server, token, page, caseId, inbox>>
    BY <1>5 DEF SubmitReply
  <2>2. caseId \in Case
    BY <2>1 DEF ClientInv, PagesOK
  <2>3. Good(call, page, inbox.filters) /\ call.kind = "reply"
    BY <2>1, <2>2, RequestGood DEF KindsOf, Kind
  <2>4. CallsOK'
    BY <2>1, <2>3, SendKeeps
  <2>5. [form EXCEPT !.sending = TRUE, !.err = FALSE]
          = [d |-> form.d, err |-> FALSE, replyText |-> form.replyText, sending |-> TRUE]
    BY FormSent, Zenon DEF ClientInv
  <2>6. PagesOK'
    <3>1. form' = [d |-> form.d, err |-> FALSE, replyText |-> form.replyText, sending |-> TRUE]
      BY <2>1, <2>5, Zenon
    <3>2. QED
      BY <2>1, <3>1, FormSet DEF ClientInv, PagesOK
  <2>7. QED
    BY <2>1, <2>4, <2>6, ServerKept DEF ClientInv
<1>6. ASSUME NEW r \in Reply, NEW a \in {"approved", "rejected"}, Decide(r, a)
      PROVE  ClientInv'
  <2> DEFINE call == Request("decide", r, a, None)
  <2>1. /\ page = "approvals" /\ Send(call)
        /\ UNCHANGED <<server, token, page, caseId, inbox, form>>
    BY <1>6 DEF Decide
  <2>2. Good(call, page, inbox.filters) /\ call.kind = "decide"
    BY <1>6, <2>1, RequestGood DEF KindsOf, Kind
  <2>3. CallsOK'
    BY <2>1, <2>2, SendKeeps
  <2>4. PagesOK'
    BY <2>1 DEF ClientInv, PagesOK, IsFilters
  <2>5. QED
    BY <2>1, <2>3, <2>4, ServerKept DEF ClientInv
<1>7. QED
  BY <1>1, <1>2, <1>3, <1>4, <1>5, <1>6

-------------------------------------------------------------------------------
(* Answers *)

\* A call that has been answered, and what its slot may hold next.
LEMMA DoneSound ==
    ASSUME ClientInv, NEW s \in Slot
    PROVE  Sound(Done(s), page, inbox.filters)
BY ReplaceSound DEF ClientInv, CallsOK, Done, LiveLogin

LEMMA ReloadSound ==
    ASSUME ClientInv, NEW s \in Slot, calls[s] # None, NEW call, Reload(s, call),
           IsCall(call), call.kind \in {"detail", "approvals"}, call.answer = "none",
           Meant(call),
           calls[s].client = "live" => call.kind \in KindsOf(page)
    PROVE  Sound(calls', page, inbox.filters)
<1> DEFINE x == [call EXCEPT !.client = calls[s].client]
<1>1. Good(calls[s], page, inbox.filters)
  BY DEF ClientInv, CallsOK, Sound
<1>2. /\ IsCall(x) /\ x.client = calls[s].client /\ x.kind = call.kind
      /\ x.answer = "none" /\ x.id = call.id
  BY DEF IsCall
<1>3. calls' = [calls EXCEPT ![s] = x]
  BY DEF Reload
<1> HIDE DEF x
<1>4. Good(x, page, inbox.filters) /\ ~ LiveLogin(x)
  BY <1>1, <1>2 DEF Good, Kind, Meant, FitsPage, LiveLogin
<1>5. QED
  BY <1>3, <1>4, ReplaceSound DEF ClientInv, CallsOK

LEMMA ReloadsMeant ==
    /\ \A c \in Case : /\ IsCall(caseDetail(c)) /\ caseDetail(c).kind = "detail"
                       /\ caseDetail(c).answer = "none" /\ Meant(caseDetail(c))
    /\ IsCall(approvals) /\ approvals.kind = "approvals"
    /\ approvals.answer = "none" /\ Meant(approvals)
BY DEF caseDetail, approvals, Request, IsCall, Meant

LEMMA HandledAway ==
    ASSUME ClientInv, NEW s \in Slot, calls[s] # None, UNCHANGED server
    PROVE  /\ Forgotten(s) => ClientInv' /\ Takes
           /\ Unauthorized(s) => ClientInv' /\ Takes
           /\ Ignored(s) => ClientInv' /\ Takes
           /\ LoggedIn(s) => ClientInv' /\ Takes
<1>0. Good(calls[s], page, inbox.filters)
  BY DEF ClientInv, CallsOK, Sound
<1>1. ASSUME Forgotten(s) PROVE ClientInv' /\ Takes
  <2>1. calls' = Done(s) /\ UNCHANGED <<token, pages>>
    BY <1>1 DEF Forgotten
  <2>2. UNCHANGED <<page, inbox>>
    BY <2>1 DEF pages
  <2>3. QED
    BY <2>1, <2>2, DoneSound, PagesKept, ServerKept DEF ClientInv, CallsOK, Takes
<1>2. ASSUME Unauthorized(s) PROVE ClientInv' /\ Takes
  <2>1. token' = None /\ Enter("login", None, Left(Done(s), Kind, "gone"))
    BY <1>2 DEF Unauthorized
  <2>2. Sound(Left(Done(s), Kind, "gone"), "login", EMPTY)
    BY DoneSound, LeftSound
  <2>3. QED
    BY <2>1, <2>2, EnterKeeps, ServerKept DEF ClientInv, Page, Takes
<1>3. ASSUME Ignored(s) PROVE ClientInv' /\ Takes
  <2>1. UNCHANGED <<token, pages>> /\ calls[s].client = "orphan"
    BY <1>3 DEF Ignored
  <2>2. UNCHANGED <<page, inbox>>
    BY <2>1 DEF pages
  <2>3. \/ calls' = Done(s)
        \/ calls[s].kind \in {"status", "reply"} /\ Reload(s, caseDetail(calls[s].id))
        \/ Reload(s, approvals)
    BY <1>3 DEF Ignored
  <2>4. calls[s].kind \in {"status", "reply"} => calls[s].id \in Case
    BY <1>0 DEF Good, Meant
  <2>5. Sound(calls', page, inbox.filters)
    <3>1. CASE calls' = Done(s)
      BY <3>1, DoneSound
    <3>2. CASE calls[s].kind \in {"status", "reply"} /\ Reload(s, caseDetail(calls[s].id))
      BY <2>1, <2>4, <3>2, ReloadsMeant, ReloadSound
    <3>3. CASE Reload(s, approvals)
      BY <2>1, <3>3, ReloadsMeant, ReloadSound
    <3>4. QED
      BY <2>3, <3>1, <3>2, <3>3
  <2>6. QED
    BY <2>1, <2>2, <2>5, PagesKept, ServerKept DEF ClientInv, CallsOK, Takes
<1>4. ASSUME LoggedIn(s) PROVE ClientInv' /\ Takes
  <2>1. /\ calls[s].client = "live" /\ calls[s].kind = "login"
        /\ token' = calls[s].id /\ Enter("local", None, Done(s))
    BY <1>4 DEF LoggedIn, Arrived
  <2>2. page = "login" /\ calls[s].id \in Token
    BY <1>0, <2>1 DEF Good, FitsPage, KindsOf, Meant, ClientInv, PagesOK, Page
  <2>3. ASSUME NEW z \in Slot, Done(s)[z] # None
        PROVE  Done(s)[z] = calls[z] /\ calls[z].client # "live"
    <3>1. Done(s)[z] = calls[z] /\ z # s /\ calls[z] # None
      BY <2>3 DEF Done, ClientInv, CallsOK, Sound
    <3>2. Good(calls[z], page, inbox.filters)
      BY <3>1 DEF ClientInv, CallsOK, Sound
    <3>3. calls[z].client = "live" => calls[z].kind = "login"
      BY <2>2, <3>2 DEF Good, FitsPage, KindsOf
    <3>4. LiveLogin(calls[s])
      BY <2>1 DEF LiveLogin
    <3>5. calls[z].client = "live" => LiveLogin(calls[z])
      BY <3>1, <3>3 DEF LiveLogin
    <3>6. LiveLogin(calls[s]) /\ LiveLogin(calls[z]) => s = z
      BY DEF ClientInv, CallsOK, Sound
    <3>7. QED
      BY <3>1, <3>4, <3>5, <3>6
  <2>4. Sound(Done(s), "local", EMPTY)
    BY <2>3, DoneSound DEF Sound, Good, FitsPage, LiveLogin
  <2>5. QED
    BY <2>1, <2>2, <2>4, EnterKeeps, ServerKept, NoneAssumption DEF ClientInv, Page, Takes
<1>5. QED
  BY <1>1, <1>2, <1>3, <1>4

\* The list is taken in by the inbox whose filters it was asked with.
LEMMA ShownKeeps ==
    ASSUME ClientInv, NEW s \in Slot, calls[s] # None, UNCHANGED server, Shown(s)
    PROVE  ClientInv' /\ Takes
<1>1. calls' = Done(s) /\ UNCHANGED <<token, page, caseId>>
  BY DEF Shown
<1>2. Good(calls[s], page, inbox.filters)
  BY DEF ClientInv, CallsOK, Sound
<1>3. inbox'.filters = inbox.filters /\ Takes
      /\ inbox' = [filters |-> inbox'.filters, cases |-> inbox'.cases,
                   askedFor |-> inbox'.askedFor, facets |-> inbox'.facets]
  <2>1. CASE Arrived(s, "list") /\ inbox' = [inbox EXCEPT !.cases = calls[s].value, !.askedFor = calls[s].arg]
    <3> DEFINE i == [inbox EXCEPT !.cases = calls[s].value]
               v == calls[s].arg
               a == inbox.filters
               b == inbox.askedFor
               d == inbox.facets
               w == calls[s].value
    <3>1. v = a
      BY <1>2, <2>1 DEF Arrived, Good, FitsPage
    <3>2. inbox' = [i EXCEPT !.askedFor = v]
      BY <2>1, Zenon
    <3>3. i = [filters |-> a, cases |-> w, askedFor |-> b, facets |-> d]
      BY DEF ClientInv, PagesOK
    <3> HIDE DEF i, v, a, b, d, w
    <3>4. inbox' = [filters |-> a, cases |-> w, askedFor |-> v, facets |-> d]
      BY <3>2, <3>3
    <3>5. inbox'.filters = a /\ inbox'.askedFor = a
          /\ inbox' = [filters |-> inbox'.filters, cases |-> inbox'.cases,
                       askedFor |-> inbox'.askedFor, facets |-> inbox'.facets]
      BY <3>1, <3>4
    <3>6. QED
      BY <3>5 DEF a, Takes
  <2>2. CASE inbox' = [inbox EXCEPT !.facets = TRUE]
    BY <2>2 DEF ClientInv, PagesOK, Takes
  <2>3. CASE UNCHANGED inbox
    BY <2>3 DEF ClientInv, PagesOK, Takes
  <2>4. QED
    BY <2>1, <2>2, <2>3 DEF Shown
<1>4. form' = [d |-> form'.d, err |-> form'.err, replyText |-> form'.replyText,
               sending |-> form'.sending]
      /\ form'.replyText = form.replyText /\ form'.sending = form.sending
  <2>1. CASE form' = [form EXCEPT !.d = calls[s].value]
    BY <2>1 DEF ClientInv, PagesOK
  <2>2. CASE UNCHANGED form
    BY <2>2 DEF ClientInv, PagesOK
  <2>3. QED
    BY <2>1, <2>2 DEF Shown
<1>5. PagesOK'
  BY <1>1, <1>3, <1>4 DEF ClientInv, PagesOK, IsFilters
<1>6. QED
  BY <1>1, <1>3, <1>5, DoneSound, ServerKept DEF ClientInv, CallsOK

LEMMA FailedKeeps ==
    ASSUME ClientInv, NEW s \in Slot, calls[s] # None, UNCHANGED server, Failed(s)
    PROVE  ClientInv' /\ Takes
<1> DEFINE e == IF calls[s].kind = "reply" THEN FALSE ELSE form.sending
<1>1. calls' = Done(s) /\ UNCHANGED <<token, page, caseId, inbox>>
  BY DEF Failed
<1>2. form' = [form EXCEPT !.err = TRUE, !.sending = e] \/ form' = form
  BY Zenon DEF Failed
<1>3. e \in BOOLEAN
  BY DEF ClientInv, PagesOK
<1> HIDE DEF e
<1>4. [form EXCEPT !.err = TRUE, !.sending = e]
        = [d |-> form.d, err |-> TRUE, replyText |-> form.replyText, sending |-> e]
  BY FormFailed, Zenon DEF ClientInv
<1>5. PagesOK'
  <2>1. CASE form' = [form EXCEPT !.err = TRUE, !.sending = e]
    <3>1. form' = [d |-> form.d, err |-> TRUE, replyText |-> form.replyText, sending |-> e]
      BY <1>4, <2>1, Zenon
    <3>2. QED
      BY <1>1, <1>3, <3>1, FormSet DEF ClientInv, PagesOK
  <2>2. CASE form' = form
    BY <1>1, <2>2 DEF ClientInv, PagesOK, IsFilters
  <2>3. QED
    BY <1>2, <2>1, <2>2
<1>6. QED
  BY <1>1, <1>5, DoneSound, ServerKept DEF ClientInv, CallsOK, Takes

LEMMA ActedKeeps ==
    ASSUME ClientInv, NEW s \in Slot, calls[s] # None, UNCHANGED server, Acted(s)
    PROVE  ClientInv' /\ Takes
<1>1. UNCHANGED <<token, page, caseId, inbox>>
  BY DEF Acted
<1>2. Good(calls[s], page, inbox.filters) /\ calls[s].client = "live" /\ page \in Page
  BY DEF ClientInv, CallsOK, PagesOK, Sound, Acted, Arrived
<1>3. \/ calls[s].kind \in {"status", "reply"} /\ Reload(s, caseDetail(calls[s].id))
      \/ calls[s].kind = "decide" /\ Reload(s, approvals)
  BY DEF Acted, Arrived
<1>4. Sound(calls', page, inbox.filters)
  <2>1. CASE calls[s].kind \in {"status", "reply"} /\ Reload(s, caseDetail(calls[s].id))
    <3>1. calls[s].id \in Case /\ page = "case"
      BY <1>2, <2>1 DEF Good, Meant, FitsPage, KindsOf, Page
    <3>2. "detail" \in KindsOf(page)
      BY <3>1 DEF KindsOf
    <3>3. QED
      BY <2>1, <3>1, <3>2, ReloadsMeant, ReloadSound
  <2>2. CASE calls[s].kind = "decide" /\ Reload(s, approvals)
    <3>1. "approvals" \in KindsOf(page)
      BY <1>2, <2>2 DEF Good, FitsPage, KindsOf, Page
    <3>2. QED
      BY <2>2, <3>1, ReloadsMeant, ReloadSound
  <2>3. QED
    BY <1>3, <2>1, <2>2
<1>5. PagesOK'
  <2>1. CASE form' = [form EXCEPT !.replyText = FALSE, !.sending = FALSE]
    <3>1. [form EXCEPT !.replyText = FALSE, !.sending = FALSE]
            = [d |-> form.d, err |-> form.err, replyText |-> FALSE, sending |-> FALSE]
      BY FormCleared, Zenon DEF ClientInv
    <3>2. form' = [d |-> form.d, err |-> form.err, replyText |-> FALSE, sending |-> FALSE]
      BY <2>1, <3>1, Zenon
    <3>3. QED
      BY <1>1, <3>2, FormSet
  <2>2. CASE form' = form
    BY <1>1, <2>2 DEF ClientInv, PagesOK, IsFilters
  <2>3. QED
    BY <2>1, <2>2 DEF Acted
<1>6. QED
  BY <1>1, <1>4, <1>5, ServerKept DEF ClientInv, CallsOK, Takes

LEMMA DeliverKeeps ==
    ASSUME ClientInv, NEW s \in Slot, Deliver(s)
    PROVE  ClientInv' /\ Takes
<1>1. calls[s] # None /\ UNCHANGED server
  BY DEF Deliver
<1>2. QED
  BY <1>1, HandledAway, ShownKeeps, FailedKeeps, ActedKeeps DEF Deliver

-------------------------------------------------------------------------------
(* Steps *)

LEMMA NextKeeps == ClientInv /\ [Next]_vars => ClientInv' /\ Takes
<1> SUFFICES ASSUME ClientInv, [Next]_vars PROVE ClientInv' /\ Takes
  OBVIOUS
<1>1. ASSUME NEW s \in Slot, ServeLogin(s) \/ Serve(s) \/ Lose(s) PROVE ClientInv' /\ Takes
  <2>1. UNCHANGED inbox
    BY <1>1 DEF ServeLogin, Serve, Lose, pages
  <2>2. QED
    BY <1>1, <2>1, OutsideKeeps, ServeKeeps DEF Takes
<1>2. ASSUME NEW s \in Slot, Deliver(s) PROVE ClientInv' /\ Takes
  BY <1>2, DeliverKeeps
<1>3. ASSUME NEW c \in Case, OtherMoves(c) \/ VisitCase(c) \/ Jump(c) PROVE ClientInv' /\ Takes
  <2>1. CASE VisitCase(c)
    BY <2>1, LeavingKeeps
  <2>2. CASE OtherMoves(c) \/ Jump(c)
    <3>1. UNCHANGED inbox
      BY <2>2 DEF OtherMoves, Jump, pages
    <3>2. QED
      BY <2>2, <3>1, OutsideKeeps, ActingKeeps DEF Takes
  <2>3. QED
    BY <1>3, <2>1, <2>2
<1>4. ASSUME NEW r \in Reply, OtherDecides(r) PROVE ClientInv' /\ Takes
  <2>1. UNCHANGED inbox
    BY <1>4 DEF OtherDecides, pages
  <2>2. QED
    BY <1>4, <2>1, OutsideKeeps DEF Takes
<1>5. ASSUME NEW r \in Reply, NEW a \in {"approved", "rejected"}, Decide(r, a)
      PROVE  ClientInv' /\ Takes
  <2>1. UNCHANGED inbox
    BY <1>5 DEF Decide
  <2>2. QED
    BY <1>5, <2>1, ActingKeeps DEF Takes
<1>6. ASSUME NEW k \in Token, Expire(k) PROVE ClientInv' /\ Takes
  <2>1. UNCHANGED inbox
    BY <1>6 DEF Expire, pages
  <2>2. QED
    BY <1>6, <2>1, OutsideKeeps DEF Takes
<1>7. ASSUME NEW p \in {"local", "inbox", "approvals", "pipeline"}, Visit(p)
      PROVE  ClientInv' /\ Takes
  BY <1>7, LeavingKeeps
<1>8. ASSUME NEW x \in CaseStatus, PickStatus(x) \/ ClickStatus(x) PROVE ClientInv' /\ Takes
  <2>1. CASE PickStatus(x)
    BY <2>1, FilteringKeeps
  <2>2. CASE ClickStatus(x)
    <3>1. UNCHANGED inbox
      BY <2>2 DEF ClickStatus
    <3>2. QED
      BY <2>2, <3>1, ActingKeeps DEF Takes
  <2>3. QED
    BY <1>8, <2>1, <2>2
<1>9. ASSUME NEW x \in Source \cup {""}, SetSource(x) PROVE ClientInv' /\ Takes
  BY <1>9, FilteringKeeps
<1>10. ASSUME NEW c \in Case, PickRating(RatingOf[c]) PROVE ClientInv' /\ Takes
  BY <1>10, FilteringKeeps
<1>11. CASE Logout
  BY <1>11, LeavingKeeps
<1>12. CASE SubmitLogin \/ Poll \/ TypeReply \/ SubmitReply
  <2>1. UNCHANGED inbox
    BY <1>12 DEF SubmitLogin, Poll, TypeReply, SubmitReply, pages
  <2>2. QED
    BY <1>12, <2>1, LoginSent, ActingKeeps DEF Takes
<1>13. CASE UNCHANGED vars
  <2>1. UNCHANGED <<server, token, pages, calls>> /\ UNCHANGED inbox
    BY <1>13 DEF vars, pages
  <2>2. QED
    BY <2>1, PagesKept, ServerKept, CallsKept DEF ClientInv, Takes
<1>14. QED
  BY <1>1, <1>2, <1>3, <1>4, <1>5, <1>6, <1>7, <1>8, <1>9, <1>10, <1>11, <1>12, <1>13
     DEF Next

\* The invariant of the tab and the server: every call in flight is about what
\* its kind is about, a live one belongs to the page shown, and a live list call
\* was asked for with the filters the inbox has.
THEOREM ClientInvariant == Spec => []ClientInv
<1>1. Init => ClientInv
  BY InitClient
<1>2. ClientInv /\ [Next]_vars => ClientInv'
  BY NextKeeps
<1>3. QED
  BY <1>1, <1>2, PTL DEF Spec

\* The types, and that only the login page is shown to who holds no token.
THEOREM TypeCorrect == Spec => []TypeOK
BY ClientInvariant, ClientTypes, PTL

\* The inbox takes in no list asked for with other filters than it now has
\* (Inbox.tsx: the effect's cleanup drops what is late).
THEOREM ListsForFilters == Spec => ListIsForFilters
<1>1. ClientInv /\ [Next]_vars
        => [inbox'.cases # inbox.cases /\ inbox'.cases # None
              => inbox'.askedFor = inbox'.filters]_vars
  BY NextKeeps DEF Takes
<1>2. QED
  BY <1>1, ClientInvariant, PTL DEF Spec, ListIsForFilters

-------------------------------------------------------------------------------
(* Refusals *)

\* Nothing unanswered in calls has a refusal in cs.
NoneRefused(cs) ==
    \A s \in Slot : calls[s] # None /\ calls[s].answer = "none" /\ cs[s] # None
                       => cs[s].answer # "refused"

LEMMA AddRefusesNone ==
    ASSUME NEW cs, NoneRefused(cs), NEW asked, Len(asked) \in Nat,
           \A i \in 1..Len(asked) : asked[i].answer = "none"
    PROVE  NoneRefused(AddAll(cs, asked))
BY AddedSlot DEF NoneRefused

LEMMA CallsRefuseNone ==
    ASSUME ClientInv, NEW kinds, NEW how, NEW s \in Slot
    PROVE  /\ NoneRefused(calls) /\ NoneRefused(Done(s))
           /\ NoneRefused(Left(calls, kinds, how)) /\ NoneRefused(Left(Done(s), kinds, how))
<1>1. Sound(calls, page, inbox.filters) /\ Sound(Done(s), page, inbox.filters)
  BY DoneSound DEF ClientInv, CallsOK
<1>2. NoneRefused(calls) /\ NoneRefused(Done(s))
  BY <1>1 DEF NoneRefused, Done, Sound
<1>3. ASSUME NEW cs, Sound(cs, page, inbox.filters), NoneRefused(cs)
      PROVE  NoneRefused(Left(cs, kinds, how))
  <2> DEFINE new == Left(cs, kinds, how)
  <2>1. ASSUME NEW z \in Slot, new[z] # None
        PROVE  cs[z] # None /\ new[z].answer = cs[z].answer
    <3>1. cs[z] # None /\ (new[z] = cs[z] \/ new[z] = [cs[z] EXCEPT !.client = how])
      BY <2>1 DEF Left
    <3>2. IsCall(cs[z])
      BY <1>3, <3>1 DEF Sound, Good
    <3>3. QED
      BY <3>1, <3>2 DEF IsCall
  <2>2. QED
    BY <1>3, <2>1 DEF NoneRefused
<1>4. QED
  BY <1>1, <1>2, <1>3

LEMMA SendRefusesNone ==
    ASSUME ClientInv, NEW call, Send(call), call.answer = "none"
    PROVE  NoneRefused(calls')
<1> DEFINE asked == <<call>>
<1>1. Len(asked) = 1 /\ asked[1] = call
  OBVIOUS
<1>2. calls' = AddAll(calls, asked)
  BY DEF Send, Add
<1> HIDE DEF asked
<1>3. \A i \in 1..Len(asked) : asked[i].answer = "none"
  BY <1>1
<1>4. NoneRefused(calls)
  BY DEF NoneRefused
<1>5. QED
  BY <1>1, <1>2, <1>3, <1>4, AddRefusesNone

LEMMA RequestNew ==
    ASSUME NEW kind, NEW id, NEW arg, NEW basis
    PROVE  Request(kind, id, arg, basis).answer = "none"
BY DEF Request

LEMMA EnterRefusesNone ==
    ASSUME NEW p \in Page, NEW c, NEW cs, Enter(p, c, cs), NoneRefused(cs)
    PROVE  NoneRefused(calls')
<1> DEFINE asked == MountCalls(p, c)
<1>1. calls' = AddAll(cs, asked)
  BY DEF Enter
<1>2. Len(asked) \in Nat /\ \A i \in 1..Len(asked) : asked[i].answer = "none"
  <2>1. CASE p = "inbox"
    <3>1. asked = <<facets, listCases(EMPTY)>>
      BY <2>1 DEF MountCalls
    <3>2. facets.answer = "none" /\ listCases(EMPTY).answer = "none"
      BY RequestNew DEF facets, listCases
    <3>3. QED
      BY <3>1, <3>2
  <2>2. CASE p = "case"
    <3>1. asked = <<caseDetail(c)>> /\ caseDetail(c).answer = "none"
      BY <2>2, RequestNew DEF MountCalls, caseDetail
    <3>2. QED
      BY <3>1
  <2>3. CASE p = "approvals"
    <3>1. asked = <<approvals>> /\ approvals.answer = "none"
      BY <2>3, RequestNew DEF MountCalls, approvals
    <3>2. QED
      BY <3>1
  <2>4. CASE p = "pipeline"
    <3>1. asked = <<pipeline>> /\ pipeline.answer = "none"
      BY <2>4, RequestNew DEF MountCalls, pipeline
    <3>2. QED
      BY <3>1
  <2>5. CASE p \in {"login", "local"}
    <3>1. asked = << >>
      BY <2>5 DEF MountCalls
    <3>2. QED
      BY <3>1
  <2>6. QED
    BY <2>1, <2>2, <2>3, <2>4, <2>5 DEF Page
<1> HIDE DEF asked
<1>3. QED
  BY <1>1, <1>2, AddRefusesNone

LEMMA ReloadRefusesNone ==
    ASSUME ClientInv, NEW s \in Slot, NEW call, Reload(s, call), IsCall(call),
           call.answer = "none"
    PROVE  NoneRefused(calls')
<1> DEFINE x == [call EXCEPT !.client = calls[s].client]
<1>1. x.answer = "none"
  BY DEF IsCall
<1>2. calls' = [calls EXCEPT ![s] = x]
  BY DEF Reload
<1> HIDE DEF x
<1>3. QED
  BY <1>1, <1>2 DEF NoneRefused, ClientInv, CallsOK, Sound

LEMMA AnswerRefuses ==
    ASSUME ClientInv, NEW s \in Slot, calls[s] # None, NEW a, NEW v, Answer(s, a, v)
    PROVE  /\ a # "refused" => NoneRefused(calls')
           /\ \A z \in Slot : z # s => calls'[z] = calls[z]
<1> DEFINE y == [calls[s] EXCEPT !.answer = a]
           x == [y EXCEPT !.value = v]
<1>1. IsCall(calls[s]) /\ calls = [z \in Slot |-> calls[z]]
  BY DEF ClientInv, CallsOK, Sound, Good
<1>2. x.answer = a
  <2>1. IsCall(y) /\ y.answer = a
    BY <1>1 DEF IsCall
  <2> HIDE DEF y
  <2>2. QED
    BY <2>1 DEF IsCall
<1>3. calls' = [calls EXCEPT ![s] = x]
  BY <1>1 DEF Answer
<1> HIDE DEF x
<1>4. QED
  BY <1>1, <1>2, <1>3 DEF NoneRefused

\* A refusal is only made to a button of a view that was stale.
Stale(s) == calls[s].basis # <<calls[s].id, status[calls[s].id]>>

LEMMA ServeRefuses ==
    ASSUME ClientInv, NEW s \in Slot, Serve(s), calls[s].kind = "status",
           calls'[s] # None, calls'[s].answer = "refused"
    PROVE  Stale(s)
<1> SUFFICES ASSUME calls[s].basis = <<calls[s].id, status[calls[s].id]>> PROVE FALSE
  BY DEF Stale
<1>1. calls[s] # None /\ calls[s].answer = "none" /\ Good(calls[s], page, inbox.filters)
  BY DEF Serve, Unserved, ClientInv, CallsOK, Sound
<1>2. calls[s].id \in Case /\ calls[s].arg \in Actions(status[calls[s].id])
  BY <1>1 DEF Good, Meant
<1>3. calls[s].arg \in ValidTransitions(status[calls[s].id])
  BY <1>2, MovesKeep DEF ClientInv, ServerOK
<1>4. Answer(s, "unauthorized", None) \/ Answer(s, "ok", None)
  BY <1>3 DEF Serve, ServeStatus
<1>5. NoneRefused(calls')
  BY <1>1, <1>4, AnswerRefuses
<1>6. QED
  BY <1>1, <1>5 DEF NoneRefused

LEMMA DeliverRefusesNone ==
    ASSUME ClientInv, NEW s \in Slot, Deliver(s)
    PROVE  NoneRefused(calls')
<1>1. calls[s] # None /\ Good(calls[s], page, inbox.filters)
  BY DEF Deliver, ClientInv, CallsOK, Sound
<1>2. CASE calls' = Done(s)
  BY <1>2, CallsRefuseNone
<1>3. CASE \E c \in Case : Reload(s, caseDetail(c))
  BY <1>3, ReloadsMeant, ReloadRefusesNone
<1>4. CASE Reload(s, approvals)
  BY <1>4, ReloadsMeant, ReloadRefusesNone
<1>5. CASE Enter("login", None, Left(Done(s), Kind, "gone"))
  BY <1>5, CallsRefuseNone, EnterRefusesNone DEF Page
<1>6. CASE Enter("local", None, Done(s))
  BY <1>6, CallsRefuseNone, EnterRefusesNone DEF Page
<1>7. calls[s].kind \in {"status", "reply"} => calls[s].id \in Case
  BY <1>1 DEF Good, Meant
<1>8. CASE Ignored(s)
  BY <1>2, <1>3, <1>4, <1>7, <1>8 DEF Ignored
<1>9. CASE Acted(s)
  BY <1>3, <1>4, <1>7, <1>9 DEF Acted, Arrived
<1>10. QED
  BY <1>2, <1>5, <1>6, <1>8, <1>9 DEF Deliver, Forgotten, Unauthorized, Failed, Shown, LoggedIn

LEMMA StepRefuses ==
    ClientInv /\ [Next]_vars
      => NoneRefused(calls')
           \/ \E s \in Slot : Serve(s) /\ \A z \in Slot : z # s => calls'[z] = calls[z]
<1> SUFFICES ASSUME ClientInv, [Next]_vars,
                    ~ \E s \in Slot : Serve(s) /\ \A z \in Slot : z # s => calls'[z] = calls[z]
             PROVE  NoneRefused(calls')
  OBVIOUS
<1>1. ASSUME NEW s \in Slot, ServeLogin(s) \/ Lose(s) PROVE NoneRefused(calls')
  <2>1. calls[s] # None /\ (Answer(s, "ok", None) \/ Answer(s, "lost", None))
    BY <1>1 DEF ServeLogin, Lose, Unserved
  <2>2. QED
    BY <2>1, AnswerRefuses
<1>2. ASSUME NEW s \in Slot, Serve(s) PROVE FALSE
  <2>1. calls[s] # None /\ \E a, v : Answer(s, a, v)
    BY <1>2, Zenon DEF Serve, Unserved, ServeStatus, ServeReply, ServeDecision, ServeRead, Refuse
  <2>2. QED
    BY <1>2, <2>1, AnswerRefuses
<1>3. ASSUME UNCHANGED calls PROVE NoneRefused(calls')
  BY <1>3 DEF NoneRefused
<1>4. ASSUME NEW s \in Slot, Deliver(s) PROVE NoneRefused(calls')
  BY <1>4, DeliverRefusesNone
<1>5. ASSUME NEW p \in Page, NEW c, Enter(p, c, Orphaned) PROVE NoneRefused(calls')
  <2>1. NoneRefused(Orphaned)
    <3>1. CASE Slot = {}
      BY <3>1 DEF NoneRefused
    <3>2. CASE \E s : s \in Slot
      BY <3>2, CallsRefuseNone DEF Orphaned
    <3>3. QED
      BY <3>1, <3>2
  <2>2. QED
    BY <1>5, <2>1, EnterRefusesNone
<1>6. ASSUME NEW f, SetFilters(f) PROVE NoneRefused(calls')
  <2> DEFINE cs == Left(calls, {"list"}, "orphan")
             asked == <<listCases(f)>>
  <2>1. Len(asked) = 1 /\ asked[1] = listCases(f) /\ calls' = AddAll(cs, asked)
        /\ Free(cs) # {}
    BY <1>6 DEF SetFilters, Add
  <2>2. \E s : s \in Slot
    BY <2>1 DEF Free
  <2>3. NoneRefused(cs)
    BY <2>2, CallsRefuseNone
  <2>4. listCases(f).answer = "none"
    BY RequestNew DEF listCases
  <2> HIDE DEF cs, asked
  <2>5. \A i \in 1..Len(asked) : asked[i].answer = "none"
    BY <2>1, <2>4
  <2>6. QED
    BY <2>1, <2>3, <2>5, AddRefusesNone
<1>7. ASSUME NEW kind, NEW id, NEW arg, NEW basis, Send(Request(kind, id, arg, basis))
      PROVE  NoneRefused(calls')
  BY <1>7, RequestNew, SendRefusesNone
<1>8. CASE \/ \E c \in Case : OtherMoves(c)
           \/ \E r \in Reply : OtherDecides(r)
           \/ \E k \in Token : Expire(k)
           \/ TypeReply
           \/ UNCHANGED vars
  BY <1>3, <1>8 DEF OtherMoves, OtherDecides, Expire, TypeReply, vars
<1>9. CASE Logout \/ \E p \in {"local", "inbox", "approvals", "pipeline"} : Visit(p)
  BY <1>5, <1>9 DEF Logout, Visit, Page
<1>10. CASE \E c \in Case : VisitCase(c)
  BY <1>5, <1>10 DEF VisitCase, Page
<1>11. CASE \/ \E x \in CaseStatus : PickStatus(x)
            \/ \E x \in Source \cup {""} : SetSource(x)
            \/ \E c \in Case : PickRating(RatingOf[c])
  BY <1>6, <1>11 DEF PickStatus, SetSource, PickRating
<1>12. CASE \/ SubmitLogin
            \/ \E c \in Case : Jump(c)
            \/ Poll
  BY <1>7, <1>12 DEF SubmitLogin, Jump, Poll, caseDetail, listCases, approvals, pipeline
<1>13. CASE \/ \E x \in CaseStatus : ClickStatus(x)
            \/ SubmitReply
            \/ \E r \in Reply, a \in {"approved", "rejected"} : Decide(r, a)
  BY <1>7, <1>13 DEF ClickStatus, SubmitReply, Decide
<1>14. QED
  BY <1>1, <1>2, <1>4, <1>8, <1>9, <1>10, <1>11, <1>12, <1>13 DEF Next

\* A button is refused only to a stale view (CaseDetail.tsx: the table of actions
\* is the server's own).
THEOREM RefusalsAreStale == Spec => RefusedMeansStale
<1> DEFINE Refused(s) == calls[s] # None /\ calls'[s] # None /\ calls[s].kind = "status"
                           /\ calls[s].answer = "none" /\ calls'[s].answer = "refused"
<1>1. ClientInv /\ [Next]_vars
        => [\A s \in Slot : Refused(s) => calls[s].basis # <<calls[s].id, status[calls[s].id]>>]_vars
  <2> SUFFICES ASSUME ClientInv, [Next]_vars, NEW s \in Slot, Refused(s)
               PROVE  Stale(s)
    BY DEF Stale
  <2>1. ~ NoneRefused(calls')
    BY DEF NoneRefused
  <2>2. PICK y \in Slot : Serve(y) /\ \A z \in Slot : z # y => calls'[z] = calls[z]
    BY <2>1, StepRefuses
  <2>3. y = s
    BY <2>2
  <2>4. QED
    BY <2>2, <2>3, ServeRefuses
<1>2. QED
  BY <1>1, ClientInvariant, PTL DEF Spec, RefusedMeansStale

-------------------------------------------------------------------------------
(* Sending a reply *)

\* The replies on their way that the case page waits for.
Replies(cs) == {s \in Slot : cs[s] # None /\ cs[s].kind = "reply" /\ cs[s].client = "live"}

\* The case page waits for one reply while its form is sending, and for none
\* when it is not.
SendingIsOneReply ==
    IF form.sending THEN \E s \in Slot : Replies(calls) = {s} ELSE Replies(calls) = {}

\* Numbers have a least one.
LEMMA LeastNumber ==
    ASSUME NEW S, S \subseteq Nat, S # {}
    PROVE  \E x \in S : \A y \in S : x <= y
<1> DEFINE R == OpToRel(<, Nat)
<1>1. IsWellFoundedOn(R, Nat)
  BY NatLessThanWellFounded, Zenon
<1>2. \A p \in Nat \X Nat : p \in R <=> p[1] < p[2]
  BY DEF OpToRel
<1> HIDE DEF R
<1>3. \E x \in S : \A y \in S : ~ (<<y, x>> \in R)
  BY <1>1, WFMin, Zenon
<1>4. \A x \in S, y \in S : <<y, x>> \in R <=> y < x
  BY <1>2
<1>5. \A x \in S, y \in S : ~ (y < x) => x <= y
  OBVIOUS
<1>6. QED
  BY <1>3, <1>4, <1>5

\* A call for which there is room is in flight: it takes the first free slot.
LEMMA CallIsAdded ==
    ASSUME NEW cs, NEW call, Free(cs) # {}
    PROVE  \E s \in Slot : Add(cs, call)[s] = call
<1> DEFINE place(z) == Cardinality({x \in Free(cs) : x <= z})
           asked == <<call>>
<1>1. Free(cs) \subseteq Slot /\ Free(cs) \subseteq Nat
  BY BoundAssumption DEF Free, Slot
<1>2. PICK s \in Free(cs) : \A y \in Free(cs) : s <= y
  BY <1>1, LeastNumber
<1>3. {x \in Free(cs) : x <= s} = {s}
  <2>1. \A x \in Free(cs) : x <= s => x = s
    BY <1>1, <1>2
  <2>2. s <= s
    BY <1>1
  <2>3. QED
    BY <2>1, <2>2
<1>4. place(s) = 1
  BY <1>3, FS_Singleton
<1>5. cs[s] = None /\ s \in Slot
  BY DEF Free
<1>6. Len(asked) = 1 /\ asked[1] = call
  OBVIOUS
<1>7. Add(cs, call)[s] = IF cs[s] = None /\ place(s) <= Len(asked)
                         THEN asked[place(s)] ELSE cs[s]
  BY <1>5 DEF Add, AddAll
<1> HIDE DEF asked, place
<1>8. QED
  BY <1>4, <1>5, <1>6, <1>7

\* Of the replies in cs those of some slots are gone in new, the others untouched.
Fewer(new, cs, gone) ==
    Replies(new) = Replies(cs) \ gone /\ \A s \in Replies(new) : new[s] = cs[s]

\* Other calls that are made change nothing for the replies.
LEMMA AddedReplies ==
    ASSUME NEW cs, NEW asked, Len(asked) \in Nat,
           \A i \in 1..Len(asked) : asked[i].kind # "reply"
    PROVE  Fewer(AddAll(cs, asked), cs, {})
<1> DEFINE new == AddAll(cs, asked)
<1>1. \A s \in Slot : new[s] = cs[s] \/ (cs[s] = None /\ new[s].kind # "reply")
  BY AddedSlot
<1> HIDE DEF new
<1>2. Fewer(new, cs, {})
  BY <1>1 DEF Replies, Fewer
<1>3. QED
  BY <1>2 DEF new

\* A reply that is made when there is none is the only one.
LEMMA ReplyAdded ==
    ASSUME NEW cs, NEW call \in ReplyCall, call.client = "live",
           Free(cs) # {}, Replies(cs) = {}
    PROVE  /\ \E s \in Slot : Replies(Add(cs, call)) = {s}
           /\ \A s \in Replies(Add(cs, call)) : Add(cs, call)[s] \in ReplyCall
<1>1. PICK s \in Slot : Add(cs, call)[s] = call
  BY CallIsAdded
<1>2. call # None /\ call.kind = "reply"
  BY ReplyAssumption DEF ReplyCall
<1> DEFINE new == Add(cs, call)
<1>3. \A z \in Slot : z \in Replies(new) => new[z] # cs[z]
  BY DEF Replies
<1>4. s \in Replies(new) /\ Replies(new) \subseteq Slot
  BY <1>1, <1>2 DEF Replies
<1>5. \A z \in Slot : z \in Replies(new) => z = s
  BY <1>3, <1>4, AddedOnce
<1>6. new[s] \in ReplyCall
  BY <1>1
<1> HIDE DEF new
<1>7. Replies(new) = {s}
  BY <1>4, <1>5
<1>8. QED
  BY <1>6, <1>7 DEF new

\* What a call is when it is left behind.
LEMMA LeftCall ==
    ASSUME NEW cs, NEW p, NEW f, Sound(cs, p, f), NEW how \in {"orphan", "gone"},
           NEW kinds, NEW s \in Slot
    PROVE  /\ cs[s] = None => Left(cs, kinds, how)[s] = None
           /\ cs[s] # None =>
                /\ Left(cs, kinds, how)[s].kind = cs[s].kind
                /\ cs[s].kind \in kinds => Left(cs, kinds, how)[s].client # "live"
                /\ cs[s].kind \notin kinds => Left(cs, kinds, how)[s] = cs[s]
<1> DEFINE x == Left(cs, kinds, how)[s]
<1>1. x = IF cs[s] # None /\ cs[s].kind \in kinds /\ cs[s].client # "gone"
          THEN [cs[s] EXCEPT !.client = how] ELSE cs[s]
  BY DEF Left
<1>2. cs[s] # None => IsCall(cs[s])
  BY DEF Sound, Good
<1> HIDE DEF x
<1>3. /\ cs[s] = None => x = None
      /\ cs[s] # None => /\ x.kind = cs[s].kind
                         /\ cs[s].kind \in kinds => x.client # "live"
                         /\ cs[s].kind \notin kinds => x = cs[s]
  BY <1>1, <1>2 DEF IsCall
<1>4. QED
  BY <1>3 DEF x

\* What is left behind is not waited for.
LEMMA LeftReplies ==
    ASSUME NEW cs, NEW p, NEW f, Sound(cs, p, f), NEW how \in {"orphan", "gone"}
    PROVE  /\ Replies(Left(cs, Kind, how)) = {}
           /\ Fewer(Left(cs, {"list"}, how), cs, {})
<1>1. Replies(Left(cs, Kind, how)) = {}
  <2> DEFINE new == Left(cs, Kind, how)
  <2>1. \A s \in Slot : cs[s] # None => cs[s].kind \in Kind
    BY DEF Sound, Good
  <2>2. \A s \in Slot : new[s] = None \/ new[s].client # "live"
    BY <2>1, LeftCall
  <2> HIDE DEF new
  <2>3. Replies(new) = {}
    BY <2>2 DEF Replies
  <2>4. QED
    BY <2>3 DEF new
<1>2. Fewer(Left(cs, {"list"}, how), cs, {})
  <2> DEFINE new == Left(cs, {"list"}, how)
  <2>1. \A s \in Slot : /\ cs[s] = None => new[s] = None
                        /\ cs[s] # None => new[s].kind = cs[s].kind
                        /\ cs[s] # None /\ cs[s].kind # "list" => new[s] = cs[s]
    BY LeftCall
  <2> HIDE DEF new
  <2>2. Fewer(new, cs, {})
    BY <2>1 DEF Replies, Fewer
  <2>3. QED
    BY <2>2 DEF new
<1>3. QED
  BY <1>1, <1>2

\* What a handler puts into the slot of the call it handles.
LEMMA HandledReplies ==
    ASSUME ClientInv, NEW s \in Slot
    PROVE  /\ Fewer(Done(s), calls, {s})
           /\ \A call : IsCall(call) /\ call.kind # "reply" /\ Reload(s, call)
                           => Fewer(calls', calls, {s})
<1>1. ASSUME NEW x, x = None \/ x.kind # "reply"
      PROVE  Fewer([calls EXCEPT ![s] = x], calls, {s})
  <2> DEFINE new == [calls EXCEPT ![s] = x]
  <2>1. \A z \in Slot : new[z] = IF z = s THEN x ELSE calls[z]
    BY DEF ClientInv, CallsOK, Sound
  <2> HIDE DEF new
  <2>2. Fewer(new, calls, {s})
    BY <1>1, <2>1 DEF Replies, Fewer
  <2>3. QED
    BY <2>2 DEF new
<1>2. Fewer(Done(s), calls, {s})
  BY <1>1 DEF Done
<1>3. ASSUME NEW call, IsCall(call), call.kind # "reply", Reload(s, call)
      PROVE  Fewer(calls', calls, {s})
  <2> DEFINE x == [call EXCEPT !.client = calls[s].client]
  <2>1. x.kind # "reply" /\ calls' = [calls EXCEPT ![s] = x]
    BY <1>3 DEF IsCall, Reload
  <2> HIDE DEF x
  <2>2. QED
    BY <1>1, <2>1
<1>4. QED
  BY <1>2, <1>3

\* The invariant: the replies are calls that None is not.
SendingInv == SendingIsOneReply /\ \A s \in Replies(calls) : calls[s] \in ReplyCall

\* The answer to a call; that to a reply has no value.
LEMMA AnsweredReplies ==
    ASSUME ClientInv, SendingInv, NEW s \in Slot, calls[s] # None,
           NEW a \in {"none", "ok", "refused", "unauthorized", "lost"}, NEW v,
           calls[s].kind = "reply" => v = None, Answer(s, a, v), UNCHANGED form
    PROVE  SendingInv'
<1> DEFINE y == [calls[s] EXCEPT !.answer = a]
           x == [y EXCEPT !.value = v]
<1>1. calls = [z \in Slot |-> calls[z]] /\ IsCall(calls[s])
  BY DEF ClientInv, CallsOK, Sound, Good
<1>2. calls' = [calls EXCEPT ![s] = x]
  BY <1>1 DEF Answer
<1>3. x.kind = calls[s].kind /\ x.client = calls[s].client
  <2>1. IsCall(y) /\ y.kind = calls[s].kind /\ y.client = calls[s].client
    BY <1>1 DEF IsCall
  <2> HIDE DEF y
  <2>2. QED
    BY <2>1 DEF IsCall
<1>4. s \in Replies(calls) => x \in ReplyCall /\ x # None
  <2> SUFFICES ASSUME s \in Replies(calls) PROVE x \in ReplyCall
    BY ReplyAssumption
  <2>1. calls[s] \in ReplyCall /\ v = None
    BY DEF SendingInv, Replies
  <2>2. y \in ReplyCall
    BY <2>1 DEF ReplyCall
  <2> HIDE DEF y
  <2>3. QED
    BY <2>1, <2>2 DEF ReplyCall
<1> HIDE DEF x
<1>5. \A z \in Slot : calls'[z] = IF z = s THEN x ELSE calls[z]
  BY <1>1, <1>2
<1>6. Replies(calls') = Replies(calls)
  BY <1>3, <1>4, <1>5 DEF Replies
<1>7. \A z \in Replies(calls) : calls'[z] \in ReplyCall
  BY <1>4, <1>5 DEF SendingInv, Replies
<1>8. QED
  BY <1>6, <1>7 DEF SendingInv, SendingIsOneReply

\* Steps that make or handle no reply.
LEMMA QuietReplies ==
    ASSUME SendingInv, Fewer(calls', calls, {}), form'.sending = form.sending
    PROVE  SendingInv'
BY DEF SendingInv, SendingIsOneReply, Fewer

\* A handler that answers for the reply, if it is one.
LEMMA EndedReplies ==
    ASSUME SendingInv, NEW s, Fewer(calls', calls, {s}),
           form'.sending = IF s \in Replies(calls) THEN FALSE ELSE form.sending
    PROVE  SendingInv'
<1>1. CASE s \in Replies(calls)
  <2>1. Replies(calls) = {s}
    BY <1>1 DEF SendingInv, SendingIsOneReply
  <2>2. Replies(calls') = {} /\ ~ form'.sending
    BY <1>1, <2>1 DEF Fewer
  <2>3. QED
    BY <2>2 DEF SendingInv, SendingIsOneReply
<1>2. CASE s \notin Replies(calls)
  BY <1>2, QuietReplies DEF Fewer
<1>3. QED
  BY <1>1, <1>2

\* A page is entered with an empty form, and with no reply on its way.
LEMMA EnteredReplies ==
    ASSUME NEW p \in Page, NEW c, NEW cs, Enter(p, c, cs), Replies(cs) = {},
           p = "case" => c \in Case
    PROVE  SendingInv'
<1> DEFINE asked == MountCalls(p, c)
<1>1. calls' = AddAll(cs, asked) /\ form' = NewForm
  BY DEF Enter
<1>2. Len(asked) \in Nat /\ \A i \in 1..Len(asked) : asked[i].kind # "reply"
  <2>1. CASE p = "inbox"
    <3>1. asked = <<facets, listCases(EMPTY)>>
      BY <2>1 DEF MountCalls
    <3>2. facets.kind = "facets" /\ listCases(EMPTY).kind = "list"
      BY DEF facets, listCases, Request
    <3>3. QED
      BY <3>1, <3>2
  <2>2. CASE p = "case"
    <3>1. asked = <<caseDetail(c)>> /\ caseDetail(c).kind = "detail"
      BY <2>2 DEF MountCalls, caseDetail, Request
    <3>2. QED
      BY <3>1
  <2>3. CASE p = "approvals"
    <3>1. asked = <<approvals>> /\ approvals.kind = "approvals"
      BY <2>3 DEF MountCalls, approvals, Request
    <3>2. QED
      BY <3>1
  <2>4. CASE p = "pipeline"
    <3>1. asked = <<pipeline>> /\ pipeline.kind = "pipeline"
      BY <2>4 DEF MountCalls, pipeline, Request
    <3>2. QED
      BY <3>1
  <2>5. CASE p \in {"login", "local"}
    <3>1. asked = << >>
      BY <2>5 DEF MountCalls
    <3>2. QED
      BY <3>1
  <2>6. QED
    BY <2>1, <2>2, <2>3, <2>4, <2>5 DEF Page
<1> HIDE DEF asked
<1>3. Replies(calls') = {}
  BY <1>1, <1>2, AddedReplies DEF Fewer
<1>4. ~ form'.sending
  BY <1>1 DEF NewForm
<1>5. QED
  BY <1>3, <1>4 DEF SendingInv, SendingIsOneReply

\* A call other than a reply is made.
LEMMA SentOther ==
    ASSUME SendingInv, NEW call, Send(call), call.kind # "reply",
           form'.sending = form.sending
    PROVE  SendingInv'
<1> DEFINE asked == <<call>>
<1>1. Len(asked) = 1 /\ asked[1] = call
  OBVIOUS
<1>2. calls' = AddAll(calls, asked)
  BY DEF Send, Add
<1> HIDE DEF asked
<1>3. \A i \in 1..Len(asked) : asked[i].kind # "reply"
  BY <1>1
<1>4. Fewer(calls', calls, {})
  BY <1>1, <1>2, <1>3, AddedReplies
<1>5. QED
  BY <1>4, QuietReplies

LEMMA SubmitSends ==
    ASSUME ClientInv, SendingInv, SubmitReply
    PROVE  SendingInv'
<1> DEFINE call == Request("reply", caseId, None, None)
<1>1. /\ page = "case" /\ ~ form.sending /\ Free(calls) # {}
      /\ calls' = Add(calls, call)
      /\ form' = [form EXCEPT !.sending = TRUE, !.err = FALSE]
  BY DEF SubmitReply, Send
<1>2. call \in ReplyCall /\ call.client = "live"
  BY <1>1 DEF ClientInv, PagesOK, Request, ReplyCall
<1>3. Replies(calls) = {}
  BY <1>1 DEF SendingInv, SendingIsOneReply
<1> HIDE DEF call
<1>4. [form EXCEPT !.sending = TRUE, !.err = FALSE]
        = [d |-> form.d, err |-> FALSE, replyText |-> form.replyText, sending |-> TRUE]
  BY FormSent, Zenon DEF ClientInv
<1>5. form' = [d |-> form.d, err |-> FALSE, replyText |-> form.replyText, sending |-> TRUE]
  BY <1>1, <1>4, Zenon
<1>6. form'.sending
  BY <1>5
<1>7. QED
  BY <1>1, <1>2, <1>3, <1>6, ReplyAdded DEF SendingInv, SendingIsOneReply

\* What the handler of an answer does to the form.
LEMMA HandledForm ==
    ASSUME ClientInv, NEW s \in Slot, calls[s] # None
    PROVE  /\ Failed(s) \/ Acted(s) =>
                /\ calls[s].client = "live"
                /\ form'.sending = IF calls[s].kind = "reply" THEN FALSE ELSE form.sending
           /\ Shown(s) => calls[s].kind # "reply" /\ form'.sending = form.sending
<1>1. ASSUME Failed(s)
      PROVE  /\ calls[s].client = "live"
             /\ form'.sending = IF calls[s].kind = "reply" THEN FALSE ELSE form.sending
  <2> DEFINE e == IF calls[s].kind = "reply" THEN FALSE ELSE form.sending
  <2>1. calls[s].client = "live"
        /\ \/ form' = [form EXCEPT !.err = TRUE, !.sending = e]
           \/ form' = form /\ calls[s].kind # "reply"
    BY <1>1, Zenon DEF Failed
  <2>2. form' = form /\ calls[s].kind # "reply" => form'.sending = e
    OBVIOUS
  <2>3. ASSUME form' = [form EXCEPT !.err = TRUE, !.sending = e] PROVE form'.sending = e
    <3> HIDE DEF e
    <3>1. [form EXCEPT !.err = TRUE, !.sending = e]
            = [d |-> form.d, err |-> TRUE, replyText |-> form.replyText, sending |-> e]
      BY FormFailed, Zenon DEF ClientInv
    <3>2. form' = [d |-> form.d, err |-> TRUE, replyText |-> form.replyText, sending |-> e]
      BY <2>3, <3>1, Zenon
    <3>3. QED
      BY <3>2
  <2>4. QED
    BY <2>1, <2>2, <2>3
<1>2. ASSUME Acted(s)
      PROVE  /\ calls[s].client = "live"
             /\ form'.sending = IF calls[s].kind = "reply" THEN FALSE ELSE form.sending
  <2>1. calls[s].client = "live"
    BY <1>2 DEF Acted, Arrived
  <2>2. CASE calls[s].kind = "reply" /\ form' = [form EXCEPT !.replyText = FALSE, !.sending = FALSE]
    <3>1. [form EXCEPT !.replyText = FALSE, !.sending = FALSE]
            = [d |-> form.d, err |-> form.err, replyText |-> FALSE, sending |-> FALSE]
      BY FormCleared, Zenon DEF ClientInv
    <3>2. form' = [d |-> form.d, err |-> form.err, replyText |-> FALSE, sending |-> FALSE]
      BY <2>2, <3>1, Zenon
    <3>3. form'.sending = FALSE
      BY <3>2
    <3>4. QED
      BY <2>1, <2>2, <3>3
  <2>3. CASE calls[s].kind # "reply" /\ form' = form
    BY <2>1, <2>3
  <2>4. QED
    BY <1>2, <2>2, <2>3 DEF Acted, Arrived
<1>3. ASSUME Shown(s) PROVE calls[s].kind # "reply" /\ form'.sending = form.sending
  <2>1. calls[s].kind # "reply" /\ (form' = form \/ form' = [form EXCEPT !.d = calls[s].value])
    BY <1>3 DEF Shown, Arrived
  <2>2. form' = [form EXCEPT !.d = calls[s].value] => form'.sending = form.sending
    BY DEF ClientInv, PagesOK
  <2>3. QED
    BY <2>1, <2>2
<1>4. QED
  BY <1>1, <1>2, <1>3

LEMMA DeliverSending ==
    ASSUME ClientInv, SendingInv, NEW s \in Slot, Deliver(s)
    PROVE  SendingInv'
<1>1. calls[s] # None /\ Good(calls[s], page, inbox.filters)
  BY DEF Deliver, ClientInv, CallsOK, Sound
<1>2. s \in Replies(calls) <=> calls[s].kind = "reply" /\ calls[s].client = "live"
  BY <1>1 DEF Replies
<1>3. calls[s].kind \in {"status", "reply"} => calls[s].id \in Case
  BY <1>1 DEF Good, Meant
<1>4. ASSUME \/ calls' = Done(s)
             \/ calls[s].kind \in {"status", "reply"} /\ Reload(s, caseDetail(calls[s].id))
             \/ Reload(s, approvals)
      PROVE  Fewer(calls', calls, {s})
  BY <1>3, <1>4, ReloadsMeant, HandledReplies
<1>5. CASE Forgotten(s) \/ Ignored(s)
  <2>1. /\ s \notin Replies(calls) /\ form'.sending = form.sending
        /\ \/ calls' = Done(s)
           \/ calls[s].kind \in {"status", "reply"} /\ Reload(s, caseDetail(calls[s].id))
           \/ Reload(s, approvals)
    BY <1>2, <1>5 DEF Forgotten, Ignored, pages
  <2>2. QED
    BY <1>4, <2>1, EndedReplies
<1>6. CASE Failed(s) \/ Acted(s)
  <2>1. \/ calls' = Done(s)
        \/ calls[s].kind \in {"status", "reply"} /\ Reload(s, caseDetail(calls[s].id))
        \/ Reload(s, approvals)
    BY <1>6 DEF Failed, Acted, Arrived
  <2>2. form'.sending = IF s \in Replies(calls) THEN FALSE ELSE form.sending
    BY <1>1, <1>2, <1>6, HandledForm
  <2>3. QED
    BY <1>4, <2>1, <2>2, EndedReplies
<1>7. CASE Shown(s)
  <2>1. calls' = Done(s) /\ s \notin Replies(calls) /\ form'.sending = form.sending
    BY <1>1, <1>2, <1>7, HandledForm DEF Shown
  <2>2. QED
    BY <1>4, <2>1, EndedReplies
<1>8. CASE Unauthorized(s)
  <2>1. Enter("login", None, Left(Done(s), Kind, "gone"))
    BY <1>8 DEF Unauthorized
  <2>2. Replies(Left(Done(s), Kind, "gone")) = {}
    BY DoneSound, LeftReplies
  <2>3. QED
    BY <2>1, <2>2, EnteredReplies DEF Page
<1>9. CASE LoggedIn(s)
  <2>1. calls[s].client = "live" /\ calls[s].kind = "login" /\ Enter("local", None, Done(s))
    BY <1>9 DEF LoggedIn, Arrived
  <2>2. page = "login"
    BY <1>1, <2>1 DEF Good, FitsPage, KindsOf, ClientInv, PagesOK, Page
  <2>3. ASSUME NEW z \in Replies(calls) PROVE FALSE
    <3>1. z \in Slot /\ calls[z] # None /\ calls[z].kind = "reply" /\ calls[z].client = "live"
      BY DEF Replies
    <3>2. Good(calls[z], page, inbox.filters)
      BY <3>1 DEF ClientInv, CallsOK, Sound
    <3>3. QED
      BY <2>2, <3>1, <3>2 DEF Good, FitsPage, KindsOf
  <2>4. Replies(Done(s)) = {}
    BY <2>3, HandledReplies DEF Fewer
  <2>5. QED
    BY <2>1, <2>4, EnteredReplies DEF Page
<1>10. QED
  BY <1>5, <1>6, <1>7, <1>8, <1>9 DEF Deliver

LEMMA ServeSending ==
    ASSUME ClientInv, SendingInv, NEW s \in Slot, ServeLogin(s) \/ Serve(s) \/ Lose(s)
    PROVE  SendingInv'
<1>1. calls[s] # None /\ UNCHANGED form
  BY DEF ServeLogin, Serve, Lose, Unserved, pages
<1>2. CASE ServeLogin(s) \/ Lose(s)
  BY <1>1, <1>2, AnsweredReplies DEF ServeLogin, Lose
<1>3. CASE Serve(s)
  <2>1. CASE Answer(s, "unauthorized", None)
    BY <1>1, <2>1, AnsweredReplies
  <2>2. CASE calls[s].kind \in {"status", "reply", "decide"} /\
             (Answer(s, "ok", None) \/ Answer(s, "refused", None))
    BY <1>1, <2>2, AnsweredReplies
  <2>3. CASE calls[s].kind # "reply" /\ ServeRead(s)
    <3>1. PICK v : Answer(s, "ok", v)
      BY <2>3, Zenon DEF ServeRead
    <3>2. QED
      BY <1>1, <2>3, <3>1, AnsweredReplies
  <2>4. QED
    BY <1>3, <2>1, <2>2, <2>3
       DEF Serve, ServeStatus, ServeReply, ServeDecision, Refuse
<1>4. QED
  BY <1>2, <1>3

LEMMA SendingStep == ClientInv /\ SendingInv /\ [Next]_vars => SendingInv'
<1> SUFFICES ASSUME ClientInv, SendingInv, [Next]_vars PROVE SendingInv'
  OBVIOUS
<1>1. ASSUME NEW s \in Slot, ServeLogin(s) \/ Serve(s) \/ Lose(s) \/ Deliver(s)
      PROVE  SendingInv'
  BY <1>1, ServeSending, DeliverSending
<1>2. CASE SubmitReply
  BY <1>2, SubmitSends
<1>3. ASSUME NEW p \in Page, NEW c, Enter(p, c, Orphaned), p = "case" => c \in Case
      PROVE  SendingInv'
  <2>1. Replies(Orphaned) = {}
    BY LeftReplies DEF Orphaned, ClientInv, CallsOK
  <2>2. QED
    BY <1>3, <2>1, EnteredReplies
<1>4. ASSUME NEW f, SetFilters(f) PROVE SendingInv'
  <2> DEFINE cs == Left(calls, {"list"}, "orphan")
             asked == <<listCases(f)>>
  <2>1. /\ Len(asked) = 1 /\ asked[1] = listCases(f) /\ calls' = AddAll(cs, asked)
        /\ UNCHANGED form
    BY <1>4 DEF SetFilters, Add
  <2>2. Fewer(cs, calls, {})
    BY LeftReplies DEF ClientInv, CallsOK
  <2>3. listCases(f).kind = "list"
    BY DEF listCases, Request
  <2> HIDE DEF cs, asked
  <2>4. \A i \in 1..Len(asked) : asked[i].kind # "reply"
    BY <2>1, <2>3
  <2>5. Fewer(calls', cs, {})
    BY <2>1, <2>4, AddedReplies
  <2>6. Fewer(calls', calls, {})
    BY <2>2, <2>5 DEF Fewer
  <2>7. QED
    BY <2>1, <2>6, QuietReplies
<1>5. ASSUME NEW kind, NEW id, NEW arg, NEW basis, Send(Request(kind, id, arg, basis)),
             kind # "reply", form'.sending = form.sending
      PROVE  SendingInv'
  <2>1. Request(kind, id, arg, basis).kind = kind
    BY DEF Request
  <2>2. QED
    BY <1>5, <2>1, SentOther
<1>6. ASSUME UNCHANGED calls, form'.sending = form.sending PROVE SendingInv'
  BY <1>6, QuietReplies DEF Fewer
<1>7. CASE \/ \E c \in Case : OtherMoves(c)
           \/ \E r \in Reply : OtherDecides(r)
           \/ \E k \in Token : Expire(k)
           \/ UNCHANGED vars
  BY <1>6, <1>7 DEF OtherMoves, OtherDecides, Expire, vars, pages
<1>8. CASE TypeReply
  BY <1>6, <1>8 DEF TypeReply, ClientInv, PagesOK
<1>9. CASE \/ Logout
           \/ \E p \in {"local", "inbox", "approvals", "pipeline"} : Visit(p)
           \/ \E c \in Case : VisitCase(c)
  BY <1>3, <1>9 DEF Logout, Visit, VisitCase, Page
<1>10. CASE \/ \E x \in CaseStatus : PickStatus(x)
            \/ \E x \in Source \cup {""} : SetSource(x)
            \/ \E c \in Case : PickRating(RatingOf[c])
  BY <1>4, <1>10 DEF PickStatus, SetSource, PickRating
<1>11. CASE \/ SubmitLogin
            \/ \E c \in Case : Jump(c)
            \/ Poll
            \/ \E r \in Reply, a \in {"approved", "rejected"} : Decide(r, a)
  BY <1>5, <1>11 DEF SubmitLogin, Jump, Poll, Decide, caseDetail, listCases, approvals,
     pipeline, pages
<1>12. ASSUME NEW x \in CaseStatus, ClickStatus(x) PROVE SendingInv'
  <2>1. form'.sending = form.sending
    BY <1>12 DEF ClickStatus, ClientInv, PagesOK
  <2>2. QED
    BY <1>5, <1>12, <2>1 DEF ClickStatus
<1>13. QED
  BY <1>1, <1>2, <1>7, <1>8, <1>9, <1>10, <1>11, <1>12 DEF Next

\* However answers are lost, late, refused or forgotten: a case page that is sending
\* waits for exactly one reply, and one that is not waits for none.  So who stays on
\* the page cannot send a reply twice before it is answered, and the form is never
\* left locked without an answer to come (CaseDetail.tsx: submitReply's sending).
THEOREM OneReplyAtATime == Spec => []SendingIsOneReply
<1>1. Init => SendingInv
  <2> SUFFICES ASSUME Init PROVE SendingInv
    OBVIOUS
  <2>1. Replies(calls) = {}
    BY DEF Init, Replies
  <2>2. ~ form.sending
    BY DEF Init, NewForm
  <2>3. QED
    BY <2>1, <2>2 DEF SendingInv, SendingIsOneReply
<1>2. ClientInv /\ SendingInv /\ [Next]_vars => SendingInv'
  BY SendingStep
<1>3. SendingInv => SendingIsOneReply
  BY DEF SendingInv
<1>4. QED
  BY <1>1, <1>2, <1>3, ClientInvariant, PTL DEF Spec

================================================================================
