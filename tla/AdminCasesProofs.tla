--------------------------- MODULE AdminCasesProofs ---------------------------
(***************************************************************************)
(* Theorems about AdminCases, for any tabs, cases, notifications and data: *)
(* type correctness, what localStorage holds after the tabs overwrote each *)
(* other, whose notifications are read, where a figure leads, and that a   *)
(* tab loses changes to other tabs only.                                   *)
(***************************************************************************)
EXTENDS AdminCases, TLAPS

-------------------------------------------------------------------------------
(* Type correctness *)

Record == [cstatus : Status, read : BOOLEAN, reopened : 0..MaxEdits, escalated : BOOLEAN]
Slot   == [s : Status, read : BOOLEAN]

\* A case is reopened by a handler, so no more often than handlers ran; and it
\* is escalated exactly while a high risk is in progress.
RecordsFit ==
    \A t \in Tab, c \in Case :
        /\ cases[t][c].reopened <= edits
        /\ cases[t][c].escalated = Escalated(c, cases[t][c].cstatus)

CasesInv == TypeOK /\ RecordsFit /\ LastWriterIsSaved /\ ReadWasInView

LEMMA SeedType ==
    ASSUME NEW c \in Case
    PROVE  Seed[c] \in Status
<1>1. Seed[c] \in SeedOf(CaseRisk[c]) /\ CaseRisk[c] \in Risk
  BY SeedAssumption, DataAssumption
<1>2. \A k \in Risk : SeedOf(k) \subseteq Status
  BY DEF Risk, SeedOf, Status
<1>3. QED
  BY <1>1, <1>2

LEMMA EscalatedType ==
    ASSUME NEW c, NEW s
    PROVE  Escalated(c, s) \in BOOLEAN
BY DEF Escalated

LEMMA MarkedRecord ==
    ASSUME NEW r \in Record
    PROVE  LET m == [r EXCEPT !.read = TRUE]
           IN m \in Record /\ m.reopened = r.reopened /\ m.cstatus = r.cstatus
              /\ m.escalated = r.escalated
BY DEF Record

LEMMA LoadedType ==
    ASSUME TypeOK, NEW c \in Case
    PROVE  /\ Loaded(c) \in Record
           /\ Loaded(c).reopened = 0
           /\ Loaded(c).escalated = Escalated(c, Loaded(c).cstatus)
<1> DEFINE s == IF saved = NotSaved THEN Seed[c] ELSE saved[c].s
           read == saved # NotSaved /\ saved[c].read
<1>1. s \in Status
  BY SeedType DEF TypeOK
<1>2. read \in BOOLEAN /\ Escalated(c, s) \in BOOLEAN /\ 0 \in 0..MaxEdits
  BY BoundAssumption, EscalatedType
<1>3. Loaded(c) = [cstatus |-> s, read |-> read, reopened |-> 0, escalated |-> Escalated(c, s)]
  BY DEF Loaded
<1> HIDE DEF s, read
<1>4. QED
  BY <1>1, <1>2, <1>3 DEF Record

LEMMA NotesType ==
    ASSUME NEW r
    PROVE  ScopedNotifications(r) \subseteq Note
BY DEF ScopedNotifications

LEMMA InitCases == Init => CasesInv
<1> SUFFICES ASSUME Init PROVE CasesInv
  OBVIOUS
<1>1. \A c \in Case : Seed[c] \in Status
  BY SeedType
<1>2. cases \in [Tab -> [Case -> Record]]
  <2>1. \A c \in Case : [cstatus |-> Seed[c], read |-> FALSE, reopened |-> 0,
                         escalated |-> Escalated(c, Seed[c])] \in Record
    BY <1>1, BoundAssumption, EscalatedType DEF Record
  <2>2. QED
    BY <2>1 DEF Init
<1>3. writer \in Tab
  BY TabAssumption DEF Init
<1>4. TypeOK
  <2>1. openId \in [Tab -> Case \cup {NoCase}] /\ noteRead \in [Tab -> SUBSET Note]
    BY DEF Init
  <2>2. DOMAIN rf = Tab /\ \A t \in Tab : DOMAIN rf[t] = DOMAIN NoFilter
    BY DEF Init
  <2>3. role \in [Tab -> TabRole] /\ due \in [Case -> {"far", "soon", "late"}]
    BY DEF Init
  <2>4. inView \in [Tab -> SUBSET Note]
    BY NotesType DEF Init
  <2>5. saved = NotSaved /\ edits \in 0..MaxEdits
    BY BoundAssumption DEF Init
  <2>6. QED
    BY <1>2, <1>3, <2>1, <2>2, <2>3, <2>4, <2>5 DEF TypeOK, Record
<1>5. RecordsFit
  BY DEF Init, RecordsFit
<1>6. LastWriterIsSaved
  BY DEF Init, LastWriterIsSaved
<1>7. ReadWasInView
  BY DEF Init, ReadWasInView
<1>8. QED
  BY <1>4, <1>5, <1>6, <1>7 DEF CasesInv

-------------------------------------------------------------------------------
(* The cases and localStorage *)

LEMMA EditType ==
    ASSUME TypeOK, Edit
    PROVE  edits \in Nat /\ edits' \in 0..MaxEdits /\ edits' = edits + 1
BY BoundAssumption DEF TypeOK, Edit

\* Writing back all of a tab's cases leaves what the next load will find.
LEMMA PersistPreserves ==
    ASSUME CasesInv, Edit, NEW t \in Tab, NEW c \in Case, NEW rec \in Record,
           rec.reopened <= edits + 1, rec.escalated = Escalated(c, rec.cstatus),
           Persist(t, c, rec)
    PROVE  /\ cases' \in [Tab -> [Case -> Record]]
           /\ saved' \in {NotSaved} \cup [Case -> Slot]
           /\ writer' \in Tab
           /\ RecordsFit'
           /\ LastWriterIsSaved'
<1>t. /\ cases \in [Tab -> [Case -> Record]] /\ edits' = edits + 1 /\ edits \in Nat
      /\ TypeOK
  BY EditType DEF CasesInv, TypeOK, Record
<1>1. /\ cases' = [cases EXCEPT ![t][c] = rec]
      /\ saved' = [k \in Case |-> [s |-> cases'[t][k].cstatus, read |-> cases'[t][k].read]]
      /\ writer' = t
  BY DEF Persist
<1>2. cases' \in [Tab -> [Case -> Record]]
  BY <1>t, <1>1
<1>3. \A k \in Case : cases'[t][k].cstatus \in Status /\ cases'[t][k].read \in BOOLEAN
  BY <1>2 DEF Record
<1>4. saved' \in [Case -> Slot]
  BY <1>1, <1>3 DEF Slot
<1>5. ASSUME NEW u \in Tab, NEW k \in Case
      PROVE  /\ cases'[u][k].reopened <= edits'
             /\ cases'[u][k].escalated = Escalated(k, cases'[u][k].cstatus)
  <2>1. CASE u = t /\ k = c
    <3>1. cases'[u][k] = rec
      BY <1>t, <1>1, <2>1
    <3>2. QED
      BY <1>t, <2>1, <3>1
  <2>2. CASE ~(u = t /\ k = c)
    <3>1. cases'[u][k] = cases[u][k]
      BY <1>t, <1>1, <2>2
    <3>2. /\ cases[u][k].reopened <= edits /\ cases[u][k].reopened \in Nat
          /\ cases[u][k].escalated = Escalated(k, cases[u][k].cstatus)
      BY <1>t DEF CasesInv, RecordsFit, Record
    <3>3. QED
      BY <1>t, <3>1, <3>2
  <2>3. QED
    BY <2>1, <2>2
<1>6. RecordsFit'
  BY <1>5 DEF RecordsFit, Escalated
<1>7. LastWriterIsSaved'
  <2>1. SUFFICES ASSUME saved' # NotSaved, NEW k \in Case
                 PROVE  /\ Loaded(k)'.cstatus = cases'[t][k].cstatus
                        /\ Loaded(k)'.read = cases'[t][k].read
                        /\ Loaded(k)'.escalated = cases'[t][k].escalated
    BY <1>1 DEF LastWriterIsSaved
  <2>2. saved'[k] = [s |-> cases'[t][k].cstatus, read |-> cases'[t][k].read]
    BY <1>1
  <2>3. /\ Loaded(k)'.cstatus = saved'[k].s
        /\ Loaded(k)'.read = (saved' # NotSaved /\ saved'[k].read)
        /\ Loaded(k)'.escalated = Escalated(k, saved'[k].s)
    BY <2>1 DEF Loaded, Escalated
  <2>4. QED
    BY <1>3, <1>5, <2>1, <2>2, <2>3
<1>8. QED
  BY <1>1, <1>2, <1>4, <1>6, <1>7

\* Nothing of the cases moved: what holds of them still holds.
LEMMA CasesKept ==
    ASSUME CasesInv, UNCHANGED <<saved, cases, writer>>, edits' >= edits, edits' \in 0..MaxEdits
    PROVE  /\ cases' \in [Tab -> [Case -> Record]]
           /\ saved' \in {NotSaved} \cup [Case -> Slot]
           /\ writer' \in Tab
           /\ RecordsFit'
           /\ LastWriterIsSaved'
<1>1. /\ cases' \in [Tab -> [Case -> Record]] /\ saved' \in {NotSaved} \cup [Case -> Slot]
      /\ writer' \in Tab /\ edits \in Nat
  BY BoundAssumption DEF CasesInv, TypeOK, Record, Slot
<1>2. RecordsFit'
  <2>1. \A t \in Tab, c \in Case : cases[t][c].reopened \in Nat
    BY BoundAssumption, <1>1 DEF Record
  <2>2. edits' \in Nat
    BY BoundAssumption
  <2>3. QED
    BY <1>1, <2>1, <2>2 DEF CasesInv, RecordsFit, Escalated
<1>3. LastWriterIsSaved'
  BY DEF CasesInv, LastWriterIsSaved, Loaded, Escalated
<1>4. QED
  BY <1>1, <1>2, <1>3

-------------------------------------------------------------------------------
(* The handlers *)

\* A handler that only filters, marks notifications or moves the drawer.
LEMMA OthersKept ==
    ASSUME CasesInv, UNCHANGED <<saved, cases, writer>>, edits' >= edits, edits' \in 0..MaxEdits,
           openId' \in [Tab -> Case \cup {NoCase}],
           DOMAIN rf' = Tab /\ \A t \in Tab : DOMAIN rf'[t] = DOMAIN NoFilter,
           noteRead' \in [Tab -> SUBSET Note], inView' \in [Tab -> SUBSET Note],
           role' \in [Tab -> TabRole], due' \in [Case -> {"far", "soon", "late"}],
           ReadWasInView'
    PROVE  CasesInv'
BY CasesKept DEF CasesInv, TypeOK, Record, Slot

LEMMA FiltersKept ==
    ASSUME CasesInv, Edit, NEW t \in Tab, NEW f, DOMAIN f = DOMAIN NoFilter, SetFilters(t, f)
    PROVE  CasesInv'
<1>1. /\ TypeOK /\ edits' >= edits /\ edits' \in 0..MaxEdits
      /\ UNCHANGED <<saved, cases, writer, openId, noteRead, role, due, inView>>
  BY EditType DEF CasesInv, SetFilters
<1>2. DOMAIN rf' = Tab /\ \A u \in Tab : DOMAIN rf'[u] = DOMAIN NoFilter
  BY <1>1 DEF SetFilters, TypeOK
<1>3. ReadWasInView'
  BY <1>1 DEF CasesInv, ReadWasInView
<1>4. QED
  BY <1>1, <1>2, <1>3, OthersKept DEF TypeOK

\* Notifications are marked only when the tab's role lists them.
LEMMA NotesKept ==
    ASSUME CasesInv, NEW t \in Tab, NEW S \in SUBSET ScopedNotifications(role[t]),
           S \subseteq inView[t], MarkNotes(t, S)
    PROVE  CasesInv'
<1>1. /\ TypeOK /\ edits' >= edits /\ edits' \in 0..MaxEdits
      /\ UNCHANGED <<saved, cases, writer, openId, rf, role, due, inView>>
  BY EditType DEF CasesInv, MarkNotes
<1>2. noteRead' \in [Tab -> SUBSET Note]
  BY <1>1, NotesType DEF TypeOK, MarkNotes
<1>3. ReadWasInView'
  BY <1>1 DEF CasesInv, ReadWasInView, MarkNotes, TypeOK
<1>4. QED
  BY <1>1, <1>2, <1>3, OthersKept DEF TypeOK

\* What the tab's role lists now is among what some role of the tab listed.
Listed == \A t \in Tab : ScopedNotifications(role[t]) \subseteq inView[t]

LEMMA NextListed == TypeOK /\ Listed /\ [Next]_vars => Listed'
<1> SUFFICES ASSUME TypeOK, Listed, [Next]_vars, NEW t \in Tab
             PROVE  ScopedNotifications(role'[t]) \subseteq inView'[t]
  BY DEF Listed, ScopedNotifications
<1>0. ScopedNotifications(role[t]) \subseteq inView[t]
  BY DEF Listed
<1> USE DEF TypeOK
<1>1. CASE role' = role /\ inView' = inView
  BY <1>0, <1>1
<1>2. ASSUME NEW u \in Tab, Load(u) PROVE ScopedNotifications(role'[t]) \subseteq inView'[t]
  BY <1>0, <1>2 DEF Load
<1>3. ASSUME NEW u \in Tab, NEW r \in TabRole, SwitchRole(u, r)
      PROVE  ScopedNotifications(role'[t]) \subseteq inView'[t]
  BY <1>0, <1>3 DEF SwitchRole
<1>4. QED
  BY <1>1, <1>2, <1>3, TabAssumption
     DEF Next, vars, historyVars, OpenCase, CloseDrawer, SetStatus, PickFilter, ClearFilters,
         SetFilters, Go, MarkNotes, MarkRead, MarkAllRead, Pass

LEMMA NextCases == CasesInv /\ Listed /\ [Next]_vars => CasesInv'
<1> SUFFICES ASSUME CasesInv, Listed, [Next]_vars PROVE CasesInv'
  OBVIOUS
<1>t. /\ TypeOK /\ cases \in [Tab -> [Case -> Record]] /\ edits \in 0..MaxEdits
      /\ Filtering \subseteq Tab
  BY TabAssumption DEF CasesInv, TypeOK, Record
<1>1. ASSUME NEW t \in Tab, Load(t) PROVE CasesInv'
  <2>1. \A c \in Case : /\ Loaded(c) \in Record
                        /\ Loaded(c).reopened = 0
                        /\ Loaded(c).escalated = Escalated(c, Loaded(c).cstatus)
    BY <1>t, LoadedType
  <2>2. cases' = [cases EXCEPT ![t] = [c \in Case |-> Loaded(c)]]
    BY <1>1 DEF Load
  <2>3. cases' \in [Tab -> [Case -> Record]]
    BY <1>t, <2>1, <2>2
  <2>4. edits' = edits + 1 /\ edits \in Nat /\ edits' \in 0..MaxEdits
    BY <1>1, <1>t, EditType DEF Load
  <2>5. ASSUME NEW u \in Tab, NEW c \in Case
        PROVE  /\ cases'[u][c].reopened <= edits'
               /\ cases'[u][c].escalated = Escalated(c, cases'[u][c].cstatus)
    <3>1. CASE u = t
      <4>1. cases'[u][c] = Loaded(c)
        BY <1>t, <2>2, <3>1
      <4>2. QED
        BY <2>1, <2>4, <4>1
    <3>2. CASE u # t
      <4>1. cases'[u][c] = cases[u][c]
        BY <1>t, <2>2, <3>2
      <4>2. /\ cases[u][c].reopened <= edits /\ cases[u][c].reopened \in Nat
            /\ cases[u][c].escalated = Escalated(c, cases[u][c].cstatus)
        BY <1>t DEF CasesInv, RecordsFit, Record
      <4>3. QED
        BY <2>4, <4>1, <4>2
    <3>3. QED
      BY <3>1, <3>2
  <2>6. RecordsFit'
    BY <2>5 DEF RecordsFit, Escalated
  <2>7. LastWriterIsSaved'
    <3>1. saved' = saved /\ writer' = writer
      BY <1>1 DEF Load
    <3>2. SUFFICES ASSUME saved # NotSaved, NEW c \in Case
                   PROVE  /\ Loaded(c).cstatus = cases'[writer][c].cstatus
                          /\ Loaded(c).read = cases'[writer][c].read
                          /\ Loaded(c).escalated = cases'[writer][c].escalated
      BY <3>1 DEF LastWriterIsSaved, Loaded, Escalated
    <3>3. CASE writer = t
      BY <1>t, <2>2, <3>3
    <3>4. CASE writer # t
      BY <1>t, <2>2, <3>2, <3>4 DEF CasesInv, LastWriterIsSaved
    <3>5. QED
      BY <3>3, <3>4
  <2>8. noteRead' \in [Tab -> SUBSET Note] /\ inView' \in [Tab -> SUBSET Note] /\ ReadWasInView'
    <3>1. /\ noteRead' = [noteRead EXCEPT ![t] = {}]
          /\ inView' = [inView EXCEPT ![t] = ScopedNotifications(role[t])]
      BY <1>1 DEF Load
    <3>2. noteRead' \in [Tab -> SUBSET Note] /\ inView' \in [Tab -> SUBSET Note]
      BY <1>t, <3>1, NotesType DEF TypeOK
    <3>3. ReadWasInView'
      BY <1>t, <3>1 DEF TypeOK, CasesInv, ReadWasInView
    <3>4. QED
      BY <3>2, <3>3
  <2>9. /\ DOMAIN rf' = Tab /\ \A u \in Tab : DOMAIN rf'[u] = DOMAIN NoFilter
        /\ openId' \in [Tab -> Case \cup {NoCase}]
    BY <1>1, <1>t DEF Load, TypeOK
  <2>10. TypeOK'
    BY <1>1, <1>t, <2>3, <2>4, <2>8, <2>9 DEF Load, TypeOK, Record
  <2>11. QED
    BY <2>6, <2>7, <2>8, <2>10 DEF CasesInv
<1>2. ASSUME NEW t \in Tab, NEW c \in Case, OpenCase(t, c) PROVE CasesInv'
  <2> DEFINE rec == [cases[t][c] EXCEPT !.read = TRUE]
  <2>1. /\ cases[t][c] \in Record /\ cases[t][c].reopened <= edits
        /\ cases[t][c].escalated = Escalated(c, cases[t][c].cstatus)
    BY <1>t DEF CasesInv, RecordsFit
  <2>2. edits' = edits + 1 /\ edits \in Nat /\ edits' \in 0..MaxEdits
    BY <1>2, <1>t, EditType DEF OpenCase
  <2>3. /\ rec \in Record /\ rec.reopened <= edits + 1
        /\ rec.escalated = Escalated(c, rec.cstatus)
    <3>1. /\ rec \in Record /\ rec.reopened = cases[t][c].reopened
          /\ rec.cstatus = cases[t][c].cstatus /\ rec.escalated = cases[t][c].escalated
      BY <2>1, MarkedRecord
    <3> HIDE DEF rec
    <3>2. rec.reopened \in Nat
      BY <3>1 DEF Record
    <3>3. QED
      BY <2>1, <2>2, <3>1, <3>2
  <2>4. Edit /\ Persist(t, c, rec)
    BY <1>2 DEF OpenCase
  <2> HIDE DEF rec
  <2>5. /\ cases' \in [Tab -> [Case -> Record]] /\ saved' \in {NotSaved} \cup [Case -> Slot]
        /\ writer' \in Tab /\ RecordsFit' /\ LastWriterIsSaved'
    BY <2>3, <2>4, PersistPreserves
  <2>6. TypeOK' /\ ReadWasInView'
    BY <1>2, <1>t, <2>2, <2>5 DEF OpenCase, TypeOK, Record, Slot, CasesInv, ReadWasInView
  <2>7. QED
    BY <2>5, <2>6 DEF CasesInv
<1>3. ASSUME NEW t \in Tab, NEW c \in Case, NEW to \in Status, SetStatus(t, c, to)
      PROVE CasesInv'
  <2> DEFINE again == to = "open" /\ cases[t][c].cstatus \in {"closed", "done"}
             n == IF again THEN cases[t][c].reopened + 1 ELSE cases[t][c].reopened
             rec == [cases[t][c] EXCEPT
                       !.cstatus = to,
                       !.reopened = n,
                       !.escalated = Escalated(c, to)]
  <2>1. /\ cases[t][c] \in Record /\ cases[t][c].reopened <= edits
    BY <1>t DEF CasesInv, RecordsFit
  <2>2. edits' = edits + 1 /\ edits \in Nat /\ edits' \in 0..MaxEdits /\ MaxEdits \in Nat
    BY <1>3, <1>t, EditType, BoundAssumption DEF SetStatus
  <2>3. /\ rec \in Record /\ rec.reopened <= edits + 1
        /\ rec.escalated = Escalated(c, rec.cstatus)
    <3>1. n \in 0..MaxEdits /\ n <= edits + 1
      BY <2>1, <2>2 DEF Record
    <3>2. /\ rec \in Record /\ rec.cstatus = to /\ rec.escalated = Escalated(c, to)
          /\ rec.reopened = n
      <4> HIDE DEF n
      <4>1. cases[t][c] \in Record /\ n \in 0..MaxEdits
        BY <2>1, <3>1
      <4>2. QED
        BY <4>1 DEF Record, Escalated
    <3> HIDE DEF rec, n
    <3>3. QED
      BY <3>1, <3>2
  <2>4. Edit /\ Persist(t, c, rec)
    BY <1>3 DEF SetStatus
  <2> HIDE DEF rec
  <2>5. /\ cases' \in [Tab -> [Case -> Record]] /\ saved' \in {NotSaved} \cup [Case -> Slot]
        /\ writer' \in Tab /\ RecordsFit' /\ LastWriterIsSaved'
    BY <2>3, <2>4, PersistPreserves
  <2>6. TypeOK' /\ ReadWasInView'
    BY <1>3, <1>t, <2>2, <2>5 DEF SetStatus, TypeOK, Record, Slot, CasesInv, ReadWasInView
  <2>7. QED
    BY <2>5, <2>6 DEF CasesInv
<1>4. ASSUME NEW t \in Tab, CloseDrawer(t) PROVE CasesInv'
  <2>1. edits' = edits /\ openId' \in [Tab -> Case \cup {NoCase}] /\ ReadWasInView'
    BY <1>4, <1>t DEF CloseDrawer, historyVars, TypeOK, CasesInv, ReadWasInView
  <2>2. edits' >= edits
    BY <1>t, <2>1, BoundAssumption
  <2>3. QED
    BY <1>4, <1>t, <2>1, <2>2, OthersKept DEF CloseDrawer, historyVars, TypeOK
<1>5. ASSUME NEW t \in Filtering, ClearFilters(t) PROVE CasesInv'
  BY <1>5, <1>t, FiltersKept DEF ClearFilters
<1>6. ASSUME NEW t \in Filtering, NEW k \in Fields, PickFilter(t, k) PROVE CasesInv'
  <2>1. PICK v : SetFilters(t, [rf[t] EXCEPT ![k] = v])
    BY <1>6 DEF PickFilter
  <2>2. DOMAIN [rf[t] EXCEPT ![k] = v] = DOMAIN NoFilter
    BY <1>t DEF TypeOK
  <2>3. QED
    BY <1>6, <1>t, <2>1, <2>2, FiltersKept DEF PickFilter
<1>7. ASSUME NEW t \in Filtering, NEW d \in Figure, Go(t, d) PROVE CasesInv'
  <2>1. PICK f : DOMAIN f = DOMAIN NoFilter /\ SetFilters(t, f)
    <3>1. /\ DOMAIN [NoFilter EXCEPT !.sent = "negative"] = DOMAIN NoFilter
          /\ DOMAIN [NoFilter EXCEPT !.risk = "high"] = DOMAIN NoFilter
          /\ DOMAIN [NoFilter EXCEPT !.overdue = "1"] = DOMAIN NoFilter
      OBVIOUS
    <3>2. \/ SetFilters(t, [NoFilter EXCEPT !.sent = "negative"])
          \/ SetFilters(t, [NoFilter EXCEPT !.risk = "high"])
          \/ SetFilters(t, [NoFilter EXCEPT !.overdue = "1"])
          \/ SetFilters(t, NoFilter)
      BY <1>7 DEF Go, Figure
    <3>3. QED
      BY <3>1, <3>2
  <2>2. QED
    BY <1>7, <1>t, <2>1, FiltersKept DEF Go
<1>8. ASSUME NEW t \in Filtering, NEW n \in Note, MarkRead(t, n) PROVE CasesInv'
  BY <1>8, <1>t, NotesKept DEF MarkRead, Listed
<1>9. ASSUME NEW t \in Filtering, MarkAllRead(t) PROVE CasesInv'
  BY <1>9, <1>t, NotesKept DEF MarkAllRead, Listed
<1>10. ASSUME NEW t \in Filtering, NEW r \in TabRole, SwitchRole(t, r) PROVE CasesInv'
  <2>1. edits' >= edits /\ edits' \in 0..MaxEdits
    BY <1>10, <1>t, EditType DEF SwitchRole
  <2>2. role' \in [Tab -> TabRole] /\ inView' \in [Tab -> SUBSET Note]
    BY <1>10, <1>t, NotesType DEF SwitchRole, TypeOK
  <2>3. ReadWasInView'
    BY <1>10, <1>t DEF SwitchRole, TypeOK, CasesInv, ReadWasInView
  <2>4. QED
    BY <1>10, <1>t, <2>1, <2>2, <2>3, OthersKept DEF SwitchRole, TypeOK
<1>11. ASSUME NEW c \in Case, Pass(c) PROVE CasesInv'
  <2>1. due' \in [Case -> {"far", "soon", "late"}]
    BY <1>11, <1>t DEF Pass, TypeOK
  <2>2. edits' = edits /\ edits' >= edits /\ ReadWasInView'
    BY <1>11, <1>t, BoundAssumption DEF Pass, historyVars, CasesInv, ReadWasInView
  <2>3. QED
    BY <1>11, <1>t, <2>1, <2>2, OthersKept DEF Pass, historyVars, TypeOK
<1>12. CASE UNCHANGED vars
  <2>1. edits' = edits /\ edits' >= edits /\ ReadWasInView'
    BY <1>12, <1>t, BoundAssumption DEF vars, CasesInv, ReadWasInView
  <2>2. QED
    BY <1>12, <1>t, <2>1, OthersKept DEF vars, TypeOK
<1>13. QED
  BY <1>1, <1>2, <1>3, <1>4, <1>5, <1>6, <1>7, <1>8, <1>9, <1>10, <1>11, <1>12 DEF Next

-------------------------------------------------------------------------------
(* The theorems *)

THEOREM CasesInvariant == Spec => [](CasesInv /\ Listed)
<1>1. Init => Listed
  BY DEF Init, Listed
<1>2. CasesInv => TypeOK
  BY DEF CasesInv
<1>3. QED
  BY <1>1, <1>2, InitCases, NextCases, NextListed, PTL DEF Spec

\* Every variable keeps its type, whatever the tabs and the data are.
THEOREM TypeCorrect == Spec => []TypeOK
<1>1. CasesInv => TypeOK
  BY DEF CasesInv
<1>2. QED
  BY <1>1, CasesInvariant, PTL

\* localStorage is always the whole state of the tab that wrote last (db.ts:144).
THEOREM StorageIsLastWriters == Spec => []LastWriterIsSaved
<1>1. CasesInv => LastWriterIsSaved
  BY DEF CasesInv
<1>2. QED
  BY <1>1, CasesInvariant, PTL

\* No notification is read in a tab none of whose roles listed it (db.ts:198).
THEOREM ReadNotesWereListed == Spec => []ReadWasInView
<1>1. CasesInv => ReadWasInView
  BY DEF CasesInv
<1>2. QED
  BY <1>1, CasesInvariant, PTL

-------------------------------------------------------------------------------
(* Where a figure leads *)

\* A filter on one field keeps the cases with that value and no others.
LEMMA FigureFilters ==
    ASSUME TypeOK, NEW t \in Tab, NEW d \in {"neg", "cases", "overdue", "high"}, Go(t, d)
    PROVE  /\ rf'[t] = CASE d = "neg"     -> [NoFilter EXCEPT !.sent = "negative"]
                         [] d = "high"    -> [NoFilter EXCEPT !.risk = "high"]
                         [] d = "overdue" -> [NoFilter EXCEPT !.overdue = "1"]
                         [] OTHER         -> NoFilter
           /\ UNCHANGED <<cases, role, due>>
BY DEF Go, SetFilters, TypeOK

LEMMA FigureStep ==
    ASSUME TypeOK, NEW t \in Tab, NEW d \in {"neg", "cases", "overdue", "high"}, Go(t, d)
    PROVE  IF d = "high" THEN Counted(t, d) \subseteq Reached(t, d)'
           ELSE Counted(t, d) = Reached(t, d)'
<1>1. UNCHANGED <<cases, role, due>> /\ Mine(t)' = Mine(t)
  BY FigureFilters DEF Mine
<1>2. CASE d = "neg"
  <2>1. rf'[t] = [NoFilter EXCEPT !.sent = "negative"]
    BY <1>2, FigureFilters
  <2>2. ReviewsList(t)' = {c \in Mine(t) : CaseSentiment[c] = "negative"}
    BY <1>1, <2>1 DEF ReviewsList, ReviewFilters, Passes, NoFilter
  <2>3. QED
    BY <1>2, <2>2 DEF Counted, Reached
<1>3. CASE d = "high"
  <2>1. rf'[t] = [NoFilter EXCEPT !.risk = "high"]
    BY <1>3, FigureFilters
  <2>2. ReviewsList(t)' = {c \in Mine(t) : CaseRisk[c] = "high"}
    BY <1>1, <2>1 DEF ReviewsList, ReviewFilters, Passes, NoFilter
  <2>3. QED
    BY <1>3, <2>2 DEF Counted, Reached
<1>4. CASE d = "overdue"
  <2>1. rf'[t] = [NoFilter EXCEPT !.overdue = "1"]
    BY <1>4, FigureFilters
  <2>2. CasesList(t)' = Overdue(t)
    BY <1>1, <2>1 DEF CasesList, ReviewFilters, Passes, NoFilter, Overdue
  <2>3. QED
    BY <1>4, <2>2 DEF Counted, Reached
<1>5. CASE d = "cases"
  <2>1. rf'[t] = NoFilter
    BY <1>5, FigureFilters
  <2>2. ASSUME NEW c PROVE c \in CasesList(t)' <=> c \in Mine(t)
    <3>1. /\ NoFilter.q = "" /\ NoFilter.brand = "" /\ NoFilter.store = "" /\ NoFilter.risk = ""
          /\ NoFilter.sent = "" /\ NoFilter.status = "" /\ NoFilter.cat = ""
          /\ NoFilter.overdue # "1"
      BY DEF NoFilter
    <3>2. CasesList(t)' = {k \in Mine(t) : TRUE}
      BY <1>1, <2>1, <3>1 DEF CasesList, ReviewFilters, Passes
    <3>3. QED
      BY <3>2
  <2>3. CasesList(t)' = Mine(t)
    BY <1>1, <2>2 DEF CasesList, ReviewFilters
  <2>4. QED
    BY <1>5, <2>3 DEF Counted, Reached
<1>6. QED
  BY <1>2, <1>3, <1>4, <1>5

\* A figure leads to the list of the cases it counts, whatever was filtered
\* before and whatever the cases are (Dashboard.tsx:24-31).
THEOREM FiguresLead == Spec => FigureOpensItsCases
<1>1. CasesInv /\ [Next]_vars =>
        [\A t \in Tab, d \in {"neg", "cases", "overdue", "high"} :
            Go(t, d) => IF d = "high" THEN Counted(t, d) \subseteq Reached(t, d)'
                        ELSE Counted(t, d) = Reached(t, d)']_vars
  BY FigureStep DEF CasesInv
<1>2. QED
  BY <1>1, CasesInvariant, PTL DEF Spec, FigureOpensItsCases

-------------------------------------------------------------------------------
(* What one tab loses to another *)

\* Tab u writes its cases to localStorage.
Writes(u) == \E c \in Case : OpenCase(u, c) \/ \E to \in Status : SetStatus(u, c, to)

\* No tab but t does.
WritesAlone(t) == \A u \in Tab \ {t} : ~Writes(u)

\* The tab has in memory what it would find if it were loaded now.
MemoryIsSaved(t) ==
    \A c \in Case : /\ Loaded(c).cstatus = cases[t][c].cstatus
                    /\ Loaded(c).read = cases[t][c].read
                    /\ Loaded(c).escalated = cases[t][c].escalated

\* The statuses a tab has move by the buttons of the drawer, and what was read
\* stays read.
NothingIsLost(t) ==
    \A c \in Case :
        /\ cases[t][c].read => cases'[t][c].read
        /\ \/ cases'[t][c].cstatus = cases[t][c].cstatus
           \/ cases'[t][c].cstatus \in CASE_TRANS(cases[t][c].cstatus)

\* Replacing the record of one case changes nothing else.
LEMMA OneReplaced ==
    ASSUME CasesInv, CasesInv', NEW t \in Tab, NEW c \in Case, NEW rec, Persist(t, c, rec),
           cases[t][c].read => rec.read,
           rec.cstatus = cases[t][c].cstatus \/ rec.cstatus \in CASE_TRANS(cases[t][c].cstatus)
    PROVE  MemoryIsSaved(t)' /\ NothingIsLost(t)
<1>t. cases \in [Tab -> [Case -> Record]] /\ cases' \in [Tab -> [Case -> Record]]
  BY DEF CasesInv, TypeOK, Record
<1>1. /\ cases' = [cases EXCEPT ![t][c] = rec]
      /\ saved' = [k \in Case |-> [s |-> cases'[t][k].cstatus, read |-> cases'[t][k].read]]
      /\ writer' = t
  BY DEF Persist
<1>2. saved' # NotSaved
  <2>1. \A k \in Case : cases'[t][k].cstatus \in Status /\ cases'[t][k].read \in BOOLEAN
    BY <1>t DEF Record
  <2>2. saved' \in [Case -> Slot]
    BY <1>1, <2>1 DEF Slot
  <2>3. QED
    BY <2>2, SavedAssumption DEF Slot
<1>3. MemoryIsSaved(t)'
  BY <1>1, <1>2 DEF CasesInv, LastWriterIsSaved, MemoryIsSaved, Loaded, Escalated
<1>4. \A k \in Case : cases'[t][k] = IF k = c THEN rec ELSE cases[t][k]
  BY <1>t, <1>1
<1>5. QED
  BY <1>3, <1>4 DEF NothingIsLost

LEMMA AloneStep ==
    ASSUME CasesInv, CasesInv', NEW t \in Tab, MemoryIsSaved(t), [Next /\ WritesAlone(t)]_vars
    PROVE  MemoryIsSaved(t)' /\ NothingIsLost(t)
<1>t. TypeOK /\ cases \in [Tab -> [Case -> Record]]
  BY DEF CasesInv, TypeOK, Record
<1>1. ASSUME NEW c \in Case, OpenCase(t, c) PROVE MemoryIsSaved(t)' /\ NothingIsLost(t)
  <2> DEFINE rec == [cases[t][c] EXCEPT !.read = TRUE]
  <2>1. cases[t][c] \in Record
    BY <1>t
  <2>2. rec.cstatus = cases[t][c].cstatus /\ rec.read
    BY <2>1 DEF Record
  <2>3. Persist(t, c, rec)
    BY <1>1 DEF OpenCase
  <2> HIDE DEF rec
  <2>4. QED
    BY <2>2, <2>3, OneReplaced
<1>2. ASSUME NEW c \in Case, NEW to \in Status, SetStatus(t, c, to)
      PROVE  MemoryIsSaved(t)' /\ NothingIsLost(t)
  <2> DEFINE again == to = "open" /\ cases[t][c].cstatus \in {"closed", "done"}
             n == IF again THEN cases[t][c].reopened + 1 ELSE cases[t][c].reopened
             rec == [cases[t][c] EXCEPT
                       !.cstatus = to,
                       !.reopened = n,
                       !.escalated = Escalated(c, to)]
  <2>1. cases[t][c] \in Record
    BY <1>t
  <2>2. rec.cstatus = to /\ rec.read = cases[t][c].read
    <3> HIDE DEF n
    <3>1. QED
      BY <2>1 DEF Record
  <2>3. Persist(t, c, rec) /\ to \in CASE_TRANS(cases[t][c].cstatus)
    BY <1>2 DEF SetStatus
  <2> HIDE DEF rec, n
  <2>4. QED
    BY <2>2, <2>3, OneReplaced
<1>3. ASSUME NEW u \in Tab, Load(u) PROVE MemoryIsSaved(t)' /\ NothingIsLost(t)
  <2>1. cases' = [cases EXCEPT ![u] = [c \in Case |-> Loaded(c)]] /\ saved' = saved
    BY <1>3 DEF Load
  <2>2. ASSUME NEW c \in Case
        PROVE  /\ cases'[t][c].cstatus = cases[t][c].cstatus
               /\ cases'[t][c].read = cases[t][c].read
               /\ cases'[t][c].escalated = cases[t][c].escalated
               /\ Loaded(c)' = Loaded(c)
    <3>1. cases'[t][c] = IF u = t THEN Loaded(c) ELSE cases[t][c]
      BY <1>t, <2>1
    <3>2. Loaded(c)' = Loaded(c)
      BY <2>1 DEF Loaded, Escalated
    <3>3. QED
      BY <3>1, <3>2 DEF MemoryIsSaved
  <2>3. \A c \in Case : /\ Loaded(c)'.cstatus = cases'[t][c].cstatus
                        /\ Loaded(c)'.read = cases'[t][c].read
                        /\ Loaded(c)'.escalated = cases'[t][c].escalated
    BY <2>2 DEF MemoryIsSaved
  <2>4. QED
    BY <2>2, <2>3 DEF MemoryIsSaved, NothingIsLost
<1>4. ASSUME UNCHANGED <<cases, saved>> PROVE MemoryIsSaved(t)' /\ NothingIsLost(t)
  BY <1>4 DEF MemoryIsSaved, NothingIsLost, Loaded, Escalated
<1>5. ASSUME Next, WritesAlone(t) PROVE MemoryIsSaved(t)' /\ NothingIsLost(t)
  <2>1. CASE \E u \in Tab : Writes(u)
    <3>1. Writes(t)
      BY <1>5, <2>1 DEF WritesAlone
    <3>2. QED
      BY <1>1, <1>2, <3>1 DEF Writes
  <2>2. CASE \E u \in Tab : Load(u)
    BY <1>3, <2>2
  <2>3. CASE ~ (\E u \in Tab : Writes(u)) /\ ~ (\E u \in Tab : Load(u))
    <3>1. \A u \in Tab, c \in Case : ~ OpenCase(u, c) /\ \A to \in Status : ~ SetStatus(u, c, to)
      BY <2>3 DEF Writes
    <3>2. UNCHANGED <<cases, saved>>
      BY <1>5, <2>3, <3>1
         DEF Next, CloseDrawer, PickFilter, ClearFilters, SetFilters, Go, MarkNotes, MarkRead,
             MarkAllRead, SwitchRole, Pass
    <3>3. QED
      BY <1>4, <3>2
  <2>4. QED
    BY <2>1, <2>2, <2>3
<1>6. QED
  BY <1>4, <1>5 DEF vars

\* A tab loses a change only to another tab: as long as the others open no case
\* and set no status, its statuses move by the buttons of the drawer alone, and
\* what it has read stays read, however often it is loaded anew (db.ts:144-148).
THEOREM OtherTabsOverwrite ==
    ASSUME NEW t \in Tab
    PROVE  Spec /\ [][WritesAlone(t)]_vars => []MemoryIsSaved(t) /\ [][NothingIsLost(t)]_vars
<1>1. ASSUME Init PROVE MemoryIsSaved(t)
  <2>1. ASSUME NEW c \in Case
        PROVE  /\ Loaded(c).cstatus = cases[t][c].cstatus
               /\ Loaded(c).read = cases[t][c].read
               /\ Loaded(c).escalated = cases[t][c].escalated
    <3>1. /\ cases[t][c].cstatus = Seed[c]
          /\ cases[t][c].read = FALSE
          /\ cases[t][c].escalated = Escalated(c, Seed[c])
      BY <1>1 DEF Init
    <3>2. /\ Loaded(c).cstatus = Seed[c]
          /\ Loaded(c).escalated = Escalated(c, Seed[c])
      BY <1>1 DEF Init, Loaded
    <3>3. Loaded(c).read = FALSE
      <4>1. Loaded(c).read = (saved # NotSaved /\ saved[c].read)
        BY DEF Loaded
      <4>2. (saved # NotSaved /\ saved[c].read) = FALSE
        BY <1>1, Zenon DEF Init
      <4>3. QED
        BY <4>1, <4>2, Zenon
    <3>4. QED
      BY <3>1, <3>2, <3>3, Zenon
  <2>2. QED
    BY <2>1 DEF MemoryIsSaved
<1>2. CasesInv /\ CasesInv' /\ MemoryIsSaved(t) /\ [Next]_vars /\ [WritesAlone(t)]_vars
        => MemoryIsSaved(t)' /\ [NothingIsLost(t)]_vars
  BY AloneStep
<1>3. QED
  BY <1>1, <1>2, CasesInvariant, PTL DEF Spec
===============================================================================
