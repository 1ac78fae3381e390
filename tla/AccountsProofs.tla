--------------------------- MODULE AccountsProofs ---------------------------
(***************************************************************************)
(* Proofs about Accounts, for any sets of accounts, names, types and dates *)
(* and any number of callers.                                              *)
(*                                                                         *)
(* The properties speak of descendants at any depth; the code checks only  *)
(* parents and children.  The inductive invariant AccountsInv therefore    *)
(* speaks of parents and children, and DescendantsInherit lifts it.        *)
(***************************************************************************)
EXTENDS Accounts, TLAPS

\* Every account below a non-root one has a row to hang from, and a row has
\* an event: an id that was used is never minted again.
Rooted ==
    \A a \in rows : eventCount[a] > 0 /\ (parent[a] = NoAccount \/ parent[a] \in rows)

\* What the code checks between an account and its parent.
ChildrenAgree ==
    \A a \in rows : parent[a] \in rows =>
        /\ closed[parent[a]] # NoDate => closed[a] # NoDate
        /\ archived[parent[a]] => archived[a]
        /\ type[a] = type[parent[a]]

AccountsInv ==
    /\ TypeOK
    /\ Rooted
    /\ ChildrenAgree
    /\ LifeInOrder
    /\ PathNamesOneAccount
    /\ EventsExplainDates

-----------------------------------------------------------------------------
(* The forest.                                                             *)

\* Descendants(a) holds the children of a and of each of its members, as the
\* recursive query of descendants_of collects them.
LEMMA DescendantsHoldSubtree ==
    ASSUME NEW a
    PROVE  HoldsSubtree(Descendants(a), a)
  <1>1. ChildrenOf(a) \subseteq Descendants(a)
    BY DEF ChildrenOf, Descendants, HoldsSubtree
  <1>2. \A s \in Descendants(a) : ChildrenOf(s) \subseteq Descendants(a)
    BY DEF ChildrenOf, Descendants, HoldsSubtree
  <1> QED
    BY <1>1, <1>2 DEF HoldsSubtree

\* Descendants(a) is the least such set.
LEMMA DescendantsLeast ==
    ASSUME NEW a, NEW S \in SUBSET rows, HoldsSubtree(S, a)
    PROVE  Descendants(a) \subseteq S
  BY DEF Descendants

\* What holds between parents and children holds at any depth.
LEMMA DescendantsInherit ==
    ASSUME AccountsInv
    PROVE  ClosedAboveClosed /\ ArchivedAboveArchived /\ OneTypePerTree
  <1>1. ClosedAboveClosed
    <2> SUFFICES ASSUME NEW a \in rows, closed[a] # NoDate
                 PROVE  \A d \in Descendants(a) : closed[d] # NoDate
      BY DEF ClosedAboveClosed
    <2> DEFINE S == {d \in rows : closed[d] # NoDate}
    <2>1. HoldsSubtree(S, a)
      BY DEF HoldsSubtree, ChildrenOf, AccountsInv, ChildrenAgree
    <2> QED
      BY <2>1, DescendantsLeast
  <1>2. ArchivedAboveArchived
    <2> SUFFICES ASSUME NEW a \in rows, archived[a]
                 PROVE  \A d \in Descendants(a) : archived[d]
      BY DEF ArchivedAboveArchived
    <2> DEFINE S == {d \in rows : archived[d]}
    <2>1. HoldsSubtree(S, a)
      BY DEF HoldsSubtree, ChildrenOf, AccountsInv, ChildrenAgree
    <2> QED
      BY <2>1, DescendantsLeast
  <1>3. OneTypePerTree
    <2> SUFFICES ASSUME NEW a \in rows
                 PROVE  \A d \in Descendants(a) : type[d] = type[a]
      BY DEF OneTypePerTree
    <2> DEFINE S == {d \in rows : type[d] = type[a]}
    <2>1. HoldsSubtree(S, a)
      BY DEF HoldsSubtree, ChildrenOf, AccountsInv, ChildrenAgree
    <2> QED
      BY <2>1, DescendantsLeast
  <1> QED
    BY <1>1, <1>2, <1>3

-----------------------------------------------------------------------------
(* Creation.                                                               *)

LEMMA InitAccountsInv == Init => AccountsInv
  BY AccountAssumption
  DEF Init, AccountsInv, TypeOK, Rooted, ChildrenAgree, LifeInOrder, PathNamesOneAccount,
      EventsExplainDates, CreatedView, View, NoDate, MaybeDate, MaybeList, MaybeAccount

\* create_in_tx, for one row or for a chain of them: the new rows have
\* types, hang from each other or from a parent that accepts them, and no
\* two rows share a parent and a name.
LEMMA InsertKeepsInv ==
    ASSUME AccountsInv,
           NEW ids, NEW names, NEW parents, NEW t \in Type, NEW leaf \in ids,
           NEW on \in MaybeDate, NEW list \in MaybeList,
           InsertRows(ids, names, parents, t, leaf, on, list),
           \A a \in ids : names[a] \in Name,
           \A a \in ids : parents[a] \in ids \/ MayAdopt(parents[a], t),
           \A a \in ids : parents[a] \notin ids => NameFree(parents[a], names[a]),
           \A a, b \in ids : parents[a] = parents[b] /\ names[a] = names[b] => a = b,
           known' \in [Creator -> Snapshot \cup {NoSnapshot}]
    PROVE  AccountsInv'
  <1> USE AccountAssumption
  <1>1. ids \subseteq Account /\ \A a \in ids : eventCount[a] = 0 /\ a \notin rows
    BY DEF InsertRows, Fresh, AccountsInv, TypeOK, Rooted
  <1>2. \A a \in ids : parents[a] \in ids \cup rows \cup {NoAccount}
    BY DEF MayAdopt
  <1>3. TypeOK'
    <2>1. /\ rows' \subseteq Account /\ name' \in [Account -> Name]
          /\ parent' \in [Account -> MaybeAccount] /\ type' \in [Account -> Type]
      BY <1>1, <1>2 DEF InsertRows, AccountsInv, TypeOK, MaybeAccount
    <2>2. NoDate \in MaybeDate
      BY DEF NoDate, MaybeDate
    <2>3. opened' \in [Account -> MaybeDate] /\ closed' \in [Account -> MaybeDate]
      BY <2>2 DEF InsertRows, AccountsInv, TypeOK
    <2>4. archived' \in [Account -> BOOLEAN]
      BY DEF InsertRows, AccountsInv, TypeOK
    <2>5. commodities' \in [Account -> MaybeList]
      BY DEF InsertRows, AccountsInv, TypeOK, MaybeList
    <2>6. \A d \in MaybeDate : CreatedView(d) \in View
      BY <2>2 DEF CreatedView, View, MaybeList
    <2>7. eventCount' \in [Account -> Nat] /\ logged' \in [Account -> View]
      BY <2>2, <2>6 DEF InsertRows, AppendEvents, AccountsInv, TypeOK
    <2> QED
      BY <2>1, <2>3, <2>4, <2>5, <2>7 DEF TypeOK
  <1>4. Rooted'
    BY <1>1, <1>2 DEF InsertRows, AppendEvents, AccountsInv, TypeOK, Rooted
  <1>5. ChildrenAgree'
    <2> SUFFICES ASSUME NEW a \in rows', parent'[a] \in rows'
                 PROVE  /\ closed'[parent'[a]] # NoDate => closed'[a] # NoDate
                        /\ archived'[parent'[a]] => archived'[a]
                        /\ type'[a] = type'[parent'[a]]
      BY DEF ChildrenAgree
    <2>1. CASE a \in ids
      BY <2>1, <1>1 DEF InsertRows, MayAdopt, AccountsInv, TypeOK
    <2>2. CASE a \notin ids
      BY <2>2, <1>1 DEF InsertRows, AccountsInv, TypeOK, Rooted, ChildrenAgree
    <2> QED
      BY <2>1, <2>2
  <1>6. LifeInOrder'
    BY <1>1 DEF InsertRows, AccountsInv, TypeOK, LifeInOrder
  <1>7. ASSUME NEW a \in ids, NEW b \in rows
        PROVE  ~ (parent'[a] = parent'[b] /\ name'[a] = name'[b])
    <2>1. /\ parent'[a] = parents[a] /\ name'[a] = names[a]
          /\ parent'[b] = parent[b] /\ name'[b] = name[b]
      BY <1>1 DEF InsertRows, AccountsInv, TypeOK
    <2>2. parent[b] \notin ids
      BY <1>1 DEF AccountsInv, Rooted
    <2> QED
      BY <2>1, <2>2 DEF NameFree
  <1>8. PathNamesOneAccount'
    <2> SUFFICES ASSUME NEW a \in rows', NEW b \in rows', a # b, parent'[a] = parent'[b]
                 PROVE  name'[a] # name'[b]
      BY DEF PathNamesOneAccount
    <2>1. CASE a \in ids /\ b \in ids
      BY <2>1, <1>1 DEF InsertRows
    <2>2. CASE a \notin ids /\ b \notin ids
      BY <2>2, <1>1 DEF InsertRows, AccountsInv, TypeOK, PathNamesOneAccount
    <2>3. CASE a \in ids /\ b \notin ids
      BY <2>3, <1>7 DEF InsertRows
    <2>4. CASE a \notin ids /\ b \in ids
      BY <2>4, <1>7 DEF InsertRows
    <2> QED
      BY <2>1, <2>2, <2>3, <2>4
  <1>9. EventsExplainDates'
    BY <1>1 DEF InsertRows, AppendEvents, AccountsInv, TypeOK, EventsExplainDates, CreatedView
  <1> QED
    BY <1>3, <1>4, <1>5, <1>6, <1>8, <1>9 DEF AccountsInv

\* Service::create.
LEMMA CreateKeepsInv ==
    ASSUME AccountsInv,
           NEW id \in Account, NEW n \in Name, NEW t \in Type, NEW p,
           NEW on \in MaybeDate, NEW list \in MaybeList, Create(id, n, t, p, on, list)
    PROVE  AccountsInv'
  <1> DEFINE names == [a \in Account |-> n]
             parents == [a \in Account |-> p]
  <1>1. InsertRows({id}, names, parents, t, id, on, list)
    BY DEF Create
  <1>2. id \notin rows
    BY <1>1 DEF InsertRows, Fresh, AccountsInv, Rooted
  <1>3. \A a \in {id} : /\ names[a] \in Name
                        /\ MayAdopt(parents[a], t)
                        /\ NameFree(parents[a], names[a])
    BY DEF Create
  <1>4. known' \in [Creator -> Snapshot \cup {NoSnapshot}]
    BY DEF Create, AccountsInv, TypeOK
  <1> HIDE DEF names, parents
  <1> QED
    BY <1>1, <1>3, <1>4, InsertKeepsInv

\* The chain of segments a create_paths call mints is what InsertKeepsInv
\* asks for: the first hangs from base, which accepts it, each other from the
\* one before it.
LEMMA CreatePathKeepsInv ==
    ASSUME AccountsInv,
           NEW c \in Creator, NEW p \in Path, NEW d \in 0 .. Len(p) - 1,
           NEW chain \in [1 .. d -> Account], NEW minted \in [1 .. Len(p) - d -> Fresh],
           NEW asked \in Type \cup {NoType}, NEW on \in MaybeDate, NEW list \in MaybeList,
           CreatePath(c, p, chain, minted, asked, on, list)
    PROVE  AccountsInv'
  <1> USE AccountAssumption
  <1> DEFINE k == known[c]
             t == PathType(k, p, chain, asked)
             base == LastOf(chain)
             n == Len(minted)
             ids == {minted[i] : i \in 1 .. n}
             at == [a \in ids |-> CHOOSE i \in 1 .. n : minted[i] = a]
             names == [a \in ids |-> p[Len(chain) + at[a]]]
             parents == [a \in ids |-> IF at[a] = 1 THEN base ELSE minted[at[a] - 1]]
             leaf == minted[n]
  <1>1. /\ p \in Seq(Name) /\ p # <<>> /\ Len(p) \in Nat
        /\ Len(chain) = d /\ n = Len(p) - d /\ n \in Nat /\ n > 0
    BY DEF Fresh
  <1>2. \A a \in ids : at[a] \in 1 .. n /\ minted[at[a]] = a
    OBVIOUS
  <1>3. InsertRows(ids, names, parents, t, leaf, on, list)
    BY DEF CreatePath
  <1>4. leaf \in ids
    BY <1>1
  <1>5. t \in Type
    BY <1>1 DEF CreatePath, PathType, AccountsInv, TypeOK, Snapshot
  <1>6. \A a \in ids : names[a] \in Name
    BY <1>1, <1>2
  <1>7. MayAdopt(base, t) /\ NameFree(base, p[Len(chain) + 1])
    BY DEF CreatePath
  <1>8. base \notin ids
    <2>1. ids \subseteq Fresh
      BY <1>1
    <2>2. \A a \in ids : a \in Account /\ a \notin rows
      BY <2>1 DEF Fresh, AccountsInv, Rooted
    <2> QED
      BY <1>7, <2>2 DEF MayAdopt
  <1>9. ASSUME NEW a \in ids, at[a] = 1
        PROVE  parents[a] = base /\ a = minted[1] /\ names[a] = p[Len(chain) + 1]
    BY <1>2, <1>9
  <1>10. ASSUME NEW a \in ids, at[a] # 1
         PROVE  /\ at[a] - 1 \in 1 .. n
                /\ parents[a] = minted[at[a] - 1]
                /\ parents[a] \in ids
    <2>1. at[a] \in 1 .. n
      BY <1>2
    <2>2. at[a] - 1 \in 1 .. n
      <3> HIDE DEF at, n
      <3> QED
        BY <2>1, <1>1, <1>10
    <2>3. parents[a] = minted[at[a] - 1]
      BY <1>10
    <2>4. minted[at[a] - 1] \in ids
      <3> HIDE DEF at
      <3> QED
        BY <2>2
    <2> QED
      BY <2>2, <2>3, <2>4
  <1>11. \A a \in ids : parents[a] \in ids \/ MayAdopt(parents[a], t)
    BY <1>7, <1>9, <1>10
  <1>12. \A a \in ids : parents[a] \notin ids => NameFree(parents[a], names[a])
    BY <1>7, <1>9, <1>10
  <1>13. \A i, j \in 1 .. n : minted[i] = minted[j] => i = j
    BY DEF CreatePath
  <1>14. ASSUME NEW a \in ids, NEW b \in ids, parents[a] = parents[b]
         PROVE  a = b
    <2>1. CASE at[a] = 1 /\ at[b] = 1
      BY <2>1, <1>9
    <2>2. CASE at[a] = 1 /\ at[b] # 1
      BY <2>2, <1>8, <1>9, <1>10, <1>14
    <2>3. CASE at[a] # 1 /\ at[b] = 1
      BY <2>3, <1>8, <1>9, <1>10, <1>14
    <2>4. CASE at[a] # 1 /\ at[b] # 1
      <3> HIDE DEF at, parents, n, ids
      <3>1. at[a] - 1 = at[b] - 1
        BY <2>4, <1>10, <1>13, <1>14
      <3> QED
        BY <3>1, <1>1, <1>2
    <2> QED
      BY <2>1, <2>2, <2>3, <2>4
  <1>15. known' \in [Creator -> Snapshot \cup {NoSnapshot}]
    BY DEF CreatePath, AccountsInv, TypeOK
  <1> HIDE DEF k, t, base, n, ids, at, names, parents, leaf
  <1> QED
    BY <1>3, <1>4, <1>5, <1>6, <1>11, <1>12, <1>14, <1>15, InsertKeepsInv

-----------------------------------------------------------------------------
(* Maintenance.                                                            *)

\* A write that appends one event each for the accounts of S, to existing
\* rows only, and explains its own change, keeps the parts of the invariant
\* that do not speak of parents and children.
LEMMA AppendKeepsLog ==
    ASSUME AccountsInv, NEW S, NEW view, AppendEvents(S, view),
           \A a \in S : view[a] \in View,
           rows' = rows
    PROVE  /\ eventCount' \in [Account -> Nat]
           /\ logged' \in [Account -> View]
           /\ \A a \in rows : eventCount'[a] > 0
           /\ \A a \in rows : logged'[a] = IF a \in S THEN view[a] ELSE logged[a]
  BY DEF AppendEvents, AccountsInv, TypeOK, Rooted

\* What the events of account.rs do to a replayed view.
LEMMA ArchivedView ==
    ASSUME NEW r \in View
    PROVE  LET s == [r EXCEPT !.archived = TRUE]
           IN  s \in View /\ s.archived = TRUE /\ s.opened = r.opened /\ s.closed = r.closed
  BY DEF View

LEMMA ClosedView ==
    ASSUME NEW r \in View, NEW on \in MaybeDate
    PROVE  LET s == [r EXCEPT !.closed = on]
           IN  s \in View /\ s.archived = r.archived /\ s.opened = r.opened /\ s.closed = on
  BY DEF View

LEMMA OpenedView ==
    ASSUME NEW r \in View, NEW on \in MaybeDate
    PROVE  LET s == [r EXCEPT !.opened = on]
           IN  s \in View /\ s.archived = r.archived /\ s.opened = on /\ s.closed = r.closed
  BY DEF View

LEMMA CommoditiesView ==
    ASSUME NEW r \in View, NEW list \in MaybeList
    PROVE  LET s == [r EXCEPT !.commodities = list]
           IN  /\ s \in View /\ s.archived = r.archived
               /\ s.opened = r.opened /\ s.closed = r.closed
  BY DEF View

\* Service::archive: whatever it archives, it leaves no child behind.
LEMMA ArchiveKeepsInv ==
    ASSUME AccountsInv, NEW id \in Account, NEW cascade \in BOOLEAN, Archive(id, cascade)
    PROVE  AccountsInv'
  <1> DEFINE hit == {a \in {id} : ~archived[a]}
                    \cup (IF cascade THEN ActiveDescendants(id) ELSE {})
             view == [a \in Account |-> [logged[a] EXCEPT !.archived = TRUE]]
  <1>1. /\ id \in rows
        /\ cascade \/ ActiveDescendants(id) = {}
        /\ archived' = [a \in Account |-> archived[a] \/ a \in hit]
        /\ AppendEvents(hit, view)
        /\ UNCHANGED <<rows, name, parent, type, opened, closed, commodities, known>>
    BY DEF Archive
  <1>2. hit \subseteq rows /\ rows \subseteq Account
    BY <1>1 DEF ActiveDescendants, Descendants, AccountsInv, TypeOK
  <1>3. \A a \in Account : archived'[a] <=> archived[a] \/ a \in hit
    BY <1>1
  <1>4. \A a \in hit : /\ view[a] \in View /\ view[a].archived = TRUE
                       /\ view[a].opened = logged[a].opened
                       /\ view[a].closed = logged[a].closed
    BY <1>2, ArchivedView DEF AccountsInv, TypeOK
  <1>5. /\ eventCount' \in [Account -> Nat]
        /\ logged' \in [Account -> View]
        /\ \A a \in rows : eventCount'[a] > 0
        /\ \A a \in rows : logged'[a] = IF a \in hit THEN view[a] ELSE logged[a]
    <2> HIDE DEF hit, view
    <2> QED
      BY <1>1, <1>4, AppendKeepsLog
  <1>6. ASSUME NEW a \in rows, parent[a] \in rows, archived'[parent[a]]
        PROVE  archived'[a]
    <2>1. CASE archived[parent[a]]
      <3>1. archived[a]
        BY <2>1, <1>6 DEF AccountsInv, ChildrenAgree
      <3> QED
        BY <3>1, <1>2, <1>3
    <2>2. CASE parent[a] \in {id} \cup Descendants(id)
      <3>1. a \in Descendants(id)
        BY <2>2, DescendantsHoldSubtree DEF HoldsSubtree, ChildrenOf
      <3>2. archived[a] \/ a \in hit
        BY <3>1, <1>1 DEF ActiveDescendants
      <3> QED
        BY <3>2, <1>2, <1>3
    <2>3. archived[parent[a]] \/ parent[a] \in hit
      BY <1>2, <1>3, <1>6
    <2>4. hit \subseteq {id} \cup Descendants(id)
      BY DEF ActiveDescendants
    <2> QED
      BY <2>1, <2>2, <2>3, <2>4
  <1>7. archived' \in [Account -> BOOLEAN]
    BY <1>1 DEF AccountsInv, TypeOK
  <1>8. EventsExplainDates'
    <2> HIDE DEF hit, view
    <2> SUFFICES ASSUME NEW a \in rows
                 PROVE  /\ logged'[a].opened = opened[a] /\ logged'[a].closed = closed[a]
                        /\ logged'[a].archived = archived'[a]
      BY <1>1 DEF EventsExplainDates
    <2>1. CASE a \in hit
      <3>1. archived'[a] = TRUE
        <4>1. a \in Account /\ archived'[a]
          BY <2>1, <1>2, <1>3
        <4>2. archived'[a] \in BOOLEAN
          BY <4>1, <1>7
        <4> QED
          BY <4>1, <4>2
      <3> QED
        BY <3>1, <2>1, <1>4, <1>5 DEF AccountsInv, EventsExplainDates
    <2>2. CASE a \notin hit
      <3>1. archived'[a] = archived[a]
        BY <2>2, <1>2, <1>3, <1>7 DEF AccountsInv, TypeOK
      <3> QED
        BY <3>1, <2>2, <1>5 DEF AccountsInv, EventsExplainDates
    <2> QED
      BY <2>1, <2>2
  <1>9. TypeOK'
    BY <1>1, <1>5, <1>7 DEF AccountsInv, TypeOK
  <1>10. Rooted' /\ LifeInOrder' /\ PathNamesOneAccount'
    BY <1>1, <1>5 DEF AccountsInv, Rooted, LifeInOrder, PathNamesOneAccount
  <1>11. ChildrenAgree'
    BY <1>1, <1>6 DEF AccountsInv, ChildrenAgree
  <1> QED
    BY <1>8, <1>9, <1>10, <1>11 DEF AccountsInv

\* Service::close: the stamped accounts are downward closed among the open
\* ones, and the date is not before any opening date it is stamped on.
LEMMA CloseKeepsInv ==
    ASSUME AccountsInv, NEW id \in Account, NEW on \in Date, NEW cascade \in BOOLEAN,
           Close(id, on, cascade)
    PROVE  AccountsInv'
  <1> USE AccountAssumption
  <1> DEFINE hit == {a \in {id} : closed[a] = NoDate}
                    \cup (IF cascade THEN OpenDescendants(id) ELSE {})
             view == [a \in Account |-> [logged[a] EXCEPT !.closed = on]]
  <1>1. /\ id \in rows
        /\ cascade \/ OpenDescendants(id) = {}
        /\ MayCloseOn(id, on)
        /\ cascade => \A d \in OpenDescendants(id) : MayCloseOn(d, on)
        /\ closed' = [a \in Account |-> IF a \in hit THEN on ELSE closed[a]]
        /\ AppendEvents(hit, view)
        /\ UNCHANGED <<rows, name, parent, type, opened, archived, commodities, known>>
    BY DEF Close
  <1>2. hit \subseteq rows /\ rows \subseteq Account
    BY <1>1 DEF OpenDescendants, Descendants, AccountsInv, TypeOK
  <1>3. on \in MaybeDate /\ on # NoDate
    BY DEF Date, MaybeDate, NoDate
  <1>4. \A a \in Account : closed'[a] = IF a \in hit THEN on ELSE closed[a]
    BY <1>1
  <1>5. \A a \in hit : /\ view[a] \in View /\ view[a].closed = on
                       /\ view[a].opened = logged[a].opened
                       /\ view[a].archived = logged[a].archived
    <2> SUFFICES ASSUME NEW a \in hit
                 PROVE  /\ view[a] \in View /\ view[a].closed = on
                        /\ view[a].opened = logged[a].opened
                        /\ view[a].archived = logged[a].archived
      OBVIOUS
    <2>1. a \in Account /\ logged[a] \in View
      BY <1>2 DEF AccountsInv, TypeOK
    <2>2. view[a] = [logged[a] EXCEPT !.closed = on]
      BY <2>1
    <2> HIDE DEF view
    <2> QED
      BY <2>1, <2>2, <1>3, ClosedView
  <1>6. /\ eventCount' \in [Account -> Nat]
        /\ logged' \in [Account -> View]
        /\ \A a \in rows : eventCount'[a] > 0
        /\ \A a \in rows : logged'[a] = IF a \in hit THEN view[a] ELSE logged[a]
    <2> HIDE DEF hit, view
    <2> QED
      BY <1>1, <1>5, AppendKeepsLog
  <1>7. ASSUME NEW a \in rows, parent[a] \in rows, closed'[parent[a]] # NoDate
        PROVE  closed'[a] # NoDate
    <2>1. CASE closed[parent[a]] # NoDate
      <3>1. closed[a] # NoDate
        BY <2>1, <1>7 DEF AccountsInv, ChildrenAgree
      <3> QED
        BY <3>1, <1>2, <1>3, <1>4
    <2>2. CASE parent[a] \in {id} \cup Descendants(id)
      <3>1. a \in Descendants(id)
        BY <2>2, DescendantsHoldSubtree DEF HoldsSubtree, ChildrenOf
      <3>2. closed[a] # NoDate \/ a \in hit
        BY <3>1, <1>1 DEF OpenDescendants
      <3> QED
        BY <3>2, <1>2, <1>3, <1>4
    <2>3. closed[parent[a]] # NoDate \/ parent[a] \in hit
      BY <1>2, <1>4, <1>7
    <2>4. hit \subseteq {id} \cup Descendants(id)
      BY DEF OpenDescendants
    <2> QED
      BY <2>1, <2>2, <2>3, <2>4
  <1>8. closed' \in [Account -> MaybeDate]
    BY <1>1, <1>3 DEF AccountsInv, TypeOK
  <1>9. LifeInOrder'
    <2>1. \A a \in hit : MayCloseOn(a, on)
      BY <1>1
    <2> HIDE DEF hit
    <2> QED
      BY <2>1, <1>1, <1>2, <1>4 DEF AccountsInv, LifeInOrder, MayCloseOn
  <1>10. EventsExplainDates'
    <2> HIDE DEF hit, view
    <2> QED
      BY <1>1, <1>2, <1>4, <1>5, <1>6 DEF AccountsInv, EventsExplainDates
  <1>11. TypeOK'
    BY <1>1, <1>6, <1>8 DEF AccountsInv, TypeOK
  <1>12. Rooted' /\ PathNamesOneAccount'
    BY <1>1, <1>6 DEF AccountsInv, Rooted, PathNamesOneAccount
  <1>13. ChildrenAgree'
    BY <1>1, <1>7 DEF AccountsInv, ChildrenAgree
  <1> QED
    BY <1>9, <1>10, <1>11, <1>12, <1>13 DEF AccountsInv

\* Service::reopen: the parent of a reopened account is open.
LEMMA ReopenKeepsInv ==
    ASSUME AccountsInv, NEW id \in Account, Reopen(id)
    PROVE  AccountsInv'
  <1> USE AccountAssumption
  <1> DEFINE view == [a \in Account |-> [logged[a] EXCEPT !.closed = NoDate]]
  <1>1. /\ id \in rows
        /\ parent[id] # NoAccount => closed[parent[id]] = NoDate
        /\ closed' = [closed EXCEPT ![id] = NoDate]
        /\ AppendEvents({id}, view)
        /\ UNCHANGED <<rows, name, parent, type, opened, archived, commodities, known>>
    BY DEF Reopen
  <1>2. NoDate \in MaybeDate
    BY DEF MaybeDate, NoDate
  <1>3. /\ view[id] \in View /\ view[id].closed = NoDate
        /\ view[id].opened = logged[id].opened
        /\ view[id].archived = logged[id].archived
    <2>1. logged[id] \in View /\ view[id] = [logged[id] EXCEPT !.closed = NoDate]
      BY DEF AccountsInv, TypeOK
    <2> HIDE DEF view
    <2> QED
      BY <2>1, <1>2, ClosedView
  <1>4. /\ eventCount' \in [Account -> Nat]
        /\ logged' \in [Account -> View]
        /\ \A a \in rows : eventCount'[a] > 0
        /\ \A a \in rows : logged'[a] = IF a \in {id} THEN view[a] ELSE logged[a]
    <2> HIDE DEF view
    <2> QED
      BY <1>1, <1>3, AppendKeepsLog
  <1>5. rows \subseteq Account /\ closed \in [Account -> MaybeDate]
    BY DEF AccountsInv, TypeOK
  <1>6. ChildrenAgree'
    BY <1>1, <1>5 DEF AccountsInv, ChildrenAgree
  <1>7. LifeInOrder'
    BY <1>1, <1>5 DEF AccountsInv, LifeInOrder
  <1>8. EventsExplainDates'
    <2> HIDE DEF view
    <2> QED
      BY <1>1, <1>3, <1>4, <1>5 DEF AccountsInv, EventsExplainDates
  <1>9. TypeOK'
    BY <1>1, <1>2, <1>4 DEF AccountsInv, TypeOK
  <1>10. Rooted' /\ PathNamesOneAccount'
    BY <1>1, <1>4 DEF AccountsInv, Rooted, PathNamesOneAccount
  <1> QED
    BY <1>6, <1>7, <1>8, <1>9, <1>10 DEF AccountsInv

\* Service::set_opened_on, checked against the account's own closing date.
LEMMA SetOpenedOnKeepsInv ==
    ASSUME AccountsInv, NEW id \in Account, NEW on \in MaybeDate, SetOpenedOn(id, on)
    PROVE  AccountsInv'
  <1> DEFINE view == [a \in Account |-> [logged[a] EXCEPT !.opened = on]]
  <1>1. /\ id \in rows
        /\ MayOpenOn(id, on)
        /\ opened' = [opened EXCEPT ![id] = on]
        /\ AppendEvents({id}, view)
        /\ UNCHANGED <<rows, name, parent, type, closed, archived, commodities, known>>
    BY DEF SetOpenedOn
  <1>2. /\ view[id] \in View /\ view[id].opened = on
        /\ view[id].closed = logged[id].closed
        /\ view[id].archived = logged[id].archived
    <2>1. logged[id] \in View /\ view[id] = [logged[id] EXCEPT !.opened = on]
      BY DEF AccountsInv, TypeOK
    <2> HIDE DEF view
    <2> QED
      BY <2>1, OpenedView
  <1>3. /\ eventCount' \in [Account -> Nat]
        /\ logged' \in [Account -> View]
        /\ \A a \in rows : eventCount'[a] > 0
        /\ \A a \in rows : logged'[a] = IF a \in {id} THEN view[a] ELSE logged[a]
    <2> HIDE DEF view
    <2> QED
      BY <1>1, <1>2, AppendKeepsLog
  <1>4. rows \subseteq Account /\ opened \in [Account -> MaybeDate]
    BY DEF AccountsInv, TypeOK
  <1>5. LifeInOrder'
    BY <1>1, <1>4 DEF AccountsInv, LifeInOrder, MayOpenOn
  <1>6. EventsExplainDates'
    <2> HIDE DEF view
    <2> QED
      BY <1>1, <1>2, <1>3, <1>4 DEF AccountsInv, EventsExplainDates
  <1>7. TypeOK'
    BY <1>1, <1>3 DEF AccountsInv, TypeOK
  <1>8. Rooted' /\ PathNamesOneAccount' /\ ChildrenAgree'
    BY <1>1, <1>3 DEF AccountsInv, Rooted, PathNamesOneAccount, ChildrenAgree
  <1> QED
    BY <1>5, <1>6, <1>7, <1>8 DEF AccountsInv

\* Service::set_commodities.
LEMMA SetCommoditiesKeepsInv ==
    ASSUME AccountsInv, NEW id \in Account, NEW list \in MaybeList, SetCommodities(id, list)
    PROVE  AccountsInv'
  <1> DEFINE view == [a \in Account |-> [logged[a] EXCEPT !.commodities = list]]
  <1>1. /\ id \in rows
        /\ commodities' = [commodities EXCEPT ![id] = list]
        /\ AppendEvents({id}, view)
        /\ UNCHANGED <<rows, name, parent, type, opened, closed, archived, known>>
    BY DEF SetCommodities
  <1>2. /\ view[id] \in View /\ view[id].opened = logged[id].opened
        /\ view[id].closed = logged[id].closed
        /\ view[id].archived = logged[id].archived
    <2>1. logged[id] \in View /\ view[id] = [logged[id] EXCEPT !.commodities = list]
      BY DEF AccountsInv, TypeOK
    <2> HIDE DEF view
    <2> QED
      BY <2>1, CommoditiesView
  <1>3. /\ eventCount' \in [Account -> Nat]
        /\ logged' \in [Account -> View]
        /\ \A a \in rows : eventCount'[a] > 0
        /\ \A a \in rows : logged'[a] = IF a \in {id} THEN view[a] ELSE logged[a]
    <2> HIDE DEF view
    <2> QED
      BY <1>1, <1>2, AppendKeepsLog
  <1>4. EventsExplainDates'
    <2> HIDE DEF view
    <2> QED
      BY <1>1, <1>2, <1>3 DEF AccountsInv, EventsExplainDates
  <1>5. TypeOK'
    BY <1>1, <1>3 DEF AccountsInv, TypeOK
  <1>6. Rooted' /\ PathNamesOneAccount' /\ ChildrenAgree' /\ LifeInOrder'
    BY <1>1, <1>3 DEF AccountsInv, Rooted, PathNamesOneAccount, ChildrenAgree, LifeInOrder
  <1> QED
    BY <1>4, <1>5, <1>6 DEF AccountsInv

\* A step that touches only the callers' lists.
LEMMA ListsKeepInv ==
    ASSUME AccountsInv,
           known' \in [Creator -> Snapshot \cup {NoSnapshot}],
           UNCHANGED <<rows, name, parent, type, opened, closed, archived, commodities,
                       eventCount, logged>>
    PROVE  AccountsInv'
  BY DEF AccountsInv, TypeOK, Rooted, ChildrenAgree, LifeInOrder, PathNamesOneAccount,
         EventsExplainDates

-----------------------------------------------------------------------------
(* The theorems.                                                           *)

LEMMA StepKeepsAccountsInv == AccountsInv /\ [Next]_vars => AccountsInv'
  <1> SUFFICES ASSUME AccountsInv, [Next]_vars
               PROVE  AccountsInv'
    OBVIOUS
  <1>1. CASE CreateSome
    <2>1. rows \cup {NoAccount} \subseteq MaybeAccount
      BY DEF AccountsInv, TypeOK, MaybeAccount
    <2> QED
      BY <1>1, <2>1, CreateKeepsInv DEF CreateSome
  <1>2. ASSUME NEW c \in Creator, ListAll(c)
        PROVE  AccountsInv'
    <2>1. known' \in [Creator -> Snapshot \cup {NoSnapshot}]
      BY <1>2 DEF ListAll, AccountsInv, TypeOK, Snapshot
    <2> QED
      BY <1>2, <2>1, ListsKeepInv DEF ListAll
  <1>3. ASSUME NEW c \in Creator, CreatePathSome(c)
        PROVE  AccountsInv'
    BY <1>3, CreatePathKeepsInv DEF CreatePathSome
  <1>4. ASSUME NEW c \in Creator, EndWithoutWrite(c)
        PROVE  AccountsInv'
    <2>1. known' \in [Creator -> Snapshot \cup {NoSnapshot}]
      BY <1>4 DEF EndWithoutWrite, AccountsInv, TypeOK
    <2> QED
      BY <1>4, <2>1, ListsKeepInv DEF EndWithoutWrite
  <1>5. ASSUME NEW id \in Account, Maintain(id)
        PROVE  AccountsInv'
    BY <1>5, ArchiveKeepsInv, CloseKeepsInv, ReopenKeepsInv, SetOpenedOnKeepsInv,
       SetCommoditiesKeepsInv DEF Maintain
  <1>6. CASE UNCHANGED vars
    BY <1>6, ListsKeepInv DEF vars, AccountsInv, TypeOK
  <1> QED
    BY <1>1, <1>2, <1>3, <1>4, <1>5, <1>6 DEF Next, Creators

THEOREM AccountsInvariant == Spec => []AccountsInv
  BY InitAccountsInv, StepKeepsAccountsInv, PTL DEF Spec

\* Every variable keeps its type under every write of account.rs.
THEOREM AccountsTypes == Spec => []TypeOK
  <1>1. AccountsInv => TypeOK
    BY DEF AccountsInv
  <1> QED
    BY <1>1, AccountsInvariant, PTL

\* close, reopen, create and create_paths between them never leave an account
\* open below a closed one, at any depth of any forest.
THEOREM NoOpenBelowClosed == Spec => []ClosedAboveClosed
  BY DescendantsInherit, AccountsInvariant, PTL

\* archive, create and create_paths never leave an active account below an
\* archived one.
THEOREM NoActiveBelowArchived == Spec => []ArchivedAboveArchived
  BY DescendantsInherit, AccountsInvariant, PTL

\* Checking the immediate parent is enough, as create_in_tx says: a whole tree
\* has one type, whatever list create_paths resolved its path against.
THEOREM TreesHaveOneType == Spec => []OneTypePerTree
  BY DescendantsInherit, AccountsInvariant, PTL

\* However close, cascades and set_opened_on interleave, a declared life is
\* never empty.
THEOREM LivesInOrder == Spec => []LifeInOrder
  <1>1. AccountsInv => LifeInOrder
    BY DEF AccountsInv
  <1> QED
    BY <1>1, AccountsInvariant, PTL

\* Racing create_paths calls never give one path to two accounts.
THEOREM PathsNameOneAccount == Spec => []PathNamesOneAccount
  <1>1. AccountsInv => PathNamesOneAccount
    BY DEF AccountsInv
  <1> QED
    BY <1>1, AccountsInvariant, PTL

\* The event log explains the dates and marks of every row.
THEOREM EventsExplain == Spec => []EventsExplainDates
  <1>1. AccountsInv => EventsExplainDates
    BY DEF AccountsInv
  <1> QED
    BY <1>1, AccountsInvariant, PTL

\* What one step may do to a closing date and an archived mark.
Stands(a) ==
    /\ closed[a] # NoDate => closed'[a] \in {closed[a], NoDate}
    /\ archived[a] => archived'[a]

LEMMA StepKeepsClosingDates ==
    ASSUME AccountsInv, [Next]_vars, NEW a \in rows
    PROVE  Stands(a)
  <1>1. a \in Account /\ closed \in [Account -> MaybeDate] /\ archived \in [Account -> BOOLEAN]
        /\ eventCount[a] # 0
    BY DEF AccountsInv, TypeOK, Rooted
  <1>2. ASSUME NEW ids, NEW names, NEW parents, NEW t, NEW leaf, NEW on, NEW list,
               InsertRows(ids, names, parents, t, leaf, on, list)
        PROVE  Stands(a)
    <2>1. a \notin ids
      BY <1>1, <1>2 DEF InsertRows, Fresh
    <2>2. closed'[a] = closed[a] /\ archived'[a] = archived[a]
      BY <2>1, <1>1, <1>2 DEF InsertRows
    <2> QED
      BY <2>2 DEF Stands
  <1>3. CASE CreateSome
    BY <1>2, <1>3 DEF CreateSome, Create
  <1>4. ASSUME NEW c \in Creator, CreatePathSome(c)
        PROVE  Stands(a)
    BY <1>2, <1>4 DEF CreatePathSome, CreatePath
  <1>5. CASE UNCHANGED <<closed, archived>>
    BY <1>5 DEF Stands
  <1>6. ASSUME NEW id \in Account, NEW cascade \in BOOLEAN, Archive(id, cascade)
        PROVE  Stands(a)
    BY <1>1, <1>6 DEF Archive, Stands
  <1>7. ASSUME NEW id \in Account, NEW on \in Date, NEW cascade \in BOOLEAN,
               Close(id, on, cascade)
        PROVE  Stands(a)
    BY <1>1, <1>7 DEF Close, OpenDescendants, Stands
  <1>8. ASSUME NEW id \in Account, Reopen(id)
        PROVE  Stands(a)
    BY <1>1, <1>8 DEF Reopen, Stands
  <1>9. ASSUME NEW id \in Account, Maintain(id)
        PROVE  Stands(a)
    BY <1>5, <1>6, <1>7, <1>8, <1>9 DEF Maintain, SetOpenedOn, SetCommodities
  <1>10. ASSUME NEW c \in Creator, ListAll(c) \/ EndWithoutWrite(c)
         PROVE  Stands(a)
    BY <1>5, <1>10 DEF ListAll, EndWithoutWrite
  <1>11. CASE UNCHANGED vars
    BY <1>5, <1>11 DEF vars
  <1> QED
    BY <1>3, <1>4, <1>9, <1>10, <1>11 DEF Next, Creators

\* No write replaces one closing date by another or brings an archived account
\* back: the "AND closed_on IS NULL" of the cascades matters at every depth.
THEOREM ClosingDatesStand == Spec => ClosingDateStands
  <1>1. AccountsInv /\ [Next]_vars
          => [\A a \in rows : /\ closed[a] # NoDate => closed'[a] \in {closed[a], NoDate}
                              /\ archived[a] => archived'[a]]_vars
    BY StepKeepsClosingDates DEF Stands
  <1> QED
    BY <1>1, AccountsInvariant, PTL DEF Spec, ClosingDateStands

=============================================================================
