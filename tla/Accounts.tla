------------------------------ MODULE Accounts ------------------------------
(***************************************************************************)
(* The account service of bc-core (account.rs): the accounts table, a      *)
(* forest of accounts with an opening date, a closing date and an archived *)
(* mark, and the account events appended beside every write.               *)
(*                                                                         *)
(* Every write of the service is one SQLite transaction whose checks read  *)
(* inside it, so it is one atomic action here.  The exception is           *)
(* create_paths, which resolves its path against a list of the accounts    *)
(* read before its transaction begins: ListAll and CreatePath are two      *)
(* steps, with any write of anybody in between.  A call the service        *)
(* refuses rolls back and changes nothing, so it is not a step.            *)
(***************************************************************************)
EXTENDS Naturals, Sequences

CONSTANTS
    Account,    \* account ids; an id names one row only, ever
    NoAccount,  \* the parent of a root
    Name,       \* segment names
    Type,       \* account types
    NoType,     \* no explicit type was asked for
    Lists,      \* non-empty ordered commodity lists
    NoList,     \* the empty commodity list
    Path,       \* account paths: non-empty sequences of names
    RootType,   \* RootType[n]: the type a root segment derives, or NoType
    MaxDate,    \* business dates are 1 .. MaxDate
    MaxEvents,  \* bound: events the log holds for one account
    Creator,    \* concurrent callers of create_paths
    NoSnapshot  \* a caller that holds no account list

ASSUME AccountAssumption ==
    /\ NoAccount \notin Account
    /\ Name # {} /\ Type # {}
    /\ NoType \notin Type
    /\ MaxDate \in Nat
    /\ MaxEvents \in Nat
    /\ RootType \in [Name -> Type \cup {NoType}]
    /\ Path \subseteq Seq(Name) \ {<<>>}

VARIABLES
    rows,         \* the accounts that have a row
    name, parent, type,
    opened,       \* opened_on; NoDate when undeclared
    closed,       \* closed_on; NoDate while open
    archived,     \* archived_at IS NOT NULL
    commodities,  \* the account_commodities list
    eventCount,   \* how many events the log holds for the account
    logged,       \* what replaying the account's events yields
    known         \* known[c]: the account list caller c resolves against

tables == <<rows, name, parent, type, opened, closed, archived, commodities>>
vars == <<rows, name, parent, type, opened, closed, archived, commodities,
          eventCount, logged, known>>

NoDate == 0
Date == 1 .. MaxDate
MaybeDate == 0 .. MaxDate
MaybeList == Lists \cup {NoList}
MaybeAccount == Account \cup {NoAccount}

\* The fields of an account that change after its creation.
View == [opened : MaybeDate, closed : MaybeDate, archived : BOOLEAN,
         commodities : MaybeList]

\* What AccountCreated says: an opening date, but not the commodities.
CreatedViewWithoutMark(on) ==    \* slip: the event leaves the archived mark out
    [opened |-> on, closed |-> NoDate, commodities |-> NoList]
CreatedViewWithoutOpening(on) ==    \* slip: the event leaves out opened_on too
    [opened |-> NoDate, closed |-> NoDate, archived |-> FALSE, commodities |-> NoList]
CreatedView(on) ==
    [opened |-> on, closed |-> NoDate, archived |-> FALSE, commodities |-> NoList]

Snapshot ==
    [rows : SUBSET Account, name : [Account -> Name],
     parent : [Account -> MaybeAccount], type : [Account -> Type]]

TypeOK ==
    /\ rows \subseteq Account
    /\ name \in [Account -> Name]
    /\ parent \in [Account -> MaybeAccount]
    /\ type \in [Account -> Type]
    /\ opened \in [Account -> MaybeDate]
    /\ closed \in [Account -> MaybeDate]
    /\ archived \in [Account -> BOOLEAN]
    /\ commodities \in [Account -> MaybeList]
    /\ eventCount \in [Account -> Nat]
    /\ logged \in [Account -> View]
    /\ known \in [Creator -> Snapshot \cup {NoSnapshot}]

-----------------------------------------------------------------------------
(* The forest.                                                             *)

ChildrenOf(a) == {c \in rows : parent[c] = a}

\* S holds the children of a, and with every member its children.
HoldsSubtree(S, a) ==
    /\ ChildrenOf(a) \subseteq S
    /\ \A s \in S : ChildrenOf(s) \subseteq S

\* descendants_of: the recursive query's least fixpoint; a itself is excluded.
Descendants(a) == {d \in rows : \A S \in SUBSET rows : HoldsSubtree(S, a) => d \in S}

UncheckedDescendants(a) == Descendants(a)   \* slip: the closed ones are hit again
OpenDescendants(a) == {d \in Descendants(a) : closed[d] = NoDate}

ActiveChildren(a) == {d \in ChildrenOf(a) : ~archived[d]}   \* slip: one level only
ActiveDescendants(a) == {d \in Descendants(a) : ~archived[d]}

\* reject_close_before_open and reject_open_after_close, for one account.
MayCloseOn(a, on) == opened[a] = NoDate \/ opened[a] <= on

MayOpenOnAny(a, on) == on \in MaybeDate   \* slip: the closing date is not consulted
MayOpenOn(a, on) == on = NoDate \/ closed[a] = NoDate \/ on <= closed[a]

\* An id never used: events are never deleted, and a row is born with one.
Fresh == {a \in Account : eventCount[a] = 0}

\* The unique index on (parent, name).
NameFreeUnindexed(p, n) == n \in Name   \* slip: no index, the list is trusted
NameFree(p, n) == ~\E a \in rows : parent[a] = p /\ name[a] = n

\* What a parent must be for a child of type t to be inserted under it.
MayAdoptAnyType(p, t) ==    \* slip: the parent's stored type is not compared
    p = NoAccount \/ (p \in rows /\ ~archived[p] /\ closed[p] = NoDate)
MayAdoptUnderClosed(p, t) ==    \* slip: only the archived mark is consulted
    p = NoAccount \/ (p \in rows /\ type[p] = t /\ ~archived[p])
MayAdopt(p, t) ==
    \/ p = NoAccount
    \/ p \in rows /\ type[p] = t /\ ~archived[p] /\ closed[p] = NoDate

\* One event for every account of S; the log then replays to view[a].
AppendEvents(S, view) ==
    /\ \A a \in S : eventCount[a] < MaxEvents
    /\ eventCount' = [a \in Account |-> IF a \in S THEN eventCount[a] + 1 ELSE eventCount[a]]
    /\ logged' = [a \in Account |-> IF a \in S THEN view[a] ELSE logged[a]]

-----------------------------------------------------------------------------
Init ==
    /\ rows = {}
    /\ name = [a \in Account |-> CHOOSE n \in Name : TRUE]
    /\ parent = [a \in Account |-> NoAccount]
    /\ type = [a \in Account |-> CHOOSE t \in Type : TRUE]
    /\ opened = [a \in Account |-> NoDate]
    /\ closed = [a \in Account |-> NoDate]
    /\ archived = [a \in Account |-> FALSE]
    /\ commodities = [a \in Account |-> NoList]
    /\ eventCount = [a \in Account |-> 0]
    /\ logged = [a \in Account |-> CreatedView(NoDate)]
    /\ known = [c \in Creator |-> NoSnapshot]

\* The rows a create inserts: ids, with a name and a parent each, all of type
\* t; only the leaf takes the opening date and the commodities.
InsertRows(ids, names, parents, t, leaf, on, list) ==
    /\ ids \subseteq Fresh
    /\ rows' = rows \cup ids
    /\ name' = [a \in Account |-> IF a \in ids THEN names[a] ELSE name[a]]
    /\ parent' = [a \in Account |-> IF a \in ids THEN parents[a] ELSE parent[a]]
    /\ type' = [a \in Account |-> IF a \in ids THEN t ELSE type[a]]
    /\ opened' = [a \in Account |-> IF a = leaf THEN on
                                    ELSE IF a \in ids THEN NoDate ELSE opened[a]]
    /\ closed' = [a \in Account |-> IF a \in ids THEN NoDate ELSE closed[a]]
    /\ archived' = [a \in Account |-> IF a \in ids THEN FALSE ELSE archived[a]]
    /\ commodities' = [a \in Account |-> IF a = leaf THEN list
                                         ELSE IF a \in ids THEN NoList ELSE commodities[a]]
    /\ AppendEvents(ids, [a \in Account |-> CreatedView(IF a = leaf THEN on ELSE NoDate)])

\* Service::create: one account under a parent that must accept it.
Create(id, n, t, p, on, list) ==
    /\ MayAdopt(p, t)
    /\ NameFree(p, n)
    /\ InsertRows({id}, [a \in Account |-> n], [a \in Account |-> p], t, id, on, list)
    /\ UNCHANGED known

\* create_paths reads the account list before it begins its transaction.
ListAll(c) ==
    /\ known[c] = NoSnapshot
    /\ known' = [known EXCEPT ![c] =
                    [rows |-> rows, name |-> name, parent |-> parent, type |-> type]]
    /\ UNCHANGED <<rows, name, parent, type, opened, closed, archived, commodities,
                   eventCount, logged>>

\* chain is the part of path p that the list k holds, root first.
Resolves(k, p, chain) ==
    /\ Len(chain) <= Len(p)
    /\ \A i \in 1 .. Len(chain) :
         /\ k.name[chain[i]] = p[i]
         /\ k.parent[chain[i]] = IF i = 1 THEN NoAccount ELSE chain[i - 1]

LastOf(chain) == IF chain = <<>> THEN NoAccount ELSE chain[Len(chain)]

\* The type of the path: its existing root's, else the one asked for, else the
\* one its root segment derives.
PathType(k, p, chain, asked) ==
    CASE chain # <<>>   -> k.type[chain[1]]
      [] asked # NoType -> asked
      [] OTHER          -> RootType[p[1]]

\* create_paths mints the segments of p its list does not hold, in one
\* transaction: chain is the part that exists, minted the new ids after it.
CreatePath(c, p, chain, minted, asked, on, list) ==
    LET k == known[c]
        t == PathType(k, p, chain, asked)
        base == LastOf(chain)
        ids == {minted[i] : i \in 1 .. Len(minted)}
        at == [a \in ids |-> CHOOSE i \in 1 .. Len(minted) : minted[i] = a]
    IN  /\ known[c] # NoSnapshot
        /\ Resolves(k, p, chain)
        /\ Len(chain) + Len(minted) = Len(p) /\ minted # <<>>
        /\ ~\E a \in k.rows : k.name[a] = p[Len(chain) + 1] /\ k.parent[a] = base
        /\ \A i, j \in 1 .. Len(minted) : i # j => minted[i] # minted[j]
        /\ chain # <<>> => asked \in {NoType, t}
        /\ t # NoType
        /\ MayAdopt(base, t)
        /\ NameFree(base, p[Len(chain) + 1])
        /\ InsertRows(ids,
                      [a \in ids |-> p[Len(chain) + at[a]]],
                      [a \in ids |-> IF at[a] = 1 THEN base ELSE minted[at[a] - 1]],
                      t, minted[Len(minted)], on, list)
        /\ known' = [known EXCEPT ![c] = NoSnapshot]

\* create_paths finds every segment in its list, or refuses: nothing is written.
EndWithoutWrite(c) ==
    /\ known[c] # NoSnapshot
    /\ known' = [known EXCEPT ![c] = NoSnapshot]
    /\ UNCHANGED <<rows, name, parent, type, opened, closed, archived, commodities,
                   eventCount, logged>>

\* Service::archive: the target, unless archived already, and under a cascade
\* every active descendant; without one an active descendant refuses it.
Archive(id, cascade) ==
    LET hit == {a \in {id} : ~archived[a]} \cup (IF cascade THEN ActiveDescendants(id) ELSE {})
    IN  /\ id \in rows /\ hit # {}
        /\ cascade \/ ActiveDescendants(id) = {}
        /\ archived' = [a \in Account |-> archived[a] \/ a \in hit]
        /\ AppendEvents(hit, [a \in Account |-> [logged[a] EXCEPT !.archived = TRUE]])
        /\ UNCHANGED <<rows, name, parent, type, opened, closed, commodities, known>>

\* Service::close: the same shape over the open descendants, with the date
\* checked against every account it may stamp.
Close(id, on, cascade) ==
    LET open == OpenDescendants(id)
        hit == {a \in {id} : closed[a] = NoDate} \cup (IF cascade THEN open ELSE {})
    IN  /\ id \in rows /\ hit # {}
        /\ cascade \/ open = {}
        /\ MayCloseOn(id, on)
        /\ cascade => \A d \in open : MayCloseOn(d, on)
        /\ closed' = [a \in Account |-> IF a \in hit THEN on ELSE closed[a]]
        /\ AppendEvents(hit, [a \in Account |-> [logged[a] EXCEPT !.closed = on]])
        /\ UNCHANGED <<rows, name, parent, type, opened, archived, commodities, known>>

\* Service::reopen: refused while the parent is closed.
Reopen(id) ==
    /\ id \in rows /\ closed[id] # NoDate
    /\ parent[id] # NoAccount => closed[parent[id]] = NoDate
    /\ closed' = [closed EXCEPT ![id] = NoDate]
    /\ AppendEvents({id}, [a \in Account |-> [logged[a] EXCEPT !.closed = NoDate]])
    /\ UNCHANGED <<rows, name, parent, type, opened, archived, commodities, known>>

\* Service::set_opened_on: the stored value again is no change and no event.
SetOpenedOn(id, on) ==
    /\ id \in rows /\ opened[id] # on
    /\ MayOpenOn(id, on)
    /\ opened' = [opened EXCEPT ![id] = on]
    /\ AppendEvents({id}, [a \in Account |-> [logged[a] EXCEPT !.opened = on]])
    /\ UNCHANGED <<rows, name, parent, type, closed, archived, commodities, known>>

\* Service::set_commodities: the stored list again is no change and no event.
SetCommodities(id, list) ==
    /\ id \in rows /\ commodities[id] # list
    /\ commodities' = [commodities EXCEPT ![id] = list]
    /\ AppendEvents({id}, [a \in Account |-> [logged[a] EXCEPT !.commodities = list]])
    /\ UNCHANGED <<rows, name, parent, type, opened, closed, archived, known>>

-----------------------------------------------------------------------------
(* The next-state relation, by who acts.                                   *)

CreateSome ==
    \E id \in Account, n \in Name, t \in Type, p \in rows \cup {NoAccount},
       on \in MaybeDate, list \in MaybeList : Create(id, n, t, p, on, list)

CreatePathSome(c) ==
    \E p \in Path, asked \in Type \cup {NoType}, on \in MaybeDate, list \in MaybeList :
        \E d \in 0 .. Len(p) - 1 :
            \E chain \in [1 .. d -> Account], minted \in [1 .. Len(p) - d -> Fresh] :
                CreatePath(c, p, chain, minted, asked, on, list)

Creators == \E c \in Creator : ListAll(c) \/ CreatePathSome(c) \/ EndWithoutWrite(c)

Maintain(id) ==
    \/ \E cascade \in BOOLEAN : Archive(id, cascade)
    \/ \E on \in Date, cascade \in BOOLEAN : Close(id, on, cascade)
    \/ Reopen(id)
    \/ \E on \in MaybeDate : SetOpenedOn(id, on)
    \/ \E list \in MaybeList : SetCommodities(id, list)

Next == CreateSome \/ Creators \/ \E id \in Account : Maintain(id)

Spec == Init /\ [][Next]_vars

-----------------------------------------------------------------------------
(* Properties.                                                             *)

\* No account open below a closed one, at any depth: what close checks from
\* above, and create, create_paths and reopen from below (account.rs).
ClosedAboveClosed ==
    \A a \in rows : closed[a] # NoDate => \A d \in Descendants(a) : closed[d] # NoDate

\* No active account below an archived one, at any depth: archive checks it
\* from above, create and create_paths from below.
ArchivedAboveArchived ==
    \A a \in rows : archived[a] => \A d \in Descendants(a) : archived[d]

\* An account's declared life is never empty: whichever of close, a cascading
\* close of an ancestor and set_opened_on wrote last, it opened before it closed.
LifeInOrder ==
    \A a \in rows : opened[a] # NoDate /\ closed[a] # NoDate => opened[a] <= closed[a]

\* One type per tree.  create checks the immediate parent only, and
\* create_paths takes the root's type from a list that may be old.
OneTypePerTree == \A a \in rows : \A d \in Descendants(a) : type[d] = type[a]

\* A path names at most one account, however many create_paths calls resolved
\* it against lists that lacked it.
PathNamesOneAccount ==
    \A a, b \in rows : a # b /\ parent[a] = parent[b] => name[a] # name[b]

\* Replaying an account's events yields the dates and the archived mark its row
\* holds: every write appends the event that says what it did.
EventsExplainDates ==
    \A a \in rows : /\ logged[a].opened = opened[a]
                    /\ logged[a].closed = closed[a]
                    /\ logged[a].archived = archived[a]

\* A closing date is never replaced by another, by a cascade from an ancestor
\* either: it can only be cleared.  And nothing brings an archived account back.
ClosingDateStands ==
    [][\A a \in rows : /\ closed[a] # NoDate => closed'[a] \in {closed[a], NoDate}
                       /\ archived[a] => archived'[a]]_vars

=============================================================================
