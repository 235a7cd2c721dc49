-------------------------- MODULE ShortLinkListing --------------------------
(***************************************************************************)
(* GET /api/short-links: a client walks through the links of an owner page *)
(* by page, with the cursor it was given, while links are being created.   *)
(* Ids are given out by INSERT and become visible at COMMIT, in any order. *)
(* The filter on the status is left out: status does not change here.      *)
(***************************************************************************)
EXTENDS ShortLinkCreate, Sequences, FiniteSets

CONSTANTS
  Limits          \* page sizes a client asks for

ASSUME ListingAssumption == Limits \subseteq Nat \ {0}

VARIABLES
  listing         \* the walk: owner, cursor, the ids of each page; and the
                  \* ids that were in the table when it began (history)

listingVars == <<vars, listing>>

NoListing == [stage |-> "none", owner |-> None, cursor |-> 0, pages |-> <<>>, due |-> {}]

ListingInit == Init /\ listing = NoListing

OwnedIds(owner) == {r.id : r \in {s \in table : s.owner = owner}}

BeginListing(owner) ==
  /\ listing = NoListing
  /\ listing' = [NoListing EXCEPT !.stage = "paging", !.owner = owner,
                                  !.due = OwnedIds(owner)]
  /\ UNCHANGED vars

(* ORDER BY id ASC LIMIT n: the n lowest, or all if there are fewer.       *)
IsLowest(chosen, ids, n) ==
  /\ chosen \subseteq ids
  /\ \A i \in chosen, j \in ids : j < i => j \in chosen
  /\ Cardinality(chosen) = n \/ (chosen = ids /\ Cardinality(ids) < n)

(* Repository::list: WHERE owner_id = ? AND id > ? ORDER BY id ASC LIMIT ? *)
Select(owner, cursor, n) ==
  LET ids == {i \in OwnedIds(owner) : i > cursor}
  IN  {chosen \in SUBSET ids : IsLowest(chosen, ids, n)}

IsLast(last, ids) == last \in ids /\ \A i \in ids : i <= last

(* The page is shown; if there are more, the client goes on behind the     *)
(* last of some rows.                                                      *)
ShowPage(items, hasMore, rows) ==
  /\ listing.stage = "paging"
  /\ \E cursor \in rows \cup {listing.cursor} :
       /\ IF hasMore THEN IsLast(cursor, rows) ELSE cursor = listing.cursor
       /\ listing' = [listing EXCEPT !.stage = IF hasMore THEN "paging" ELSE "done",
                                     !.cursor = cursor,
                                     !.pages = Append(@, items)]
  /\ UNCHANGED vars

(* Slip: the cursor is that of the last row fetched.                       *)
ReadPageCursorOfFetched(limit) ==
  \E fetched \in Select(listing.owner, listing.cursor, limit + 1) :
    \E items \in SUBSET fetched :
      /\ IsLowest(items, fetched, limit)
      /\ ShowPage(items, Cardinality(fetched) > limit, fetched)

(* One row more than the page holds is fetched, to know of a next page;    *)
(* next_cursor is the id of the last row that is shown.                    *)
ReadPage(limit) ==
  \E fetched \in Select(listing.owner, listing.cursor, limit + 1) :
    \E items \in SUBSET fetched :
      /\ IsLowest(items, fetched, limit)
      /\ ShowPage(items, Cardinality(fetched) > limit, items)

ListingNext ==
  \/ Next /\ UNCHANGED listing
  \/ \E owner \in Owners : BeginListing(owner)
  \/ \E limit \in Limits : ReadPage(limit)

ListingSpec == ListingInit /\ [][ListingNext]_listingVars

-----------------------------------------------------------------------------
Shown == UNION {listing.pages[n] : n \in 1..Len(listing.pages)}

(***************************************************************************)
(* A walk shows every link the owner had when it began, page after page in *)
(* the order of the ids, none twice and none of another owner, whatever    *)
(* page sizes the client chooses and whatever is committed between pages.  *)
(***************************************************************************)
ListingIsExact ==
  /\ \A m, n \in 1..Len(listing.pages) : m < n =>
       \A i \in listing.pages[m], j \in listing.pages[n] : i < j
  /\ Shown \subseteq OwnedIds(listing.owner)
  /\ listing.stage = "done" => listing.due \subseteq Shown

-----------------------------------------------------------------------------
(***************************************************************************)
(* The inductive strengthening: everything shown is at or before the       *)
(* cursor, and everything due is shown or behind it.                       *)
(***************************************************************************)
ListingType ==
  listing \in [stage : {"none", "paging", "done"}, owner : Owners \cup {None},
              cursor : Nat, pages : Seq(SUBSET Ids), due : SUBSET Ids]

CursorInv ==
  /\ listing.stage = "none" => listing = NoListing
  /\ listing.due \subseteq OwnedIds(listing.owner)
  /\ listing.stage = "paging" =>
       /\ \A i \in Shown : i <= listing.cursor
       /\ \A i \in listing.due : i \in Shown \/ i > listing.cursor
=============================================================================
