--------------------------------- MODULE Paging ---------------------------------
(***************************************************************************)
(* A list that is paged by cursor, the newest row first: the page of the   *)
(* web interface that walks through it (admin/tenants, produtos, vendas,   *)
(* estoque) and the query of the server, while rows are added, leave the   *)
(* filter and are removed.  A row is a number, its place by createdAt.     *)
(***************************************************************************)
EXTENDS Integers, Sequences, FiniteSets, SequencesExt

CONSTANTS
  PageSize,
  FirstRows,    \* the rows there are when the page is opened
  MaxRow,       \* the newest there may be (bound)
  MaxNew,       \* rows that are added (bound)
  MaxMoves,     \* rows that enter or leave the filter, or go (bound)
  MaxClicks     \* clicks of the user (bound)

ASSUME PagAssumption ==
  /\ {PageSize, MaxRow, MaxNew, MaxMoves, MaxClicks} \subseteq Nat
  /\ PageSize > 0 /\ FirstRows \subseteq 1 .. MaxRow

VARIABLES
  list,       \* which one
  rows,       \* those there are, and those of them that
  narrow,     \* a narrower filter selects
  filter,     \* wide, narrow or low (applied to the page, not to the query)
  cursor, cursorHistory,
  sheet,      \* the rows of the page and the cursor of the next, or loading
  added, moves, clicks,
  walked,     \* history: rows of the pages before this one
  begun,      \* history: rows there have been since the first page was read
  used,       \* history: filters used so far
  sure        \* history: the walk only went on, and its cursors were selected

data == <<rows, narrow, added, moves>>
walk == <<walked, begun, used>>
pagVars == <<list, filter, cursor, cursorHistory, sheet, clicks, data, walk, sure>>

Lists == {"tenants", "products", "sales", "movements"}
LoadingSheet == [at |-> "loading", rows |-> <<>>, next |-> 0]
NoCursor == 0

PagInit ==
  /\ list \in Lists
  /\ rows = FirstRows /\ narrow \in SUBSET FirstRows
  /\ filter = "wide"
  /\ cursor = NoCursor /\ cursorHistory = <<>>
  /\ sheet = LoadingSheet
  /\ added = 0 /\ moves = 0 /\ clicks = 0
  /\ walked = <<>> /\ begun = {} /\ used = {"wide"} /\ sure = TRUE

--------------------------------------------------------------------------------
(* The server: findMany with take, cursor and skip.                        *)

Selected == IF filter = "narrow" THEN narrow ELSE rows
Wanted == IF filter = "wide" THEN rows ELSE narrow
NewestFirst(S) ==
  CHOOSE s \in [1 .. Cardinality(S) -> S] :
    Range(s) = S /\ \A i, j \in DOMAIN s : i < j => s[i] > s[j]

Upto(n, found) == IF Len(found) > n THEN SubSeq(found, 1, n) ELSE found
WithoutFirst(found) == IF found = <<>> THEN <<>> ELSE Tail(found)

(* From the cursor on, and without the first: the cursor's row, unless     *)
(* that is no longer selected.                                             *)
NoSkip(c) == NewestFirst({r \in Selected : c = NoCursor \/ r <= c}) \* mutated form
After(c) ==
  IF c = NoCursor THEN NewestFirst(Selected)
                  ELSE WithoutFirst(NewestFirst({r \in Selected : r <= c}))
Found(c) == Upto(PageSize + 1, After(c))

(* listProducts leaves the products above their minimum out afterwards.    *)
OnlyLow(page) == IF filter = "low" THEN NewestFirst(Range(page) \cap narrow) ELSE page

ReadSheet ==
  /\ sheet = LoadingSheet
  /\ LET found == Found(cursor)
         page == Upto(PageSize, found)
     IN sheet' = [at |-> "shown", rows |-> OnlyLow(page),
                  next |-> IF Len(found) > PageSize THEN Last(page) ELSE NoCursor]
  /\ IF cursor = NoCursor
       THEN walked' = <<>> /\ begun' = Wanted /\ UNCHANGED sure
       ELSE sure' = (sure /\ cursor \in Selected) /\ UNCHANGED <<walked, begun>>
  /\ UNCHANGED <<list, filter, cursor, cursorHistory, clicks, data, used>>

--------------------------------------------------------------------------------
(* The page: its buttons are there only if it shows a row, and shut while  *)
(* it is read.                                                             *)

Click == clicks < MaxClicks /\ clicks' = clicks + 1
Buttons == sheet.at = "shown" /\ sheet.rows # <<>>

GoNext ==
  /\ Click /\ Buttons /\ sheet.next # NoCursor
  /\ cursorHistory' = Append(cursorHistory, cursor)
  /\ cursor' = sheet.next
  /\ sheet' = LoadingSheet
  /\ walked' = walked \o sheet.rows
  /\ UNCHANGED <<list, filter, data, begun, used, sure>>

GoPrevious ==
  /\ Click /\ Buttons /\ cursorHistory # <<>>
  /\ cursor' = Last(cursorHistory)
  /\ cursorHistory' = Front(cursorHistory)
  /\ sheet' = LoadingSheet
  /\ sure' = FALSE
  /\ UNCHANGED <<list, filter, data, walk>>

(* The lists of sales and of movements keep their cursor.                  *)
Resets == list \in {"tenants", "products"}

SetFilter(f) ==
  /\ Click /\ f # filter /\ (f = "low" => list = "products")
  /\ filter' = f /\ used' = used \cup {f}
  /\ IF Resets THEN cursor' = NoCursor /\ cursorHistory' = <<>>
               ELSE UNCHANGED <<cursor, cursorHistory>>
  /\ sheet' = LoadingSheet
  /\ sure' = (cursor' = NoCursor /\ f \notin used)
  /\ UNCHANGED <<list, data, walked, begun>>

(* After an action on a tenant the page is read again.                     *)
Reread ==
  /\ Click /\ list = "tenants" /\ sheet.at = "shown"
  /\ sheet' = LoadingSheet
  /\ UNCHANGED <<list, filter, cursor, cursorHistory, data, walk, sure>>

--------------------------------------------------------------------------------
(* What others do: sales (whose date may be in the past), movements,       *)
(* sign-ups; and the status of a tenant, the name or the stock of a        *)
(* product, which move it between the filters; products are removed.       *)

AddRow(r) ==
  /\ r \notin rows /\ added < MaxNew /\ added' = added + 1
  /\ rows' = rows \cup {r}
  /\ narrow' \in {narrow, narrow \cup {r}}
  /\ UNCHANGED <<list, filter, cursor, cursorHistory, sheet, clicks, moves, walk, sure>>

MoveRow(r) ==
  /\ moves < MaxMoves /\ moves' = moves + 1
  /\ Resets /\ r \in rows
  /\ narrow' = IF r \in narrow THEN narrow \ {r} ELSE narrow \cup {r}
  /\ begun' = IF filter = "wide" THEN begun ELSE begun \ {r}
  /\ UNCHANGED <<list, filter, cursor, cursorHistory, sheet, clicks, rows, added, walked, used, sure>>

RemoveRow(r) ==
  /\ moves < MaxMoves /\ moves' = moves + 1
  /\ list = "products" /\ r \in rows
  /\ rows' = rows \ {r} /\ narrow' = narrow \ {r} /\ begun' = begun \ {r}
  /\ UNCHANGED <<list, filter, cursor, cursorHistory, sheet, clicks, added, walked, used, sure>>

PagNext ==
  \/ ReadSheet \/ GoNext \/ GoPrevious \/ Reread
  \/ \E f \in {"wide", "narrow", "low"} : SetFilter(f)
  \/ \E r \in 1 .. MaxRow : AddRow(r) \/ MoveRow(r) \/ RemoveRow(r)

PagSpec == PagInit /\ [][PagNext]_pagVars

--------------------------------------------------------------------------------
PagTypeOK ==
  /\ list \in Lists /\ rows \subseteq 1 .. MaxRow /\ narrow \subseteq rows
  /\ filter \in used /\ used \subseteq {"wide", "narrow", "low"}
  /\ cursor \in 0 .. MaxRow /\ cursorHistory \in Seq(0 .. MaxRow)
  /\ sheet.at \in {"loading", "shown"} /\ sheet.next \in 0 .. MaxRow
  /\ Range(sheet.rows) \cup Range(walked) \cup begun \subseteq 1 .. MaxRow
  /\ added \in 0 .. MaxNew /\ moves \in 0 .. MaxMoves /\ clicks \in 0 .. MaxClicks
  /\ sure \in BOOLEAN

(* Who walks from the first page to the last sees every row once, however  *)
(* many rows are added meanwhile, at the top or in between                 *)
(* (stock/queries.ts:23): none is shown twice, and at the end none is      *)
(* missing that was there from the first page on - unless a row that a     *)
(* cursor names has left the filter, or the filter was changed under a     *)
(* cursor that stayed (vendas, estoque).                                   *)
EachRowOnce ==
  sure /\ sheet.at = "shown" =>
    /\ IsInjective(walked \o sheet.rows)
    /\ sheet.next = NoCursor => begun \subseteq Range(walked \o sheet.rows)
================================================================================
