------------------------------- MODULE OsalNv -------------------------------
(***************************************************************************)
(* The OSAL non-volatile memory (OSAL_Nv.c): items kept in flash pages, a  *)
(* write appending a new copy of the item and retiring the old one, one    *)
(* erased page kept in reserve for the compaction of a full page, and the  *)
(* recovery at power-up, initNV.  Power may be lost between any two flash  *)
(* operations and during an erase.  The writes the code reads back (header,*)
(* data, checksum) may fail and leave the words erased: the "HAL flash     *)
(* brown-out" compactPage speaks of.  The marks on pages and old copies    *)
(* are not read back and take here.                                        *)
(*                                                                         *)
(* A page is its header and the sequence of its items.  The sizes are in   *)
(* flash words, page and item headers included or left out as the code     *)
(* does: PageCap is a page less its header, ItemSize a header plus data.   *)
(* An item's checksum is unset (erased) until its data has been read back, *)
(* so "chk" says whether the checksum test of the code passes.             *)
(***************************************************************************)
EXTENDS Integers, Sequences

CONSTANTS
  LastPage,    \* OSAL_NV_PAGES_USED; the pages are 1 .. LastPage
  PageCap,     \* OSAL_NV_PAGE_SIZE - OSAL_NV_PAGE_HDR_SIZE
  Ids,         \* the item ids
  ItemSize,    \* OSAL_NV_ITEM_SIZE of each item
  Values,      \* the values of an item
  HotIds,      \* hotIds: the items whose place is cached
  MaxFaults,   \* bound: how many word writes fail
  Null         \* OSAL_NV_PAGE_NULL, OSAL_NV_ITEM_NULL, OSAL_NV_ZEROED_ID, erased data

Pages == 1 .. LastPage

ASSUME NvAssumption ==
  /\ LastPage \in Nat \ {0, 1} /\ PageCap \in Nat /\ MaxFaults \in Nat
  /\ ItemSize \in [Ids -> 1 .. PageCap]
  /\ HotIds \subseteq Ids
  /\ Null \notin Ids \cup Values /\ Null \notin Pages
  /\ Null \notin Pages \X (Nat \ {0})

VARIABLES
  flash,    \* the pages
  pgOff,    \* pgOff: the first free word of each page
  pgLost,   \* pgLost: the words of each page held by zeroed items
  pgRes,    \* pgRes: the reserve page
  hot,      \* hotPg and hotOff: where each hot item was last written
  pc,       \* the next step of the call in progress, "idle" between calls
  job,      \* the arguments and the locals of that call
  faults    \* how many writes have failed

ram  == <<pgOff, pgLost, pgRes, hot>>
vars == <<flash, pgOff, pgLost, pgRes, hot, pc, job, faults>>

-----------------------------------------------------------------------------
(* The flash.                                                              *)

ErasedPage == [active |-> FALSE, xfer |-> FALSE, items |-> <<>>]

\* The words of those of the first n items whose id is in I.
WordsTo(items, I, n) ==
  LET sum[k \in 0 .. n] ==
        IF k = 0 THEN 0 ELSE sum[k - 1] + IF items[k].id \in I THEN items[k].size ELSE 0
  IN  sum[n]

Words(items, I) == WordsTo(items, I, Len(items))

Used(items) == Words(items, Ids \cup {Null})

Item(p, i) == flash[p].items[i]

\* The outcome of a write that is read back: it takes, or the words stay erased.
WriteTakes == IF faults < MaxFaults THEN {TRUE, FALSE} ELSE {TRUE}

FlashWrite(ok, after) == /\ flash' = IF ok THEN after ELSE flash
                         /\ faults' = IF ok THEN faults ELSE faults + 1

setPageUse(p) == [flash EXCEPT ![p].active = TRUE]

\* setItem: eNvZero clears the id, eNvXfer clears the status of the header.
ZeroItem(p, i) == [flash EXCEPT ![p].items[i] =
                      [id |-> Null, size |-> @.size, val |-> Null, chk |-> FALSE, stat |-> "new"]]
\* Mutant: the old copy is not marked as transferred.
XferItem_Unmarked(p, i) == flash
XferItem(p, i) == [flash EXCEPT ![p].items[i].stat = "xfer"]

\* The header word of writeItem, appended at pgOff.
NewHeader(p, id) == [flash EXCEPT ![p].items = Append(@,
                        [id |-> id, size |-> ItemSize[id], val |-> Null, chk |-> FALSE, stat |-> "new"])]

\* The item the last header of page p stands for gets its data, then its checksum.
LastData(p, v) == [flash EXCEPT ![p].items = [@ EXCEPT ![Len(@)].val = v]]
LastChk(p)     == [flash EXCEPT ![p].items = [@ EXCEPT ![Len(@)].chk = TRUE]]

-----------------------------------------------------------------------------
(* findItem: the first copy not marked as transferred, else the first one  *)
(* that is; the checksum is not looked at.                                 *)

Places == UNION {{<<p, i>> : i \in DOMAIN flash[p].items} : p \in Pages}

Copies(id, stat) == {l \in Places : Item(l[1], l[2]).id = id /\ Item(l[1], l[2]).stat = stat}

FirstOf(S) == CHOOSE l \in S : \A m \in S : l[1] < m[1] \/ (l[1] = m[1] /\ l[2] <= m[2])

findItem(id) == LET new == Copies(id, "new")
                    old == Copies(id, "xfer")
                IN IF new # {} THEN FirstOf(new) ELSE IF old # {} THEN FirstOf(old) ELSE Null

\* osal_nv_read: a hot item is read from its cached place, without a search.
ReadFrom(l) == IF l \in Places THEN Item(l[1], l[2]).val ELSE Null

osal_nv_read(id) == IF id \in HotIds THEN ReadFrom(hot[id]) ELSE ReadFrom(findItem(id))

\* Mutant: the place of a hot item is cached once.
hotItemUpdate_Once(id, l) == IF id \in HotIds /\ hot[id] = Null THEN [hot EXCEPT ![id] = l] ELSE hot

hotItemUpdate(id, l) == IF id \in HotIds THEN [hot EXCEPT ![id] = l] ELSE hot

-----------------------------------------------------------------------------
(* initItem: the first page after the reserve page, in cyclic order, where *)
(* the item fits once the lost words are reclaimed.                        *)

Cyclic(k) == ((pgRes + k - 1) % LastPage) + 1

\* Mutant: the room is compared one word too long.
FitsIn_OffByOne(id, p) == p # pgRes /\ ItemSize[id] <= PageCap - pgOff[p] + pgLost[p] + 1

FitsIn(id, p) == p # pgRes /\ ItemSize[id] <= PageCap - pgOff[p] + pgLost[p]

PageFor(id) == LET ks == {k \in 1 .. LastPage : FitsIn(id, Cyclic(k))}
               IN IF ks = {} THEN Null ELSE Cyclic(CHOOSE k \in ks : \A j \in ks : k <= j)

NoJob == [op |-> "none", id |-> Null, val |-> Null, src |-> Null, pg |-> Null, ix |-> 1,
          com |-> Null, dst |-> Null, ok |-> TRUE, er |-> Null, ret |-> "idle",
          ip |-> 1, ii |-> 1, lost |-> 0, dups |-> "no"]

\* The call returns and its locals are gone.
Return == pc' = "idle" /\ job' = NoJob

Goto(l, j) == pc' = l /\ job' = j

\* erasePage(p) is the next flash operation; the program goes on at ret.
ThenErase(j, p, ret) == Goto("erase", [j EXCEPT !.er = p, !.ret = ret])

\* What initItem does with the page it found: append to it, or compact it first.
StartInitItem(j) ==
  LET p == PageFor(j.id)
  IN /\ p # Null
     /\ Goto(IF ItemSize[j.id] <= PageCap - pgOff[p] THEN "header"
             ELSE IF flash[p].xfer THEN "compact" ELSE "mark", [j EXCEPT !.pg = p])
     /\ UNCHANGED <<flash, ram, faults>>

-----------------------------------------------------------------------------
(* The calls, made one at a time by the tasks.  A call that changes        *)
(* nothing (the item is missing, the value is the one it has, no page has  *)
(* room) is no step.                                                       *)

osal_nv_item_init(id, v) ==
  /\ pc = "idle"
  /\ findItem(id) = Null
  /\ StartInitItem([NoJob EXCEPT !.op = "create", !.id = id, !.val = v])

\* The item exists: the place of a hot item is cached again.
Reopen(id) ==
  /\ pc = "idle"
  /\ findItem(id) # Null
  /\ hot' = hotItemUpdate(id, findItem(id))
  /\ UNCHANGED <<flash, pgOff, pgLost, pgRes, pc, job, faults>>

osal_nv_write(id, v) ==
  LET l == findItem(id)
  IN /\ pc = "idle"
     /\ l # Null /\ ReadFrom(l) # v
     /\ StartInitItem([NoJob EXCEPT !.op = "write", !.id = id, !.val = v, !.src = l])

\* Zero the copy at l: the header word of setItem and the count of lost words.
ZeroAt(l) ==
  /\ flash' = ZeroItem(l[1], l[2])
  /\ pgLost' = [pgLost EXCEPT ![l[1]] = @ + Item(l[1], l[2]).size]
  /\ UNCHANGED <<pgOff, pgRes, hot, faults>>

osal_nv_delete(id) ==
  /\ pc = "idle" /\ id \notin HotIds
  /\ findItem(id) # Null
  /\ ZeroAt(findItem(id))
  /\ UNCHANGED <<pc, job>>

-----------------------------------------------------------------------------
(* compactPage: the items of the page whose checksum holds, but the one    *)
(* being written, are marked and copied one by one to the reserve page.    *)

MarkPage ==
  /\ pc = "mark"
  /\ flash' = [flash EXCEPT ![job.pg].xfer = TRUE]
  /\ Goto("compact", job)
  /\ UNCHANGED <<ram, faults>>

ToCopy == {i \in DOMAIN flash[job.pg].items :
             /\ i >= job.ix
             /\ Item(job.pg, i).id \notin {Null, job.id}
             /\ Item(job.pg, i).chk}

CompactItem ==
  /\ pc = "compact" /\ ToCopy # {}
  /\ LET i == CHOOSE i \in ToCopy : \A k \in ToCopy : i <= k
     IN /\ flash' = XferItem(job.pg, i)
        /\ Goto("copyHdr", [job EXCEPT !.ix = i])
  /\ UNCHANGED <<ram, faults>>

\* writeItem: a header that did not take costs the rest of the page.
WriteHeader(p, id, ok) ==
  /\ FlashWrite(ok, NewHeader(p, id))
  /\ pgOff'  = [pgOff EXCEPT ![p] = IF ok THEN @ + ItemSize[id] ELSE PageCap]
  /\ pgLost' = [pgLost EXCEPT ![p] = IF ok THEN @ ELSE @ + PageCap - pgOff[p]]

\* A failed compaction erases the reserve page; initNV goes on, a call fails.
CompactFail == ThenErase(job, pgRes, IF job.op = "boot" THEN "initPages" ELSE "idle")

CopyHeader == \E ok \in WriteTakes :
  /\ pc = "copyHdr"
  /\ WriteHeader(pgRes, Item(job.pg, job.ix).id, ok)
  /\ IF ok THEN Goto("copyData", job) ELSE CompactFail
  /\ UNCHANGED <<pgRes, hot>>

CopyData == \E ok \in WriteTakes :
  /\ pc = "copyData"
  /\ FlashWrite(ok, LastData(pgRes, Item(job.pg, job.ix).val))
  /\ IF ok THEN Goto("copyChk", job) ELSE CompactFail
  /\ UNCHANGED ram

CopyChk == \E ok \in WriteTakes :
  /\ pc = "copyChk"
  /\ FlashWrite(ok, LastChk(pgRes))
  /\ IF ok THEN /\ Goto("compact", [job EXCEPT !.ix = @ + 1])
                /\ hot' = hotItemUpdate(Item(job.pg, job.ix).id, <<pgRes, Len(flash[pgRes].items)>>)
           ELSE CompactFail /\ UNCHANGED hot
  /\ UNCHANGED <<pgOff, pgLost, pgRes>>

\* At power-up the compacted page is cleaned up at once, in a call at its end.
CompactDone ==
  /\ pc = "compact" /\ ToCopy = {}
  /\ Goto(IF job.op = "boot" THEN "use" ELSE "header", [job EXCEPT !.com = job.pg])
  /\ UNCHANGED <<flash, ram, faults>>

-----------------------------------------------------------------------------
(* The rest of a call: header, mark on the old copy, data, checksum, then  *)
(* the cleanup of a compacted page and last the old copy is zeroed.        *)

\* Mutant: the compaction is completed although the new value was not written.
Finish_NoAbort(ok) ==
  IF job.com # Null THEN Goto("use", [job EXCEPT !.ok = ok])
  ELSE IF job.op = "write" /\ ok THEN Goto("zero", [job EXCEPT !.ok = ok]) ELSE Return

\* The end of osal_nv_write and of initItem, with the result ok of the writes.
Finish(ok) ==
  LET j == [job EXCEPT !.ok = ok]
  IN IF job.com # Null
     THEN IF job.op = "write" /\ job.src[1] = job.com /\ ~ok
          THEN ThenErase(j, pgRes, "idle")
          ELSE Goto("use", j)
     ELSE IF job.op = "write" /\ ok THEN Goto("zero", j) ELSE Return

Header == \E ok \in WriteTakes :
  LET p == IF job.com # Null THEN pgRes ELSE job.pg
  IN /\ pc = "header"
     /\ WriteHeader(p, job.id, ok)
     /\ IF ~ok THEN Finish(FALSE)
        ELSE Goto(IF job.op = "write" /\ Item(job.src[1], job.src[2]).stat = "new"
                  THEN "markSrc" ELSE "data", [job EXCEPT !.dst = p])
     /\ UNCHANGED <<pgRes, hot>>

MarkSource ==
  /\ pc = "markSrc"
  /\ flash' = XferItem(job.src[1], job.src[2])
  /\ Goto("data", job)
  /\ UNCHANGED <<ram, faults>>

\* A write derives the checksum it expects from that of the old copy.
Data == \E ok \in WriteTakes :
  /\ pc = "data"
  /\ FlashWrite(ok, LastData(job.dst, job.val))
  /\ IF ok /\ (job.op = "create" \/ Item(job.src[1], job.src[2]).chk)
     THEN Goto("chk", job) ELSE Finish(FALSE)
  /\ UNCHANGED ram

Checksum == \E ok \in WriteTakes :
  /\ pc = "chk"
  /\ FlashWrite(ok, LastChk(job.dst))
  /\ hot' = IF ok THEN hotItemUpdate(job.id, <<job.dst, Len(flash[job.dst].items)>>) ELSE hot
  /\ Finish(ok)
  /\ UNCHANGED <<pgOff, pgLost, pgRes>>

\* COMPACT_PAGE_CLEANUP: the reserve page is put in use, the old page erased.
UseReserve ==
  /\ pc = "use"
  /\ flash' = setPageUse(pgRes)
  /\ ThenErase(job, job.com,
        IF job.op = "boot" THEN "initPages"
        ELSE IF job.op = "write" /\ job.ok /\ job.src[1] # job.com THEN "zero" ELSE "idle")
  /\ UNCHANGED <<ram, faults>>

\* Mutant: the count of lost words of the erased page is not reset.
Erase_KeepsLost ==
  /\ pc = "erase"
  /\ flash'  = [flash EXCEPT ![job.er] = ErasedPage]
  /\ pgOff'  = [pgOff EXCEPT ![job.er] = 0]
  /\ pgRes'  = job.er
  /\ IF job.ret = "idle" THEN Return ELSE Goto(job.ret, [job EXCEPT !.er = Null, !.ret = "idle"])
  /\ UNCHANGED <<pgLost, hot, faults>>

\* erasePage; the page it erases is, or becomes, the reserve page.
Erase ==
  /\ pc = "erase"
  /\ flash'  = [flash EXCEPT ![job.er] = ErasedPage]
  /\ pgOff'  = [pgOff EXCEPT ![job.er] = 0]
  /\ pgLost' = [pgLost EXCEPT ![job.er] = 0]
  /\ pgRes'  = job.er
  /\ IF job.ret = "idle" THEN Return ELSE Goto(job.ret, [job EXCEPT !.er = Null, !.ret = "idle"])
  /\ UNCHANGED <<hot, faults>>

ZeroOld == pc = "zero" /\ ZeroAt(job.src) /\ Return

-----------------------------------------------------------------------------
(* initNV: look at the page headers, settle an interrupted compaction,     *)
(* then scan the items of every page, again from the first page as soon as *)
(* one is found marked as transferred.                                     *)

BootScan ==
  /\ pc = "boot" /\ job.ip <= LastPage
  /\ LET p == job.ip
         next == [job EXCEPT !.ip = @ + 1]
     IN \/ /\ ~flash[p].active /\ pgRes = Null
           /\ pgRes' = p /\ job' = next
           /\ UNCHANGED flash
        \/ /\ ~flash[p].active /\ pgRes # Null
           /\ flash' = setPageUse(p) /\ job' = next
           /\ UNCHANGED pgRes
        \/ /\ flash[p].active
           /\ job' = IF flash[p].xfer THEN [next EXCEPT !.pg = p] ELSE next
           /\ UNCHANGED <<flash, pgRes>>
  /\ UNCHANGED <<pc, pgOff, pgLost, hot, faults>>

\* Mutant: the reserve page found at power-up is trusted to be erased.
BootSettle_TrustsReserve ==
  /\ pc = "boot" /\ job.ip > LastPage
  /\ LET j == [job EXCEPT !.ip = 1]
     IN \/ pgRes # Null /\ job.pg # Null /\ ThenErase(j, pgRes, "compact")
        \/ pgRes # Null /\ job.pg = Null /\ Goto("initPages", j)
        \/ pgRes = Null /\ job.pg # Null /\ ThenErase(j, job.pg, "initPages")
        \/ pgRes = Null /\ job.pg = Null /\ Goto("initPages", j)
  /\ UNCHANGED <<flash, ram, faults>>

BootSettle ==
  /\ pc = "boot" /\ job.ip > LastPage
  /\ LET j == [job EXCEPT !.ip = 1]
     IN \/ /\ pgRes # Null
           /\ ThenErase(j, pgRes, IF job.pg # Null THEN "compact" ELSE "initPages")
        \/ /\ pgRes = Null /\ job.pg # Null
           /\ ThenErase(j, job.pg, "initPages")
        \/ /\ pgRes = Null /\ job.pg = Null
           /\ Goto("initPages", j)
  /\ UNCHANGED <<flash, ram, faults>>

\* initPage of the next page, or the end of a pass over the pages.
ToPage(j) ==
  IF j.ip < LastPage THEN Goto("initPages", [j EXCEPT !.ip = @ + 1, !.ii = 1, !.lost = 0])
  ELSE IF j.dups = "yes"
  THEN Goto("initPages", [j EXCEPT !.ip = 1, !.ii = 1, !.lost = 0, !.dups = "final"])
  ELSE Goto("pickRes", j)

ScanItem ==
  /\ pc = "initPages" /\ job.ii <= Len(flash[job.ip].items)
  /\ LET it   == Item(job.ip, job.ii)
         next == [job EXCEPT !.ii = @ + 1]
         lose == [next EXCEPT !.lost = @ + it.size]
     IN \/ /\ it.id = Null
           /\ Goto(pc, lose)
           /\ UNCHANGED <<flash, ram, faults>>
        \/ /\ it.id # Null /\ ~it.chk
           /\ ZeroAt(<<job.ip, job.ii>>)
           /\ Goto(pc, lose)
        \/ /\ it.id # Null /\ it.chk /\ job.dups = "yes"
           /\ IF it.stat = "new" /\ Copies(it.id, "xfer") # {}
              THEN ZeroAt(FirstOf(Copies(it.id, "xfer")))
              ELSE UNCHANGED <<flash, ram, faults>>
           /\ Goto(pc, next)
        \/ /\ it.id # Null /\ it.chk /\ job.dups # "yes" /\ it.stat = "new"
           /\ Goto(pc, next)
           /\ UNCHANGED <<flash, ram, faults>>
        \* An old copy: initPage returns early and leaves pgOff and pgLost as they are.
        \/ /\ it.id # Null /\ it.chk /\ job.dups # "yes" /\ it.stat = "xfer"
           /\ IF job.dups = "no" THEN Goto(pc, [job EXCEPT !.ip = 1, !.ii = 1, !.lost = 0, !.dups = "yes"])
              ELSE ToPage(job)
           /\ UNCHANGED <<flash, ram, faults>>

ScanEnd ==
  /\ pc = "initPages" /\ job.ii > Len(flash[job.ip].items)
  /\ pgOff'  = [pgOff EXCEPT ![job.ip] = Used(flash[job.ip].items)]
  /\ pgLost' = [pgLost EXCEPT ![job.ip] = job.lost]
  /\ ToPage(job)
  /\ UNCHANGED <<flash, pgRes, hot, faults>>

MostLost == CHOOSE p \in Pages : /\ \A q \in Pages : pgLost[q] <= pgLost[p]
                                /\ \A q \in 1 .. (p - 1) : pgLost[q] < pgLost[p]

\* No reserve page: the page that lost most is taken for the compacted one.
PickReserve ==
  /\ pc = "pickRes"
  /\ IF pgRes = Null THEN ThenErase(job, MostLost, "idle") ELSE Return
  /\ UNCHANGED <<flash, ram, faults>>

-----------------------------------------------------------------------------
(* Power.                                                                  *)

ColdRam == /\ pgOff' = [p \in Pages |-> 0] /\ pgLost' = [p \in Pages |-> 0]
           /\ pgRes' = Null /\ hot' = [i \in HotIds |-> Null]
           /\ pc' = "boot" /\ job' = [NoJob EXCEPT !.op = "boot"]

\* The states an interrupted erase may leave, as initNV's comments list them:
\* the header reads as erased, or only the mark of the compaction is gone.
HalfErased(p) == {[flash EXCEPT ![p].active = FALSE, ![p].xfer = FALSE],
                  [flash EXCEPT ![p].xfer = FALSE]}

PowerLoss ==
  /\ pc # "boot" \/ job.ip > 1
  /\ flash' \in {flash} \cup IF pc = "erase" THEN HalfErased(job.er) ELSE {}
  /\ ColdRam
  /\ UNCHANGED faults

Init == /\ flash = [p \in Pages |-> ErasedPage]
        /\ pgOff = [p \in Pages |-> 0] /\ pgLost = [p \in Pages |-> 0]
        /\ pgRes = Null /\ hot = [i \in HotIds |-> Null]
        /\ pc = "boot" /\ job = [NoJob EXCEPT !.op = "boot"]
        /\ faults = 0

Call == \E id \in Ids : \/ \E v \in Values : osal_nv_item_init(id, v) \/ osal_nv_write(id, v)
                        \/ Reopen(id)
                        \/ osal_nv_delete(id)

Compact  == MarkPage \/ CompactItem \/ CopyHeader \/ CopyData \/ CopyChk \/ CompactDone
Continue == Header \/ MarkSource \/ Data \/ Checksum \/ UseReserve \/ Erase \/ ZeroOld
Boot     == BootScan \/ BootSettle \/ ScanItem \/ ScanEnd \/ PickReserve

Next == Call \/ Compact \/ Continue \/ Boot \/ PowerLoss

Spec == Init /\ [][Next]_vars
-----------------------------------------------------------------------------
(* What a reset would bring back: the good copies on the pages that        *)
(* recovery keeps, one not marked as transferred before one that is.       *)

FirstReserve == {p \in Pages : ~flash[p].active /\ \A q \in 1 .. (p - 1) : flash[q].active}
LastPending  == {p \in Pages : /\ flash[p].active /\ flash[p].xfer
                               /\ \A q \in (p + 1) .. LastPage : ~(flash[q].active /\ flash[q].xfer)}

\* The page recovery erases without copying from it.
Doomed == IF FirstReserve # {} THEN FirstReserve ELSE LastPending

Good(id, stat) == {l \in Copies(id, stat) : l[1] \notin Doomed /\ Item(l[1], l[2]).chk}

Survivor(id) == IF Good(id, "new") # {} THEN ReadFrom(FirstOf(Good(id, "new")))
                ELSE IF Good(id, "xfer") # {} THEN ReadFrom(FirstOf(Good(id, "xfer")))
                ELSE Null

\* The abstract store: what a reset would bring back, and the call in progress.
AbstractCall == IF job.op \in {"write", "create"} THEN [id |-> job.id, val |-> job.val] ELSE Null

\* A page whose compaction failed in an earlier call is still marked.
LeftMarked == \E p \in Pages : p # job.pg /\ flash[p].xfer

S == INSTANCE NvStore WITH
       None <- Null, on <- job.op # "boot", call <- AbstractCall,
       store <- [id \in Ids |-> Survivor(id)], sound <- faults = 0,
       guarded <- job.op = "write" /\ Item(job.src[1], job.src[2]).chk /\ ~LeftMarked

\* The flash pages implement the store: whatever a step does, and wherever power
\* is lost, each item has its old value or the value being written after a reset.
\* When flash writes fail, a write that starts from a complete copy still takes no item
\* away: "if the new item is coming from the compacted page and writing the new value
\* failed, then the compaction must be aborted" (osal_nv_write).
ImplementsStore == S!Spec

-----------------------------------------------------------------------------
ItemState == [id : Ids \cup {Null}, size : 1 .. PageCap, val : Values \cup {Null},
              chk : BOOLEAN, stat : {"new", "xfer"}]

PageState == [active : BOOLEAN, xfer : BOOLEAN, items : Seq(ItemState)]

\* Shape of the state.  A page never holds more than it has room for: the copying
\* of items relies on pgOff and pgLost, which nothing checks again.
TypeOK == /\ flash \in [Pages -> PageState]
          /\ \A p \in Pages : Used(flash[p].items) <= PageCap
          /\ pgOff \in [Pages -> 0 .. PageCap] /\ pgLost \in [Pages -> 0 .. PageCap]
          /\ pgRes \in Pages \cup {Null}
          /\ DOMAIN hot = HotIds
          /\ DOMAIN job = DOMAIN NoJob
          /\ faults \in 0 .. MaxFaults

\* Between calls, a read returns what a reset would bring back, for an item that
\* osal_nv_item_init has opened; a cached place does not go stale.
ReadsStored == pc = "idle" => \A id \in Ids :
                 (id \in HotIds => hot[id] # Null) => osal_nv_read(id) = Survivor(id)

\* As above, as long as no flash write has failed.
ReadsStoredUntilFault == faults = 0 => ReadsStored

\* There is one erased page, the reserve page, and the others are in use.
OneReserve == \A p \in Pages : IF p = pgRes THEN flash[p] = ErasedPage ELSE flash[p].active

\* The bookkeeping never promises room that a page does not have.
RoomIsThere == \A p \in Pages \ {pgRes} :
  /\ Used(flash[p].items) <= pgOff[p]
  /\ pgLost[p] <= pgOff[p] - Words(flash[p].items, Ids)

\* Between calls, even after failed writes, a page can be compacted and an item
\* that is accepted can be written.
PagesSound == pc = "idle" => OneReserve /\ RoomIsThere

\* Erasing a page never destroys the last good copy of an item: the page recovery
\* takes for the compacted one "should only contain duplicate items" (initNV).
EraseKeepsItems ==
  [][pc = "erase" => \A id \in Ids : Survivor(id) # Null => Survivor(id)' # Null]_vars
=============================================================================
