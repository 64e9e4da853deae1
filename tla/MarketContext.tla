---------------------------- MODULE MarketContext ----------------------------
(***************************************************************************)
(* Context cards: indices and proxies shown beside the ETFs                *)
(* (market_context_service.py, market_context/contracts.py).               *)
(*                                                                         *)
(* A refresh synchronises the registry with the configuration and then     *)
(* stores what the provider observes.  Display orders are unique and       *)
(* bounded in the database, which checks them at every statement, so rows  *)
(* move through temporary orders.  A card that leaves the configuration    *)
(* keeps its history: its row is disabled, not deleted.  The service reads *)
(* what to show from the snapshots of the row's present symbol.            *)
(***************************************************************************)
EXTENDS Integers, FiniteSets, SequencesExt

CONSTANTS NCards,    \* context ids 1..NCards, in the order of their names
          Symbols,   \* source symbols
          NoSymbol,  \* the source symbol of a card that is not verified
          MaxOrder,  \* the bound 10000 of display_order
          MaxDay,    \* bound: trading days
          MaxValue,  \* bound: values an observation may have
          MaxSyncs   \* bound: refreshes

Cards == 1..NCards
Orders == 1..MaxOrder

ContextAssumption ==
  /\ NCards \in Nat /\ MaxOrder \in Nat /\ MaxDay \in Nat /\ MaxValue \in Nat /\ MaxSyncs \in Nat
  /\ NoSymbol \notin Symbols

VARIABLES config,   \* the configured items: a function from card to symbol and order
          rows,     \* market_context_registry, as the open transaction sees it
          snaps,    \* market_context_snapshots, as the open transaction sees it
          task,     \* the refresh under way: saved tables, orders still to write
          day,      \* today
          mock,     \* whether the configured provider is the synthetic one
          kept,     \* every snapshot ever committed
          applied,  \* the configuration the committed registry was synchronised with
          clash,    \* an UPDATE has hit the unique constraint
          syncs

vars == <<config, rows, snaps, task, day, mock, kept, applied, clash, syncs>>

NoRow == [on |-> FALSE, symbol |-> NoSymbol, order |-> 0]
Present(r) == {c \in Cards : r[c].order # 0}

\* RegistryConfig and MarketContextItem: at least one item, unique orders; an item is enabled only
\* when it is verified and has a symbol.
Configs ==
  {c \in UNION {[S -> [symbol : Symbols \cup {NoSymbol}, order : Orders]] : S \in (SUBSET Cards) \ {{}}} :
     IsInjective([x \in DOMAIN c |-> c[x].order])}

Idle == [pc |-> "idle", rows |-> <<>>, snaps |-> {}, first |-> <<>>, final |-> <<>>]

Init == /\ config \in Configs
        /\ rows = [c \in Cards |-> NoRow]
        /\ snaps = {}
        /\ task = Idle
        /\ day = 1
        /\ mock \in BOOLEAN
        /\ kept = {}
        /\ applied = <<>>
        /\ clash = FALSE
        /\ syncs = 0

(***************************************************************************)
(* sync_registry.                                                          *)
(***************************************************************************)

\* The largest n orders outside a set, downwards: _next_temporary_order, historical_orders and the
\* temporary orders of _make_display_orders_safe all take them so.
FreeOrders(taken) == SetToSortSeq(Orders \ taken, >)

\* Rows the configuration no longer names are deleted when they have no snapshots.
Removable(r, s) == {c \in Present(r) \ DOMAIN config : \A x \in s : x.card # c}

\* _item_values without the order; an inserted row starts with a temporary order.
Configured(c, order) == [on |-> config[c].symbol # NoSymbol, symbol |-> config[c].symbol, order |-> order]

\* What the INSERTs and the first UPDATEs make of the rows; <<>> when no temporary order is left.
Merged(r) ==
  LET finals == {config[c].order : c \in DOMAIN config}
      reserved == {r[c].order : c \in Present(r)}
      new == SetToSortSeq((DOMAIN config) \ Present(r), LAMBDA a, b : config[a].order < config[b].order)
      free == FreeOrders(reserved \cup finals)
      At(c) == CHOOSE i \in DOMAIN new : new[i] = c
  IN IF Len(free) < Len(new) THEN <<>>
     ELSE [c \in Cards |->
             CASE c \in DOMAIN config /\ c \in Present(r) -> Configured(c, r[c].order)
               [] c \in DOMAIN config /\ c \notin Present(r) -> Configured(c, free[At(c)])
               [] c \notin DOMAIN config /\ c \in Present(r) -> [NoRow EXCEPT !.order = r[c].order]
               [] OTHER -> NoRow]

\* The order every kept row shall have: configured ones theirs, historical ones from the top.
Desired(r) ==
  LET historical == SetToSortSeq(Present(r) \ DOMAIN config, <)
      free == FreeOrders({config[c].order : c \in DOMAIN config})
      At(c) == CHOOSE i \in DOMAIN historical : historical[i] = c
  IN [c \in Present(r) |-> IF c \in DOMAIN config THEN config[c].order ELSE free[At(c)]]

\* _make_display_orders_safe: nothing to do, or first a temporary order for every row, neither used
\* now nor wanted in the end, then the desired one.
Temporary(r, desired) ==
  LET free == FreeOrders({r[c].order : c \in Present(r)} \cup {desired[c] : c \in Present(r)})
      all == SetToSortSeq(Present(r), <)
      At(c) == CHOOSE i \in DOMAIN all : all[i] = c
  IN IF Len(free) < Len(all) THEN <<>> ELSE [c \in Present(r) |-> free[At(c)]]

\* The refresh begins: the registry's rows except for the orders of the kept ones.  Without enough
\* free orders it raises and the transaction is rolled back.
Sync ==
  LET gone == Removable(rows, snaps)
      left == [c \in Cards |-> IF c \in gone THEN NoRow ELSE rows[c]]
      merged == Merged(left)
      desired == Desired(merged)
      settled == \A c \in Present(merged) : merged[c].order = desired[c]
      temporary == Temporary(merged, desired)
  IN /\ task.pc = "idle"
     /\ syncs < MaxSyncs
     /\ syncs' = syncs + 1
     /\ IF merged = <<>> \/ (~settled /\ temporary = <<>>)
        THEN UNCHANGED <<rows, snaps, task>>
        ELSE /\ rows' = merged
             /\ snaps' = {x \in snaps : x.card \notin gone}
             /\ task' = [pc |-> "orders", rows |-> rows, snaps |-> snaps,
                         first |-> IF settled THEN <<>> ELSE temporary,
                         final |-> IF settled THEN <<>> ELSE desired]
     /\ UNCHANGED <<config, day, mock, kept, applied, clash>>

\* One UPDATE of display_order; the flush writes them in some order.
Without(f, c) == [x \in (DOMAIN f) \ {c} |-> f[x]]

Move(c, phase) ==
  LET order == task[phase][c] IN
  /\ task.pc = "orders"
  /\ c \in DOMAIN task[phase]
  /\ phase = "final" => task.first = <<>>
  /\ IF \E x \in Present(rows) \ {c} : rows[x].order = order
     THEN /\ clash' = TRUE
          /\ rows' = task.rows /\ snaps' = task.snaps /\ task' = Idle
     ELSE /\ rows' = [rows EXCEPT ![c].order = order]
          /\ task' = [task EXCEPT ![phase] = Without(@, c)]
          /\ UNCHANGED <<clash, snaps>>
  /\ UNCHANGED <<config, day, mock, kept, applied, syncs>>

(***************************************************************************)
(* Observations.                                                           *)
(***************************************************************************)

\* build_requests
Requests == {c \in Present(rows) : rows[c].on}

\* A daily bar is stamped at the start of its day; the synthetic provider stamps the minute.
Stamp(d) == IF mock THEN 2 * d + 1 ELSE 2 * d

\* What the provider may answer for a request: nothing, an observation of today or of the day
\* before, or one that _validate_observations refuses (another symbol, a duplicate, unverified).
Nothing == <<0, 0>>
Refused == <<-1, 0>>
Answers == {Nothing, Refused} \cup (({day, day - 1} \ {0}) \X (0..MaxValue))

Observed(c, a) == [card |-> c, symbol |-> rows[c].symbol, at |-> Stamp(a[1]), mock |-> mock, value |-> a[2]]

\* on_conflict_do_nothing over registry, symbol, source and source_timestamp
SameKey(x, y) == x.card = y.card /\ x.symbol = y.symbol /\ x.mock = y.mock /\ x.at = y.at

\* refresh after sync_registry.  A refused answer, a source priority that the provider chain cannot
\* honour or a provider's failure raises: the task rolls
\* back everything; the bootstrap task catches the error and commits the registry.
Fetch(answer) ==
  LET seen == {c \in Requests : answer[c] \notin {Nothing, Refused}}
      new == {x \in {Observed(c, answer[c]) : c \in seen} : \A y \in snaps : ~SameKey(x, y)}
  IN /\ task.pc = "orders" /\ task.first = <<>> /\ task.final = <<>>
     /\ IF \E c \in Requests : answer[c] = Refused
        THEN \/ rows' = task.rows /\ snaps' = task.snaps /\ UNCHANGED <<applied, kept>>
             \/ UNCHANGED <<rows, snaps, kept>> /\ applied' = config
        ELSE /\ snaps' = snaps \cup new
             /\ kept' = kept \cup new
             /\ applied' = config
             /\ UNCHANGED rows
     /\ task' = Idle
     /\ UNCHANGED <<config, day, mock, clash, syncs>>

\* A release with another configuration file or another provider.
Deploy(c, m) ==
  /\ task.pc = "idle" /\ syncs < MaxSyncs
  /\ config' = c /\ mock' = m
  /\ UNCHANGED <<rows, snaps, task, day, kept, applied, clash, syncs>>

NextDay == task.pc = "idle" /\ day < MaxDay /\ day' = day + 1
           /\ UNCHANGED <<config, rows, snaps, task, mock, kept, applied, clash, syncs>>

Next == \/ Sync \/ NextDay
        \/ \E c \in Cards, phase \in {"first", "final"} : Move(c, phase)
        \/ \E answer \in [Requests -> Answers] : Fetch(answer)
        \/ \E c \in Configs, m \in BOOLEAN : Deploy(c, m)

(***************************************************************************)
(* Reading.                                                                *)
(***************************************************************************)

\* latest_view: for an enabled row, the latest snapshot of its symbol.
View(c) ==
  LET own == {x \in snaps : x.card = c /\ x.symbol = rows[c].symbol} IN
  IF rows[c].on THEN {x \in own : \A y \in own : y.at =< x.at} ELSE {}

\* history: every snapshot of the row, whatever its symbol was then.
Series(c) == {x \in snaps : x.card = c /\ c \in Present(rows)}

(***************************************************************************)
(* Properties.                                                             *)
(***************************************************************************)

\* Whatever the configuration was and becomes, no UPDATE of the orders hits the unique constraint.
OrdersNeverClash == ~clash /\ \A c, d \in Present(rows) : c # d => rows[c].order # rows[d].order

\* History survives: what was committed is still there, on a row that exists, however often its
\* card left the configuration and came back.
ContextHistoryKept == task.pc = "idle" => \A c \in Cards : Series(c) = {x \in kept : x.card = c}

\* After a refresh the registry is the configuration it was given, order included, and nothing else
\* is enabled.
RegistryFollows ==
  task.pc = "idle" /\ applied # <<>> =>
    \A c \in Cards : IF c \in DOMAIN applied
                     THEN rows[c].symbol = applied[c].symbol /\ rows[c].order = applied[c].order
                     ELSE ~rows[c].on

\* A card shows one observation, of the symbol the configuration gives it, and never an older one
\* than was stored for that symbol before.
CardsHonest ==
  task.pc = "idle" =>
    \A c \in Cards : \A x \in View(c) :
      /\ c \in DOMAIN applied /\ x.symbol = applied[c].symbol
      /\ \A y \in kept : y.card = c /\ y.symbol = x.symbol => y.at =< x.at
      /\ View(c) = {x}

ContextSound == OrdersNeverClash /\ ContextHistoryKept /\ RegistryFollows /\ CardsHonest
=============================================================================
