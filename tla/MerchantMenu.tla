------------------------------ MODULE MerchantMenu ------------------------------
(***************************************************************************)
(* The menus of merchant-service (api.rs): members of a business create    *)
(* sections and items, change items, and read the menu.  No handler uses a *)
(* transaction; a call is the sequence of its statements, and the tables'  *)
(* constraints decide what concurrent statements may do.  Sections and     *)
(* items are named after the call that inserts them; memberships change    *)
(* nowhere in the source.                                                  *)
(***************************************************************************)
EXTENDS Integers

CONSTANTS
  Calls,
  Earlier,     \* calls whose section or item exists before we look
  Businesses,
  Users,
  Members,     \* Members[b]: its business_members
  Offered,     \* the operations that the clients of an instance call
  Stock,       \* values of stock_qty that clients send
  Prices,      \* values of amount_cents that clients send
  None         \* SQL NULL: unlimited stock, a field that a patch leaves alone

ASSUME MenuAssumption ==
  /\ Earlier \subseteq Calls
  /\ Members \in [Businesses -> SUBSET Users]
  /\ Stock \subseteq Int /\ Prices \subseteq Int
  /\ None \notin Calls \cup Businesses \cup Users \cup Int

VARIABLES
  section,  \* rows of menu_sections: None, or a record
  item,     \* rows of menu_items: None, or a record
  call      \* call[c]: the handler of call c

vars == <<section, item, call>>

Section == [business : Businesses, position : Nat]
Item == [business : Businesses, section : Calls, price : Nat, stock : Nat \cup {None}]

ASSUME NoneIsNoRow == None \notin Section \cup Item

Ops == {"create_section", "create_item", "update_item", "menu"}
CallState == [pc       : {"idle", "position", "insert", "update", "sections", "items",
                          "done", "denied", "invalid", "not_found", "error"},
              op       : Ops \cup {None},
              user     : Users \cup {None},
              business : Businesses \cup {None},
              target   : Calls \cup {None},                 \* the section of a new item, or the item
              price    : Int \cup {None},
              sets     : BOOLEAN,                           \* the patch names stock_qty
              stock    : Int \cup {None},
              position : Nat,                               \* for the new section
              seen     : SUBSET Calls,                      \* the sections that were read
              menu     : SUBSET Calls,                      \* the items that were answered
              after    : SUBSET Calls]                      \* history: rows when it began
NoCall == [pc |-> "idle", op |-> None, user |-> None, business |-> None, target |-> None, price |-> None,
           sets |-> FALSE, stock |-> None, position |-> 0, seen |-> {}, menu |-> {}, after |-> {}]

TypeOK ==
  /\ section \in [Calls -> Section \cup {None}]
  /\ item \in [Calls -> Item \cup {None}]
  /\ call \in [Calls -> CallState]

SectionsOf(b) == {s \in Calls : section[s] # None /\ section[s].business = b}
ItemsOf(b) == {i \in Calls : item[i] # None /\ item[i].business = b}

(* Sections of any business, and items in them.                            *)
Init ==
  /\ section \in {f \in [Calls -> {None} \cup [business : Businesses, position : {0}]] :
                    /\ \A c \in Calls \ Earlier : f[c] = None
                    /\ \A c, d \in Earlier : f[c] # None /\ f[c] = f[d] => c = d}
  /\ item = [c \in Calls |-> None]
  /\ call = [c \in Calls |-> IF c \in Earlier THEN [NoCall EXCEPT !.pc = "done"] ELSE NoCall]

-----------------------------------------------------------------------------
(***************************************************************************)
(* A call arrives and member looks the user up.  As memberships do not     *)
(* change, this first statement and the checks of create_item's input that *)
(* follow it are part of the arrival.                                      *)
(***************************************************************************)
Request(op, u, b) == [NoCall EXCEPT !.op = op, !.user = u, !.business = b]

ValidItem(me) == me.price >= 0 /\ (me.stock = None \/ me.stock >= 0)

(* What a call is answered; of its request only the histories stay.        *)
Answer(c, status) ==
  call' = [call EXCEPT ![c] = [NoCall EXCEPT !.pc = status, !.op = call[c].op, !.after = IF call[c].op = "create_section" THEN call[c].after ELSE {}]]

First(new) ==
  IF new.user \notin Members[new.business] THEN "denied"
  ELSE CASE new.op = "create_section" -> "position"
         [] new.op = "create_item" -> IF ValidItem(new) THEN "insert" ELSE "invalid"
         [] new.op = "update_item" -> "update"
         [] new.op = "menu" -> "sections"

Begin(c, new) ==
  /\ new.op \in Offered
  /\ call[c].pc = "idle"
  /\ IF First(new) \in {"denied", "invalid"} THEN Answer(c, First(new))
     ELSE call' = [call EXCEPT ![c] = [new EXCEPT !.pc = First(new),
                                                  !.after = SectionsOf(new.business) \cup ItemsOf(new.business)]]
  /\ UNCHANGED <<section, item>>

(* Rows that exist; c itself names one that does not.                      *)
Sections == UNION {SectionsOf(b) : b \in Businesses}
Items == UNION {ItemsOf(b) : b \in Businesses}

Arrive(c) == \E u \in Users, b \in Businesses :
  \/ \E op \in {"create_section", "menu"} : Begin(c, Request(op, u, b))
  \/ \E s \in Sections \cup {c}, p \in Prices, q \in Stock \cup {None} :
       Begin(c, [Request("create_item", u, b) EXCEPT !.target = s, !.price = p, !.stock = q])
  \/ \E i \in Items \cup {c}, p \in Prices \cup {None}, sets \in BOOLEAN, q \in Stock \cup {None} :
       /\ ~sets => q = None
       /\ Begin(c, [Request("update_item", u, b) EXCEPT !.target = i, !.price = p, !.sets = sets, !.stock = q])

At(c, stage) == call[c].pc = stage

(* create_section: the next position is read, and then inserted; positions *)
(* are unique in a business.                                               *)
(* Mutated form: those of all businesses count.                            *)
PositionsOfAll(b) == {section[s].position : s \in {t \in Calls : section[t] # None}}

PositionsOf(b) == {section[s].position : s \in SectionsOf(b)}

NextPosition(b) == IF PositionsOf(b) = {} THEN 0 ELSE (CHOOSE m \in PositionsOf(b) : \A n \in PositionsOf(b) : n <= m) + 1

ReadPosition(c) ==
  /\ At(c, "position")
  /\ call' = [call EXCEPT ![c].pc = "insert", ![c].position = NextPosition(call[c].business)]
  /\ UNCHANGED <<section, item>>

(* Mutated form: the table has no such constraint.                         *)
NoConstraint(b, p) == TRUE

Unoccupied(b, p) == \A s \in SectionsOf(b) : section[s].position # p

InsertSection(c) ==
  LET me == call[c] IN
  /\ At(c, "insert") /\ me.op = "create_section"
  /\ IF Unoccupied(me.business, me.position)
     THEN /\ section' = [section EXCEPT ![c] = [business |-> me.business, position |-> me.position]]
          /\ Answer(c, "done")
     ELSE Answer(c, "error") /\ UNCHANGED section
  /\ UNCHANGED item

(* create_item: the foreign key names section and business.                *)
(* Mutated form: it names the section alone.                               *)
AnySection(b, s) == section[s] # None

SectionExists(b, s) == s \in SectionsOf(b)

InsertItem(c) ==
  LET me == call[c] IN
  /\ At(c, "insert") /\ me.op = "create_item"
  /\ IF SectionExists(me.business, me.target)
     THEN /\ item' = [item EXCEPT ![c] = [business |-> me.business, section |-> me.target,
                                          price |-> me.price, stock |-> me.stock]]
          /\ Answer(c, "done")
     ELSE Answer(c, "invalid") /\ UNCHANGED item
  /\ UNCHANGED section

(* update_item: one UPDATE of the fields that the patch names.             *)
(* Mutated form: a patch without stock_qty clears it.                      *)
PatchedWhole(row, me) == [row EXCEPT !.price = IF me.price = None THEN @ ELSE me.price, !.stock = me.stock]

Patched(row, me) == [row EXCEPT !.price = IF me.price = None THEN @ ELSE me.price,
                                !.stock = IF me.sets THEN me.stock ELSE @]
RowExists(me) == me.target \in ItemsOf(me.business)

UpdateItem(c) ==
  LET me == call[c]
      row == Patched(item[me.target], me)
  IN  /\ At(c, "update")
      /\ \/ ~RowExists(me) /\ Answer(c, "not_found") /\ UNCHANGED item
         \/ /\ RowExists(me)
            /\ IF row.price >= 0 /\ (row.stock = None \/ row.stock >= 0)
               THEN item' = [item EXCEPT ![me.target] = row] /\ Answer(c, "done")
               ELSE Answer(c, "invalid") /\ UNCHANGED item
      /\ UNCHANGED section

(* menu: the sections, then the items, shown under the sections that were  *)
(* read.                                                                   *)
ReadSections(c) ==
  /\ At(c, "sections")
  /\ call' = [call EXCEPT ![c].pc = "items", ![c].seen = SectionsOf(call[c].business)]
  /\ UNCHANGED <<section, item>>

ReadItems(c) ==
  /\ At(c, "items")
  /\ call' = [call EXCEPT ![c].pc = "done",
                          ![c].menu = {i \in ItemsOf(call[c].business) : item[i].section \in call[c].seen}]
  /\ UNCHANGED <<section, item>>

Advance(c) ==
  ReadPosition(c) \/ InsertSection(c) \/ InsertItem(c) \/ UpdateItem(c) \/ ReadSections(c) \/ ReadItems(c)

Ended == (\A c \in Calls : call[c].pc \notin {"idle", "position", "insert", "update", "sections", "items"})
         /\ UNCHANGED vars

Next == (\E c \in Calls : Arrive(c) \/ Advance(c)) \/ Ended
Spec == Init /\ [][Next]_vars

-----------------------------------------------------------------------------
(* The sections of a business are numbered without a gap, whatever calls   *)
(* lose the race for a position.                                           *)
PositionsDense == \A b \in Businesses :
  \A s \in SectionsOf(b) : \A n \in 0..section[s].position : \E t \in SectionsOf(b) : section[t].position = n

(* A new section is shown below every section that existed when its call   *)
(* began, and no two share a place.                                        *)
SectionsInOrder == \A b \in Businesses : \A s, t \in SectionsOf(b) :
  /\ section[s].position = section[t].position => s = t
  /\ s \in call[t].after => section[s].position < section[t].position

(* A menu holds every item that existed when it was asked for, also while  *)
(* sections and items are being added.                                     *)
MenuComplete == \A c \in Calls :
  call[c].op = "menu" /\ call[c].pc = "done" => call[c].after \ SectionsOf(call[c].business) \subseteq call[c].menu

(* An update changes what its patch names and nothing else: of two updates *)
(* at once, neither undoes a field that only the other one names.          *)
PatchesMerge ==
  [][\A i \in Calls : item[i] # None /\ item'[i] # item[i] =>
       \E c \in Calls : /\ call[c].pc = "update" /\ call'[c].pc = "done" /\ call[c].target = i
                        /\ item'[i].price # item[i].price => item'[i].price = call[c].price
                        /\ item'[i].stock # item[i].stock => call[c].sets /\ item'[i].stock = call[c].stock]_vars
===============================================================================
