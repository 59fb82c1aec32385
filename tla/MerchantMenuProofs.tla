-------------------------- MODULE MerchantMenuProofs --------------------------
(***************************************************************************)
(* Proofs about MerchantMenu for any calls, businesses, users and          *)
(* memberships, and any values in requests.                                *)
(*                                                                         *)
(* That the positions of a business are 0, 1, ... without a gap is what    *)
(* makes max + 1 a place below every section, and what leaves the loser of *)
(* a race for a place with no place at all.                                *)
(***************************************************************************)
EXTENDS MerchantMenu, TLAPS

(* Rows belong to calls that have ended, one row each; what a call found   *)
(* when it began is still there.                                           *)
Rows ==
  /\ \A c \in Calls : section[c] # None \/ item[c] # None => call[c].pc = "done"
  /\ \A c \in Calls : section[c] = None \/ item[c] = None
  /\ \A c \in Calls : \A x \in call[c].after : section[x] # None \/ item[x] # None

Numbered == \A b \in Businesses : \E n \in Nat : PositionsOf(b) = 0..(n - 1)

(* A section about to be inserted comes below those its call found, and    *)
(* follows a position that is taken.                                       *)
Reads ==
  \A c \in Calls : call[c].pc = "insert" /\ call[c].op = "create_section" =>
    /\ call[c].position = 0 \/ call[c].position - 1 \in PositionsOf(call[c].business)
    /\ \A s \in SectionsOf(call[c].business) \cap call[c].after : section[s].position < call[c].position

(* An item is in a section of its own business.                            *)
ItemsAreShown == \A i \in Calls : item[i] # None => item[i].section \in SectionsOf(item[i].business)

Requests ==
  \A c \in Calls :
    /\ call[c].pc \in {"position", "insert", "update", "sections", "items"} => call[c].business \in Businesses
    /\ call[c].pc = "position" => call[c].op = "create_section"
    /\ call[c].pc = "update" => call[c].op = "update_item"
    /\ call[c].pc = "insert" => call[c].op \in {"create_section", "create_item"}
    /\ call[c].pc = "insert" /\ call[c].op = "create_item" =>
         call[c].price \in Nat /\ call[c].stock \in Nat \cup {None}

(* While a menu is read, the items it has to show are in sections that     *)
(* were read.                                                              *)
Menus ==
  \A c \in Calls :
    /\ call[c].pc = "sections" => call[c].after \subseteq SectionsOf(call[c].business) \cup ItemsOf(call[c].business)
    /\ call[c].pc = "items" => \A i \in call[c].after \ SectionsOf(call[c].business) :
         i \in ItemsOf(call[c].business) /\ item[i].section \in call[c].seen

IInv == /\ TypeOK /\ Rows /\ Numbered /\ Reads /\ ItemsAreShown /\ Requests /\ Menus
        /\ SectionsInOrder /\ MenuComplete

(* What a call may be about to do.                                         *)
Ready(r) ==
  /\ r \in CallState
  /\ \A x \in r.after : section[x] # None \/ item[x] # None
  /\ r.pc = "insert" /\ r.op = "create_section" =>
       /\ r.position = 0 \/ r.position - 1 \in PositionsOf(r.business)
       /\ \A s \in SectionsOf(r.business) \cap r.after : section[s].position < r.position
  /\ r.pc \in {"position", "insert", "update", "sections", "items"} => r.business \in Businesses
  /\ r.pc = "position" => r.op = "create_section"
  /\ r.pc = "update" => r.op = "update_item"
  /\ r.pc = "insert" => r.op \in {"create_section", "create_item"}
  /\ r.pc = "insert" /\ r.op = "create_item" => r.price \in Nat /\ r.stock \in Nat \cup {None}
  /\ r.pc = "sections" => r.after \subseteq SectionsOf(r.business) \cup ItemsOf(r.business)
  /\ r.pc = "items" => \A i \in r.after \ SectionsOf(r.business) :
       i \in ItemsOf(r.business) /\ item[i].section \in r.seen
  /\ r.op = "menu" /\ r.pc = "done" => r.after \ SectionsOf(r.business) \subseteq r.menu

-----------------------------------------------------------------------------
LEMMA NoCallType == NoCall \in CallState
PROOF
  BY MenuAssumption DEF NoCall, CallState, Ops

LEMMA RowType ==
  ASSUME TypeOK, NEW c \in Calls
  PROVE  /\ call[c] \in CallState
         /\ section[c] # None => section[c] \in Section /\ section[c].business \in Businesses /\ section[c].position \in Nat
         /\ item[c] # None => item[c] \in Item /\ item[c].business \in Businesses /\ item[c].section \in Calls
PROOF
  BY DEF TypeOK, Section, Item

LEMMA InvReady == ASSUME IInv, NEW c \in Calls PROVE Ready(call[c])
PROOF
<1> USE DEF IInv
<1>1. call[c] \in CallState BY RowType
<1>2. \A x \in call[c].after : section[x] # None \/ item[x] # None BY DEF Rows
<1>3. call[c].op = "menu" /\ call[c].pc = "done" => call[c].after \ SectionsOf(call[c].business) \subseteq call[c].menu
  BY DEF MenuComplete
<1> QED BY <1>1, <1>2, <1>3 DEF Ready, Reads, Requests, Menus

LEMMA InitInv == Init => IInv
PROOF
<1> SUFFICES ASSUME Init PROVE IInv OBVIOUS
<1>1. /\ section \in [Calls -> {None} \cup [business : Businesses, position : {0}]]
      /\ \A c \in Calls \ Earlier : section[c] = None
      /\ \A c, d \in Earlier : section[c] # None /\ section[c] = section[d] => c = d
      /\ item = [c \in Calls |-> None]
      /\ call = [c \in Calls |-> IF c \in Earlier THEN [NoCall EXCEPT !.pc = "done"] ELSE NoCall]
  BY DEF Init
<1>2. [NoCall EXCEPT !.pc = "done"] \in CallState BY NoCallType, Zenon DEF CallState
<1>3. TypeOK
  <2>1. section \in [Calls -> Section \cup {None}] BY <1>1 DEF Section
  <2>2. item \in [Calls -> Item \cup {None}] BY <1>1
  <2>3. call \in [Calls -> CallState] BY <1>1, <1>2, NoCallType
  <2> QED BY <2>1, <2>2, <2>3 DEF TypeOK
<1>4. \A c \in Calls : /\ call[c].after = {} /\ call[c].op = None
                       /\ call[c].pc = IF c \in Earlier THEN "done" ELSE "idle"
  BY <1>1 DEF NoCall
<1>5. Rows BY <1>1, <1>4 DEF Rows
<1>6. \A c \in Calls : section[c] # None => section[c].position = 0 /\ c \in Earlier
  BY <1>1
<1>7. Numbered
  <2> SUFFICES ASSUME NEW b \in Businesses PROVE \E n \in Nat : PositionsOf(b) = 0..(n - 1)
    BY DEF Numbered
  <2>1. PositionsOf(b) = {} \/ PositionsOf(b) = {0} BY <1>6 DEF PositionsOf, SectionsOf
  <2>2. 0..(0 - 1) = {} /\ 0..(1 - 1) = {0} OBVIOUS
  <2> QED BY <2>1, <2>2
<1>9. Reads /\ Requests /\ Menus /\ MenuComplete
  BY <1>4 DEF Reads, Requests, Menus, MenuComplete
<1>10. ItemsAreShown BY <1>1 DEF ItemsAreShown
<1>11. SectionsInOrder
  <2> SUFFICES ASSUME NEW b \in Businesses, NEW s \in SectionsOf(b), NEW t \in SectionsOf(b)
               PROVE s = t
    BY <1>4 DEF SectionsInOrder, SectionsOf
  <2>1. s \in Earlier /\ t \in Earlier /\ section[s] = section[t] /\ section[s] # None
    BY <1>1, <1>6 DEF SectionsOf
  <2> QED BY <1>1, <2>1
<1> QED BY <1>3, <1>5, <1>7, <1>9, <1>10, <1>11 DEF IInv

(* Tables that stay as they are.                                           *)
LEMMA CallStep ==
  ASSUME IInv, NEW c \in Calls, NEW r, Ready(r), call[c].pc # "done",
         call' = [call EXCEPT ![c] = r], UNCHANGED <<section, item>>
  PROVE  IInv'
PROOF
<1> USE DEF IInv
<1>1. TypeOK' BY DEF TypeOK, Ready
<1>2. call'[c] = r /\ \A d \in Calls \ {c} : call'[d] = call[d]
  BY DEF TypeOK
<1>3. Rows' BY <1>2 DEF Rows, Ready
<1>4. Numbered'
  <2>1. \A b \in Businesses : PositionsOf(b)' = PositionsOf(b) BY DEF PositionsOf, SectionsOf
  <2> QED BY <2>1 DEF Numbered
<1>5. Reads' BY <1>2 DEF Reads, Ready, PositionsOf, SectionsOf
<1>6. ItemsAreShown' BY DEF ItemsAreShown, SectionsOf
<1>7. Requests' BY <1>2 DEF Requests, Ready
<1>8. Menus' BY <1>2 DEF Menus, Ready, SectionsOf, ItemsOf
<1>9. SectionsInOrder'
  BY <1>2 DEF Rows, SectionsInOrder, SectionsOf
<1>10. MenuComplete' BY <1>2 DEF MenuComplete, Ready, SectionsOf
<1> QED BY <1>1, <1>3, <1>4, <1>5, <1>6, <1>7, <1>8, <1>9, <1>10

LEMMA AnswerRecord ==
  ASSUME IInv, NEW c \in Calls, NEW status \in {"done", "denied", "invalid", "not_found", "error"},
         Answer(c, status)
  PROVE  \E r \in CallState :
           /\ call' = [call EXCEPT ![c] = r]
           /\ r.pc = status /\ r.op = call[c].op
           /\ r.after = IF call[c].op = "create_section" THEN call[c].after ELSE {}
PROOF
<1> DEFINE me == call[c]
           left == IF me.op = "create_section" THEN me.after ELSE {}
           r == [NoCall EXCEPT !.pc = status, !.op = me.op, !.after = left]
<1>1. me.op \in Ops \cup {None} /\ me.after \in SUBSET Calls /\ left \in SUBSET Calls
  BY InvReady DEF Ready, CallState
<1>2. r \in CallState /\ r.pc = status /\ r.op = me.op /\ r.after = left
  <2> HIDE DEF left
  <2> QED BY <1>1, NoCallType, ZenonT(60) DEF CallState
<1>3. call' = [call EXCEPT ![c] = r] BY DEF Answer
<1> HIDE DEF r
<1> QED BY <1>2, <1>3

(* A call that ends without a row, and without a menu.                     *)
LEMMA AnswerStep ==
  ASSUME IInv, NEW c \in Calls, NEW status \in {"done", "denied", "invalid", "not_found", "error"},
         Answer(c, status), call[c].pc # "done", call[c].op = "menu" => status # "done",
         UNCHANGED <<section, item>>
  PROVE  IInv'
PROOF
<1>1. PICK r \in CallState :
        /\ call' = [call EXCEPT ![c] = r]
        /\ r.pc = status /\ r.op = call[c].op
        /\ r.after = IF call[c].op = "create_section" THEN call[c].after ELSE {}
  BY AnswerRecord
<1>2. \A x \in r.after : section[x] # None \/ item[x] # None BY <1>1, InvReady DEF Ready
<1>3. Ready(r) BY <1>1, <1>2 DEF Ready
<1> QED BY <1>1, <1>3, CallStep

Begun(new, pc, after) == [new EXCEPT !.pc = pc, !.after = after]

LEMMA BeginType ==
  ASSUME NEW new \in CallState, NEW pc \in {"position", "insert", "update", "sections"}, NEW after \in SUBSET Calls
  PROVE  /\ Begun(new, pc, after) \in CallState /\ Begun(new, pc, after).pc = pc
         /\ Begun(new, pc, after).after = after /\ Begun(new, pc, after).op = new.op
         /\ Begun(new, pc, after).business = new.business
         /\ Begun(new, pc, after).price = new.price /\ Begun(new, pc, after).stock = new.stock
PROOF
  BY ZenonT(60) DEF Begun, CallState

LEMMA BeginStep ==
  ASSUME IInv, NEW c \in Calls, NEW new \in CallState, Begin(c, new),
         new.business \in Businesses, new.op \in Ops,
         new.op = "create_item" => new.price \in Int /\ new.stock \in Int \cup {None}
  PROVE  IInv'
PROOF
<1>1. call[c].pc = "idle" /\ UNCHANGED <<section, item>> BY DEF Begin
<1>2. First(new) \in {"denied", "position", "insert", "invalid", "update", "sections"}
  BY DEF First, Ops
<1>3. CASE First(new) \in {"denied", "invalid"}
  <2>1. Answer(c, First(new)) BY <1>3 DEF Begin
  <2> QED BY <1>1, <1>3, <2>1, AnswerStep
<1>4. CASE First(new) \notin {"denied", "invalid"}
  <2> DEFINE after == SectionsOf(new.business) \cup ItemsOf(new.business)
             r == Begun(new, First(new), after)
  <2>1. call' = [call EXCEPT ![c] = r] BY <1>4 DEF Begin, Begun
  <2>2. after \in SUBSET Calls /\ \A x \in after : section[x] # None \/ item[x] # None
    BY DEF SectionsOf, ItemsOf
  <2>3. /\ First(new) = "position" => new.op = "create_section"
        /\ First(new) = "update" => new.op = "update_item"
        /\ First(new) = "sections" => new.op = "menu"
        /\ First(new) = "insert" => new.op = "create_item" /\ ValidItem(new)
    BY DEF First, Ops
  <2>4. First(new) = "insert" => new.price \in Nat /\ new.stock \in Nat \cup {None}
    BY <2>3 DEF ValidItem
  <2> HIDE DEF after
  <2>5. /\ r \in CallState /\ r.pc = First(new) /\ r.after = after /\ r.op = new.op /\ r.business = new.business
        /\ r.price = new.price /\ r.stock = new.stock
    <3>1. First(new) \in {"position", "insert", "update", "sections"} BY <1>2, <1>4
    <3> QED BY <2>2, <3>1, BeginType
  <2> HIDE DEF r
  <2>6. Ready(r) BY <1>2, <1>4, <2>2, <2>3, <2>4, <2>5 DEF Ready, after
  <2> QED BY <1>1, <2>1, <2>6, CallStep
<1> QED BY <1>3, <1>4

NewItem(me, s, p, q) == [me EXCEPT !.target = s, !.price = p, !.stock = q]
Patch(me, i, p, sets, q) == [me EXCEPT !.target = i, !.price = p, !.sets = sets, !.stock = q]

LEMMA NewItemType ==
  ASSUME NEW me \in CallState, NEW s \in Calls, NEW p \in Int, NEW q \in Int \cup {None}
  PROVE  /\ NewItem(me, s, p, q) \in CallState /\ NewItem(me, s, p, q).op = me.op
         /\ NewItem(me, s, p, q).business = me.business
         /\ NewItem(me, s, p, q).price = p /\ NewItem(me, s, p, q).stock = q
PROOF
<1>1. s \in Calls \cup {None} /\ p \in Int \cup {None} OBVIOUS
<1> QED BY <1>1, Zenon DEF NewItem, CallState

LEMMA PatchType ==
  ASSUME NEW me \in CallState, NEW i \in Calls, NEW p \in Int \cup {None}, NEW q \in Int \cup {None},
         NEW sets \in BOOLEAN
  PROVE  /\ Patch(me, i, p, sets, q) \in CallState /\ Patch(me, i, p, sets, q).op = me.op
         /\ Patch(me, i, p, sets, q).business = me.business
PROOF
<1>1. i \in Calls \cup {None} OBVIOUS
<1>2. Patch(me, i, p, sets, q).op = me.op /\ Patch(me, i, p, sets, q).business = me.business
  BY Zenon DEF Patch, CallState
<1>3. Patch(me, i, p, sets, q) \in CallState BY <1>1, ZenonT(60) DEF Patch, CallState
<1> QED BY <1>2, <1>3

LEMMA ArriveStep == ASSUME IInv, NEW c \in Calls, Arrive(c) PROVE IInv'
PROOF
<1>1. ASSUME NEW op \in Ops, NEW u \in Users, NEW b \in Businesses
      PROVE  Request(op, u, b) \in CallState /\ Request(op, u, b).op = op /\ Request(op, u, b).business = b
  BY NoCallType, Zenon DEF Request, CallState
<1>2. \A s \in Sections \cup Items \cup {c} : s \in Calls
  BY DEF Sections, Items, SectionsOf, ItemsOf
<1>3. PICK u \in Users, b \in Businesses :
  \/ \E op \in {"create_section", "menu"} : Begin(c, Request(op, u, b))
  \/ \E s \in Sections \cup {c}, p \in Prices, q \in Stock \cup {None} :
       Begin(c, [Request("create_item", u, b) EXCEPT !.target = s, !.price = p, !.stock = q])
  \/ \E i \in Items \cup {c}, p \in Prices \cup {None}, sets \in BOOLEAN, q \in Stock \cup {None} :
       Begin(c, [Request("update_item", u, b) EXCEPT !.target = i, !.price = p, !.sets = sets, !.stock = q])
  BY ZenonT(60) DEF Arrive
<1>4. CASE \E op \in {"create_section", "menu"} : Begin(c, Request(op, u, b))
  <2>1. PICK op \in {"create_section", "menu"} : Begin(c, Request(op, u, b)) BY <1>4
  <2> QED BY <1>1, <2>1, BeginStep DEF Ops
<1>5. CASE \E s \in Sections \cup {c}, p \in Prices, q \in Stock \cup {None} :
             Begin(c, [Request("create_item", u, b) EXCEPT !.target = s, !.price = p, !.stock = q])
  <2>1. PICK s \in Sections \cup {c}, p \in Prices, q \in Stock \cup {None} :
             Begin(c, [Request("create_item", u, b) EXCEPT !.target = s, !.price = p, !.stock = q])
    BY <1>5, Zenon
  <2> DEFINE new == NewItem(Request("create_item", u, b), s, p, q)
  <2>2. s \in Calls /\ p \in Int /\ q \in Int \cup {None}
    BY <1>2, MenuAssumption
  <2>3. "create_item" \in Ops BY DEF Ops
  <2>4. new \in CallState /\ new.op = "create_item" /\ new.business = b /\ new.price = p /\ new.stock = q
    BY <1>1, <2>2, <2>3, NewItemType
  <2>5. Begin(c, new) BY <2>1 DEF NewItem
  <2> HIDE DEF new
  <2> QED BY <2>2, <2>3, <2>4, <2>5, BeginStep
<1>6. CASE \E i \in Items \cup {c}, p \in Prices \cup {None}, sets \in BOOLEAN, q \in Stock \cup {None} :
             Begin(c, [Request("update_item", u, b) EXCEPT !.target = i, !.price = p, !.sets = sets, !.stock = q])
  <2>1. PICK i \in Items \cup {c}, p \in Prices \cup {None}, sets \in BOOLEAN, q \in Stock \cup {None} :
             Begin(c, [Request("update_item", u, b) EXCEPT !.target = i, !.price = p, !.sets = sets, !.stock = q])
    BY <1>6, Zenon
  <2> DEFINE new == Patch(Request("update_item", u, b), i, p, sets, q)
  <2>2. i \in Calls /\ p \in Int \cup {None} /\ q \in Int \cup {None}
    BY <1>2, MenuAssumption
  <2>3. "update_item" \in Ops BY DEF Ops
  <2>4. new \in CallState /\ new.op = "update_item" /\ new.business = b
    BY <1>1, <2>2, <2>3, PatchType
  <2>5. Begin(c, new) BY <2>1 DEF Patch
  <2> HIDE DEF new
  <2>6. new.op # "create_item" BY <2>4
  <2> QED BY <2>3, <2>4, <2>5, <2>6, BeginStep
<1> QED BY <1>3, <1>4, <1>5, <1>6

LEMMA NextPositionIs ==
  ASSUME IInv, NEW b \in Businesses
  PROVE  /\ NextPosition(b) \in Nat
         /\ NextPosition(b) = 0 \/ NextPosition(b) - 1 \in PositionsOf(b)
         /\ \A s \in SectionsOf(b) : section[s].position < NextPosition(b)
PROOF
<1>1. PICK n \in Nat : PositionsOf(b) = 0..(n - 1) BY DEF IInv, Numbered
<1>2. \A s \in SectionsOf(b) : section[s].position \in PositionsOf(b) BY DEF PositionsOf
<1>3. CASE PositionsOf(b) = {} BY <1>2, <1>3 DEF NextPosition
<1>4. CASE PositionsOf(b) # {}
  <2>1. n - 1 \in PositionsOf(b) /\ \A p \in PositionsOf(b) : p <= n - 1 BY <1>1, <1>4
  <2> DEFINE m == CHOOSE m \in PositionsOf(b) : \A p \in PositionsOf(b) : p <= m
  <2>2. m \in PositionsOf(b) /\ \A p \in PositionsOf(b) : p <= m BY <2>1
  <2>3. NextPosition(b) = m + 1 BY <1>4 DEF NextPosition
  <2> HIDE DEF m
  <2>4. m \in Nat /\ \A p \in PositionsOf(b) : p \in Nat BY <1>1, <2>2
  <2>5. NextPosition(b) \in Nat /\ NextPosition(b) - 1 = m BY <2>3, <2>4
  <2>6. ASSUME NEW s \in SectionsOf(b) PROVE section[s].position < NextPosition(b)
    <3>1. section[s].position \in Nat /\ section[s].position <= m BY <1>2, <2>2, <2>4
    <3> QED BY <2>3, <2>4, <3>1
  <2> QED BY <2>2, <2>5, <2>6
<1> QED BY <1>3, <1>4

LEMMA ReadPositionStep == ASSUME IInv, NEW c \in Calls, ReadPosition(c) PROVE IInv'
PROOF
<1> DEFINE me == call[c]
           p == NextPosition(me.business)
           r == [me EXCEPT !.pc = "insert", !.position = p]
<1>1. Ready(me) /\ me.pc = "position" /\ me.op = "create_section" /\ me.business \in Businesses
  BY InvReady DEF ReadPosition, At, Ready
<1>2. /\ p \in Nat /\ (p = 0 \/ p - 1 \in PositionsOf(me.business))
      /\ \A s \in SectionsOf(me.business) : section[s].position < p
  BY <1>1, NextPositionIs
<1>3. call' = [call EXCEPT ![c] = r] /\ UNCHANGED <<section, item>>
  BY <1>1 DEF ReadPosition, IInv, TypeOK
<1> HIDE DEF p
<1>4. /\ r \in CallState /\ r.pc = "insert" /\ r.position = p /\ r.op = me.op /\ r.business = me.business
      /\ r.after = me.after
  BY <1>1, <1>2, ZenonT(60) DEF Ready, CallState
<1> HIDE DEF r
<1>5. Ready(r) BY <1>1, <1>2, <1>4 DEF Ready
<1> QED BY <1>1, <1>3, <1>5, CallStep

LEMMA ReadSectionsStep == ASSUME IInv, NEW c \in Calls, ReadSections(c) PROVE IInv'
PROOF
<1> DEFINE me == call[c]
           seen == SectionsOf(me.business)
           r == [me EXCEPT !.pc = "items", !.seen = seen]
<1>1. Ready(me) /\ me.pc = "sections" /\ me.business \in Businesses
  BY InvReady DEF ReadSections, At, Ready
<1>2. seen \in SUBSET Calls BY DEF SectionsOf
<1>3. call' = [call EXCEPT ![c] = r] /\ UNCHANGED <<section, item>>
  BY <1>1 DEF ReadSections, IInv, TypeOK
<1>4. \A i \in ItemsOf(me.business) : item[i].section \in seen
  BY DEF IInv, ItemsAreShown, ItemsOf
<1> HIDE DEF seen
<1>5. /\ r \in CallState /\ r.pc = "items" /\ r.seen = seen /\ r.op = me.op /\ r.business = me.business
      /\ r.after = me.after
  BY <1>1, <1>2, ZenonT(60) DEF Ready, CallState
<1> HIDE DEF r
<1>6. Ready(r) BY <1>1, <1>4, <1>5 DEF Ready
<1> QED BY <1>1, <1>3, <1>6, CallStep

LEMMA ReadItemsStep == ASSUME IInv, NEW c \in Calls, ReadItems(c) PROVE IInv'
PROOF
<1> DEFINE me == call[c]
           menu == {i \in ItemsOf(me.business) : item[i].section \in me.seen}
           r == [me EXCEPT !.pc = "done", !.menu = menu]
<1>1. Ready(me) /\ me.pc = "items" BY InvReady DEF ReadItems, At
<1>2. menu \in SUBSET Calls BY DEF ItemsOf
<1>3. call' = [call EXCEPT ![c] = r] /\ UNCHANGED <<section, item>>
  BY <1>1 DEF ReadItems, IInv, TypeOK
<1>4. me.after \ SectionsOf(me.business) \subseteq menu BY <1>1 DEF Ready
<1> HIDE DEF menu
<1>5. /\ r \in CallState /\ r.pc = "done" /\ r.menu = menu /\ r.op = me.op /\ r.business = me.business
      /\ r.after = me.after
  BY <1>1, <1>2, ZenonT(60) DEF Ready, CallState
<1> HIDE DEF r
<1>6. Ready(r) BY <1>1, <1>4, <1>5 DEF Ready
<1> QED BY <1>1, <1>3, <1>6, CallStep

LEMMA InsertSectionStep == ASSUME IInv, NEW c \in Calls, InsertSection(c) PROVE IInv'
PROOF
<1> USE DEF IInv
<1> DEFINE me == call[c]
           b == me.business
           row == [business |-> b, position |-> me.position]
<1>1. /\ Ready(me) /\ me.pc = "insert" /\ me.op = "create_section" /\ b \in Businesses
      /\ section[c] = None /\ item[c] = None /\ item' = item
  BY InvReady DEF InsertSection, At, Ready, Rows
<1>2. CASE ~Unoccupied(b, me.position)
  <2>1. Answer(c, "error") /\ section' = section BY <1>2 DEF InsertSection
  <2> QED BY <1>1, <2>1, AnswerStep
<1>3. CASE Unoccupied(b, me.position)
  <2>1. Answer(c, "done") /\ section' = [section EXCEPT ![c] = row] BY <1>3 DEF InsertSection
  <2>2. PICK r \in CallState : /\ call' = [call EXCEPT ![c] = r]
                               /\ r.pc = "done" /\ r.op = "create_section" /\ r.after = me.after
    BY <1>1, <2>1, AnswerRecord
  <2>3. me.position \in Nat /\ row \in Section BY <1>1 DEF Ready, CallState, Section
  <2>4. row # None BY <2>3, NoneIsNoRow
  <2>5. /\ section'[c] = row /\ \A d \in Calls \ {c} : section'[d] = section[d]
        /\ call'[c] = r /\ \A d \in Calls \ {c} : call'[d] = call[d]
        /\ row.business = b /\ row.position = me.position
    BY <2>1, <2>2 DEF TypeOK
  <2>6. TypeOK' BY <1>1, <2>1, <2>2, <2>3 DEF TypeOK
  <2>7. \A x \in Calls : section[x] # None => section'[x] = section[x] BY <1>1, <2>5
  <2>8. \A d \in Calls : c \notin call[d].after BY <1>1 DEF Rows
  <2>9. \A d \in Calls : call'[d].after = call[d].after BY <2>2, <2>5
  <2>10. Rows'
    <3>1. \A d \in Calls : section'[d] # None \/ item'[d] # None => call'[d].pc = "done"
      BY <1>1, <2>2, <2>5 DEF Rows
    <3>2. \A d \in Calls : section'[d] = None \/ item'[d] = None
      BY <1>1, <2>5 DEF Rows
    <3>3. \A d \in Calls : \A x \in call'[d].after : section'[x] # None \/ item'[x] # None
      <4> SUFFICES ASSUME NEW d \in Calls, NEW x \in call[d].after PROVE section'[x] # None \/ item'[x] # None
        BY <2>9
      <4>1. x \in Calls BY InvReady DEF Ready, CallState
      <4> QED BY <1>1, <2>7, <4>1 DEF Rows
    <3> QED BY <3>1, <3>2, <3>3 DEF Rows
  <2>11. \A x \in Businesses : PositionsOf(x)' = PositionsOf(x) \cup (IF x = b THEN {me.position} ELSE {})
    BY <1>1, <2>4, <2>5, <2>7 DEF PositionsOf, SectionsOf
  <2>12. PICK n \in Nat : PositionsOf(b) = 0..(n - 1) BY <1>1 DEF Numbered
  <2>13. me.position = n
    <3>1. me.position \notin PositionsOf(b) BY <1>3 DEF Unoccupied, PositionsOf
    <3>2. me.position = 0 \/ me.position - 1 \in PositionsOf(b) BY <1>1 DEF Ready
    <3> QED BY <2>3, <2>12, <3>1, <3>2
  <2>14. Numbered'
    <3> SUFFICES ASSUME NEW x \in Businesses PROVE \E m \in Nat : PositionsOf(x)' = 0..(m - 1)
      BY DEF Numbered
    <3>1. CASE x # b
      <4>1. PositionsOf(x)' = PositionsOf(x) BY <2>11, <3>1
      <4> QED BY <4>1 DEF Numbered
    <3>2. CASE x = b
      <4>1. PositionsOf(x)' = 0..(n - 1) \cup {n} BY <2>11, <2>12, <2>13, <3>2
      <4>2. n + 1 \in Nat /\ 0..(n - 1) \cup {n} = 0..((n + 1) - 1) OBVIOUS
      <4> QED BY <4>1, <4>2
    <3> QED BY <3>1, <3>2
  <2>15. Reads'
    <3> SUFFICES ASSUME NEW d \in Calls, call'[d].pc = "insert", call'[d].op = "create_section"
                 PROVE  /\ call'[d].position = 0 \/ call'[d].position - 1 \in PositionsOf(call[d].business)'
                        /\ \A s \in SectionsOf(call[d].business)' \cap call'[d].after :
                             section'[s].position < call'[d].position
      BY DEF Reads
    <3>1. d # c /\ call'[d] = call[d] BY <2>2, <2>5
    <3>2. call[d].business \in Businesses BY <3>1 DEF Requests
    <3>3. /\ call[d].position = 0 \/ call[d].position - 1 \in PositionsOf(call[d].business)
          /\ \A s \in SectionsOf(call[d].business) \cap call[d].after : section[s].position < call[d].position
      BY <3>1 DEF Reads
    <3>4. PICK x \in Businesses : x = call[d].business /\ x = call'[d].business BY <3>1, <3>2
    <3>5. PositionsOf(x) \subseteq PositionsOf(x)' BY <2>11
    <3>6. \A s \in SectionsOf(x)' \cap call[d].after : s \in SectionsOf(x) /\ section'[s] = section[s]
      BY <2>5, <2>8 DEF SectionsOf
    <3> QED BY <3>1, <3>3, <3>4, <3>5, <3>6 DEF PositionsOf, SectionsOf
  <2>16. ItemsAreShown' BY <1>1, <2>7 DEF ItemsAreShown, SectionsOf
  <2>17. Requests' BY <2>2, <2>5 DEF Requests
  <2>18. Menus' BY <1>1, <2>2, <2>5, <2>7 DEF Menus, SectionsOf, ItemsOf
  <2>19. MenuComplete' BY <2>2, <2>5, <2>7 DEF MenuComplete, SectionsOf
  <2>20. SectionsInOrder'
    <3> SUFFICES ASSUME NEW x \in Businesses, NEW s \in SectionsOf(x)', NEW t \in SectionsOf(x)'
                 PROVE  /\ section'[s].position = section'[t].position => s = t
                        /\ s \in call'[t].after => section'[s].position < section'[t].position
      BY DEF SectionsInOrder
    <3>1. \A u \in SectionsOf(x)' : u # c => u \in SectionsOf(x) /\ section'[u] = section[u]
      <4>1. \A u \in SectionsOf(x)' : u \in Calls /\ section'[u] # None /\ section'[u].business = x BY DEF SectionsOf
      <4>2. \A u \in Calls : section[u] # None /\ section[u].business = x => u \in SectionsOf(x) BY DEF SectionsOf
      <4>3. ASSUME NEW u \in SectionsOf(x)', u # c PROVE u \in SectionsOf(x) /\ section'[u] = section[u]
        <5>1. u \in Calls /\ section'[u] # None /\ section'[u].business = x BY <4>1
        <5>2. section'[u] = section[u] BY <2>5, <4>3, <5>1
        <5> QED BY <4>2, <5>1, <5>2
      <4> QED BY <4>3
    <3>2. c \in SectionsOf(x)' => x = b BY <2>4, <2>5 DEF SectionsOf
    <3>3. s \in Calls /\ t \in Calls BY DEF SectionsOf
    <3>4. CASE s # c /\ t # c BY <2>9, <3>1, <3>3, <3>4 DEF SectionsInOrder
    <3>5. CASE s = c /\ t = c BY <2>8, <2>9, <3>3, <3>5
    <3>6. CASE s = c /\ t # c
      BY <1>3, <2>5, <2>8, <2>9, <3>1, <3>2, <3>3, <3>6 DEF Unoccupied
    <3>7. CASE s # c /\ t = c
      <4>1. s \in SectionsOf(b) /\ section'[s] = section[s] BY <3>1, <3>2, <3>7
      <4>2. section[s].position # me.position BY <1>3, <4>1 DEF Unoccupied
      <4>3. s \in me.after => section[s].position < me.position BY <1>1, <4>1 DEF Ready
      <4> QED BY <2>5, <2>9, <3>3, <3>7, <4>1, <4>2, <4>3
    <3> QED BY <3>4, <3>5, <3>6, <3>7
  <2> QED BY <2>6, <2>10, <2>14, <2>15, <2>16, <2>17, <2>18, <2>19, <2>20
<1> QED BY <1>2, <1>3

LEMMA InsertItemStep == ASSUME IInv, NEW c \in Calls, InsertItem(c) PROVE IInv'
PROOF
<1> USE DEF IInv
<1> DEFINE me == call[c]
           row == [business |-> me.business, section |-> me.target, price |-> me.price, stock |-> me.stock]
<1>1. /\ Ready(me) /\ me.pc = "insert" /\ me.op = "create_item" /\ me.business \in Businesses
      /\ section[c] = None /\ item[c] = None /\ section' = section
  BY InvReady DEF InsertItem, At, Ready, Rows
<1>2. CASE ~SectionExists(me.business, me.target)
  <2>1. Answer(c, "invalid") /\ item' = item BY <1>2 DEF InsertItem
  <2> QED BY <1>1, <2>1, AnswerStep
<1>3. CASE SectionExists(me.business, me.target)
  <2>1. Answer(c, "done") /\ item' = [item EXCEPT ![c] = row] BY <1>3 DEF InsertItem
  <2>2. PICK r \in CallState : /\ call' = [call EXCEPT ![c] = r]
                               /\ r.pc = "done" /\ r.op = "create_item" /\ r.after = {}
    BY <1>1, <2>1, AnswerRecord
  <2>3. me.target \in SectionsOf(me.business) /\ me.target \in Calls
    BY <1>3 DEF SectionExists, SectionsOf
  <2>4. row \in Item BY <1>1, <2>3 DEF Ready, Item
  <2>5. row # None BY <2>4, NoneIsNoRow
  <2>6. /\ item'[c] = row /\ \A d \in Calls \ {c} : item'[d] = item[d]
        /\ call'[c] = r /\ \A d \in Calls \ {c} : call'[d] = call[d]
        /\ row.business = me.business /\ row.section = me.target
    BY <2>1, <2>2 DEF TypeOK
  <2>7. TypeOK' BY <1>1, <2>1, <2>2, <2>4 DEF TypeOK
  <2>8. \A x \in Calls : item[x] # None => item'[x] = item[x] BY <1>1, <2>6
  <2>9. Rows'
    <3>1. \A d \in Calls : section'[d] # None \/ item'[d] # None => call'[d].pc = "done"
      BY <1>1, <2>2, <2>6 DEF Rows
    <3>2. \A d \in Calls : section'[d] = None \/ item'[d] = None
      BY <1>1, <2>6 DEF Rows
    <3>3. \A d \in Calls : \A x \in call'[d].after : section'[x] # None \/ item'[x] # None
      <4> SUFFICES ASSUME NEW d \in Calls, NEW x \in call[d].after PROVE section[x] # None \/ item'[x] # None
        BY <1>1, <2>2, <2>6
      <4>1. x \in Calls BY InvReady DEF Ready, CallState
      <4> QED BY <1>1, <2>8, <4>1 DEF Rows
    <3> QED BY <3>1, <3>2, <3>3 DEF Rows
  <2>10. Numbered'
    <3>1. \A x \in Businesses : PositionsOf(x)' = PositionsOf(x) BY <1>1 DEF PositionsOf, SectionsOf
    <3> QED BY <3>1 DEF Numbered
  <2>11. Reads' BY <1>1, <2>2, <2>6 DEF Reads, PositionsOf, SectionsOf
  <2>12. ItemsAreShown' BY <1>1, <2>3, <2>6 DEF ItemsAreShown, SectionsOf
  <2>13. Requests' BY <2>2, <2>6 DEF Requests
  <2>14. Menus'
    <3> SUFFICES ASSUME NEW d \in Calls, d # c
                 PROVE  /\ call[d].pc = "sections" =>
                             call[d].after \subseteq SectionsOf(call[d].business) \cup {i \in Calls : item'[i] # None /\ item'[i].business = call[d].business}
                        /\ call[d].pc = "items" => \A i \in call[d].after \ SectionsOf(call[d].business) :
                             item'[i] # None /\ item'[i].business = call[d].business /\ item'[i].section \in call[d].seen
      BY <1>1, <2>2, <2>6, InvReady DEF Menus, SectionsOf, ItemsOf, Ready, CallState
    <3> QED BY <2>8 DEF Menus, ItemsOf
  <2>15. MenuComplete' BY <1>1, <2>2, <2>6 DEF MenuComplete, SectionsOf
  <2>16. SectionsInOrder' BY <1>1, <2>2, <2>6 DEF SectionsInOrder, SectionsOf
  <2> QED BY <2>7, <2>9, <2>10, <2>11, <2>12, <2>13, <2>14, <2>15, <2>16
<1> QED BY <1>2, <1>3

LEMMA UpdateItemStep == ASSUME IInv, NEW c \in Calls, UpdateItem(c) PROVE IInv'
PROOF
<1> USE DEF IInv
<1> DEFINE me == call[c]
           i == me.target
           row == Patched(item[i], me)
<1>1. Ready(me) /\ me.pc = "update" /\ me.op = "update_item" /\ section' = section
  BY InvReady DEF UpdateItem, At, Ready
<1>2. \/ item' = item /\ (Answer(c, "not_found") \/ Answer(c, "invalid"))
      \/ /\ RowExists(me) /\ row.price >= 0 /\ (row.stock = None \/ row.stock >= 0)
         /\ item' = [item EXCEPT ![i] = row] /\ Answer(c, "done")
  BY DEF UpdateItem
<1>3. CASE item' = item /\ (Answer(c, "not_found") \/ Answer(c, "invalid"))
  BY <1>1, <1>3, AnswerStep
<1>4. CASE /\ RowExists(me) /\ row.price >= 0 /\ (row.stock = None \/ row.stock >= 0)
           /\ item' = [item EXCEPT ![i] = row] /\ Answer(c, "done")
  <2>1. PICK r \in CallState : /\ call' = [call EXCEPT ![c] = r]
                               /\ r.pc = "done" /\ r.op = "update_item" /\ r.after = {}
    BY <1>1, <1>4, AnswerRecord
  <2>2. i \in Calls /\ item[i] # None /\ item[i] \in Item BY <1>4, RowType DEF RowExists, ItemsOf
  <2>3. me.price \in Int \cup {None} /\ me.stock \in Int \cup {None} BY <1>1 DEF Ready, CallState
  <2> DEFINE price == IF me.price = None THEN item[i].price ELSE me.price
             stock == IF me.sets THEN me.stock ELSE item[i].stock
  <2>4. row = [item[i] EXCEPT !.price = price, !.stock = stock] BY DEF Patched
  <2>5. item[i].price \in Nat /\ item[i].stock \in Nat \cup {None} BY <2>2 DEF Item
  <2>6. price \in Int /\ stock \in Int \cup {None} BY <2>3, <2>5
  <2> HIDE DEF price, stock, row
  <2>7. /\ row.price = price /\ row.stock = stock
        /\ row.business = item[i].business /\ row.section = item[i].section
    BY <2>2, <2>4, Zenon DEF Item
  <2>8. price \in Nat /\ stock \in Nat \cup {None} BY <1>4, <2>6, <2>7
  <2>9. row \in Item BY <2>2, <2>4, <2>8, Zenon DEF Item
  <2>10. row # None BY <2>9, NoneIsNoRow
  <2>11. \A d \in Calls : /\ item'[d] = None <=> item[d] = None
                          /\ item[d] # None => /\ item'[d].business = item[d].business
                                               /\ item'[d].section = item[d].section
    BY <1>4, <2>2, <2>7, <2>10 DEF TypeOK
  <2>12. call'[c] = r /\ \A d \in Calls \ {c} : call'[d] = call[d] BY <2>1 DEF TypeOK
  <2>13. TypeOK' BY <1>1, <1>4, <2>1, <2>9 DEF TypeOK
  <2>14. Rows'
    <3>1. \A d \in Calls : section'[d] # None \/ item'[d] # None => call'[d].pc = "done"
      BY <1>1, <2>1, <2>11, <2>12 DEF Rows
    <3>2. \A d \in Calls : section'[d] = None \/ item'[d] = None
      BY <1>1, <2>11 DEF Rows
    <3>3. \A d \in Calls : \A x \in call'[d].after : section'[x] # None \/ item'[x] # None
      <4> SUFFICES ASSUME NEW d \in Calls, NEW x \in call[d].after PROVE section[x] # None \/ item'[x] # None
        BY <1>1, <2>1, <2>12
      <4>1. x \in Calls BY InvReady DEF Ready, CallState
      <4> QED BY <1>1, <2>11, <4>1 DEF Rows
    <3> QED BY <3>1, <3>2, <3>3 DEF Rows
  <2>15. Numbered'
    <3>1. \A x \in Businesses : PositionsOf(x)' = PositionsOf(x) BY <1>1 DEF PositionsOf, SectionsOf
    <3> QED BY <3>1 DEF Numbered
  <2>16. Reads' BY <1>1, <2>1, <2>12 DEF Reads, PositionsOf, SectionsOf
  <2>17. ItemsAreShown' BY <1>1, <2>11 DEF ItemsAreShown, SectionsOf
  <2>18. Requests' BY <2>1, <2>12 DEF Requests
  <2>19. Menus'
    <3> SUFFICES ASSUME NEW d \in Calls, d # c
                 PROVE  /\ call[d].pc = "sections" =>
                             call[d].after \subseteq SectionsOf(call[d].business) \cup {x \in Calls : item'[x] # None /\ item'[x].business = call[d].business}
                        /\ call[d].pc = "items" => \A x \in call[d].after \ SectionsOf(call[d].business) :
                             item'[x] # None /\ item'[x].business = call[d].business /\ item'[x].section \in call[d].seen
      BY <1>1, <2>1, <2>12, InvReady DEF Menus, SectionsOf, ItemsOf, Ready, CallState
    <3> QED BY <2>11 DEF Menus, ItemsOf
  <2>20. MenuComplete' BY <1>1, <2>1, <2>12 DEF MenuComplete, SectionsOf
  <2>21. SectionsInOrder' BY <1>1, <2>1, <2>12 DEF SectionsInOrder, SectionsOf
  <2> QED BY <2>13, <2>14, <2>15, <2>16, <2>17, <2>18, <2>19, <2>20, <2>21
<1> QED BY <1>2, <1>3, <1>4

LEMMA NextInv == IInv /\ [Next]_vars => IInv'
PROOF
<1> SUFFICES ASSUME IInv, [Next]_vars PROVE IInv' OBVIOUS
<1>1. ASSUME NEW c \in Calls, Arrive(c) PROVE IInv' BY <1>1, ArriveStep
<1>2. ASSUME NEW c \in Calls, Advance(c) PROVE IInv'
  BY <1>2, ReadPositionStep, InsertSectionStep, InsertItemStep, UpdateItemStep, ReadSectionsStep, ReadItemsStep
  DEF Advance
<1>3. CASE UNCHANGED vars
  <2>1. section' = section /\ item' = item /\ call' = call BY <1>3 DEF vars
  <2>2. TypeOK' /\ Rows' /\ Reads' /\ Requests'
    BY <2>1 DEF IInv, TypeOK, Rows, Reads, Requests, PositionsOf, SectionsOf
  <2>3. Numbered'
    <3>1. \A x \in Businesses : PositionsOf(x)' = PositionsOf(x) BY <2>1 DEF PositionsOf, SectionsOf
    <3> QED BY <3>1 DEF IInv, Numbered
  <2>4. ItemsAreShown' /\ Menus' /\ SectionsInOrder' /\ MenuComplete'
    BY <2>1 DEF IInv, ItemsAreShown, Menus, SectionsInOrder, MenuComplete, SectionsOf, ItemsOf
  <2> QED BY <2>2, <2>3, <2>4 DEF IInv
<1> QED BY <1>1, <1>2, <1>3 DEF Next, Ended

-----------------------------------------------------------------------------
(* Rows and calls keep their types: no price or stock is ever negative.    *)
THEOREM TypeCorrect == Spec => []TypeOK
PROOF
<1>1. IInv => TypeOK BY DEF IInv
<1> QED BY InitInv, NextInv, <1>1, PTL DEF Spec

(* The sections of a business stay numbered without a gap, however many    *)
(* are created at once.                                                    *)
THEOREM Dense == Spec => []PositionsDense
PROOF
<1>1. IInv => PositionsDense
  <2> SUFFICES ASSUME IInv, NEW b \in Businesses, NEW s \in SectionsOf(b), NEW n \in 0..section[s].position
               PROVE  \E t \in SectionsOf(b) : section[t].position = n
    BY DEF PositionsDense
  <2>1. PICK m \in Nat : PositionsOf(b) = 0..(m - 1) BY DEF IInv, Numbered
  <2>2. section[s].position \in PositionsOf(b) BY DEF PositionsOf
  <2>3. n \in PositionsOf(b) BY <2>1, <2>2
  <2> QED BY <2>3 DEF PositionsOf
<1> QED BY InitInv, NextInv, <1>1, PTL DEF Spec

(* A section is below every section that existed when its call began, and  *)
(* no two sections of a business share a place.                            *)
THEOREM InOrder == Spec => []SectionsInOrder
PROOF
<1>1. IInv => SectionsInOrder BY DEF IInv
<1> QED BY InitInv, NextInv, <1>1, PTL DEF Spec

(* A menu, read in two statements, holds every item that existed when it   *)
(* was asked for.                                                          *)
THEOREM Complete == Spec => []MenuComplete
PROOF
<1>1. IInv => MenuComplete BY DEF IInv
<1> QED BY InitInv, NextInv, <1>1, PTL DEF Spec

(* Whatever patches overlap, each changes the fields it names and leaves   *)
(* the others as it finds them.                                            *)
THEOREM Merge == Spec => PatchesMerge
PROOF
<1> DEFINE Merges ==
      \A i \in Calls : item[i] # None /\ item'[i] # item[i] =>
       \E c \in Calls : /\ call[c].pc = "update" /\ call'[c].pc = "done" /\ call[c].target = i
                        /\ item'[i].price # item[i].price => item'[i].price = call[c].price
                        /\ item'[i].stock # item[i].stock => call[c].sets /\ item'[i].stock = call[c].stock
<1>1. IInv /\ [Next]_vars => [Merges]_vars
  <2> SUFFICES ASSUME IInv, Next, NEW i \in Calls, item[i] # None, item'[i] # item[i]
               PROVE  \E c \in Calls :
                        /\ call[c].pc = "update" /\ call'[c].pc = "done" /\ call[c].target = i
                        /\ item'[i].price # item[i].price => item'[i].price = call[c].price
                        /\ item'[i].stock # item[i].stock => call[c].sets /\ item'[i].stock = call[c].stock
    OBVIOUS
  <2>1. ASSUME NEW c \in Calls, Arrive(c) PROVE item' = item
    <3>1. \A new : Begin(c, new) => item' = item BY DEF Begin
    <3> QED BY <2>1, <3>1, Zenon DEF Arrive
  <2>2. ASSUME NEW c \in Calls, InsertItem(c) PROVE FALSE
    <3>1. item[c] = None BY <2>2 DEF InsertItem, At, IInv, Rows
    <3>2. item'[i] = item[i] BY <2>2, <3>1 DEF InsertItem, IInv, TypeOK
    <3> QED BY <3>2
  <2>3. ASSUME NEW c \in Calls, Advance(c), ~InsertItem(c), ~UpdateItem(c) PROVE item' = item
    BY <2>3 DEF Advance, ReadPosition, InsertSection, ReadSections, ReadItems
  <2>4. PICK c \in Calls : UpdateItem(c)
    BY <2>1, <2>2, <2>3 DEF Next, Ended, vars, Advance
  <2> DEFINE me == call[c]
             price == IF me.price = None THEN item[i].price ELSE me.price
             stock == IF me.sets THEN me.stock ELSE item[i].stock
  <2>5. /\ call[c].pc = "update" /\ Answer(c, "done")
        /\ item' = [item EXCEPT ![me.target] = Patched(item[me.target], me)]
    BY <2>4 DEF UpdateItem, At
  <2>6. me.target = i /\ item'[i] = Patched(item[i], me) BY <2>5 DEF IInv, TypeOK
  <2>7. item[i] \in Item /\ Patched(item[i], me) = [item[i] EXCEPT !.price = price, !.stock = stock]
    BY RowType DEF IInv, Patched
  <2> HIDE DEF price, stock
  <2>8. item'[i].price = price /\ item'[i].stock = stock BY <2>6, <2>7, Zenon DEF Item
  <2>9. call'[c].pc = "done"
    <3>1. PICK r \in CallState : call' = [call EXCEPT ![c] = r] /\ r.pc = "done" BY <2>5, AnswerRecord
    <3> QED BY <3>1 DEF IInv, TypeOK
  <2> QED BY <2>5, <2>6, <2>8, <2>9 DEF price, stock
<1> QED BY InitInv, NextInv, <1>1, PTL DEF Spec, PatchesMerge

===============================================================================
