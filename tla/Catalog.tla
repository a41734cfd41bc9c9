------------------------------- MODULE Catalog -------------------------------
(***************************************************************************)
(* The catalog: tax rates of which one is the default, categories, items   *)
(* and the stock of the products among them.                               *)
(*                                                                         *)
(* The changes of a tax rate read it in one step, without a lock, and      *)
(* write in another.  A stock movement locks the item, reads the stock and *)
(* writes the movement and the item.  Editing an item locks nothing before *)
(* its update, which writes the stock of the form whatever it was.         *)
(***************************************************************************)
EXTENDS Integers, Sequences

CONSTANTS Rates,        \* tax rates
          Seeded,       \* the one that is created as the default
          Groups,       \* categories
          Items,
          Clerks,       \* requests that may be between two steps
          Changes,      \* quantities of the adjustments
          Counts,       \* stocks that a form may hold
          MaxChanges    \* changes of the stock of an item that are followed

ASSUME CatalogAssumption ==
    /\ Seeded \in Rates
    /\ Changes \subseteq Int \ {0}
    /\ Counts \subseteq Int

VARIABLES taxRate, \* tax rates: status, isDefault
          group,   \* categories: their status
          item,    \* items: status, stockTracked, stockCurrent
          kardex,  \* what changed the stock of each item: movements and edits
          clerk    \* what each request has read

catalogVars == <<taxRate, group, item, kardex, clerk>>
-----------------------------------------------------------------------------
Waiting == [op |-> "NONE"]

\* seedDefaultCatalogTaxRates
CatalogInit ==
    /\ taxRate = [r \in Rates |-> IF r = Seeded THEN [status |-> "ACTIVE", default |-> TRUE]
                                             ELSE [status |-> "ABSENT", default |-> FALSE]]
    /\ group = [g \in Groups |-> "ABSENT"]
    /\ item = [i \in Items |-> [status |-> "ABSENT", tracked |-> FALSE, stock |-> 0]]
    /\ kardex = [i \in Items |-> <<>>]
    /\ clerk = [q \in Clerks |-> Waiting]

Opposite(status) == IF status = "ACTIVE" THEN "INACTIVE" ELSE "ACTIVE"
-----------------------------------------------------------------------------
(* Tax rates.                                                              *)

\* The others are cleared first; a unique index allows one.
MakeDefault(r) == [x \in Rates |-> [taxRate[x] EXCEPT !.default = (x = r)]]

CreateCatalogTaxRate(r, default) ==
    /\ taxRate[r].status = "ABSENT"
    /\ taxRate' = [IF default THEN MakeDefault(r) ELSE taxRate EXCEPT ![r].status = "ACTIVE"]
    /\ UNCHANGED <<group, item, kardex, clerk>>

\* updateCatalogTaxRateStatus: what is read ...
ReadTaxRate(q, r, op) ==
    /\ clerk[q] = Waiting
    /\ CASE op = "setDefault" -> taxRate[r].status = "ACTIVE"
         [] op = "deactivate" -> taxRate[r].status = "ACTIVE" /\ ~ taxRate[r].default
         [] op = "reactivate" -> taxRate[r].status = "INACTIVE"
    /\ clerk' = [clerk EXCEPT ![q] = [op |-> op, taxRate |-> r]]
    /\ UNCHANGED <<taxRate, group, item, kardex>>

\* ... and what is written.
WriteTaxRate(q) ==
    /\ \E r \in Rates :
         \/ /\ clerk[q] = [op |-> "setDefault", taxRate |-> r]
            /\ taxRate' = MakeDefault(r)
         \/ /\ clerk[q] = [op |-> "deactivate", taxRate |-> r]
            /\ taxRate' = [taxRate EXCEPT ![r].status = "INACTIVE"]
         \/ /\ clerk[q] = [op |-> "reactivate", taxRate |-> r]
            /\ taxRate' = [taxRate EXCEPT ![r].status = "ACTIVE"]
    /\ clerk' = [clerk EXCEPT ![q] = Waiting]
    /\ UNCHANGED <<group, item, kardex>>
-----------------------------------------------------------------------------
(* Categories.                                                             *)

CreateCatalogCategory(g) ==
    /\ group[g] = "ABSENT"
    /\ group' = [group EXCEPT ![g] = "ACTIVE"]
    /\ UNCHANGED <<taxRate, item, kardex, clerk>>

UpdateCatalogCategoryStatus(g) ==
    /\ group[g] # "ABSENT"
    /\ group' = [group EXCEPT ![g] = Opposite(@)]
    /\ UNCHANGED <<taxRate, item, kardex, clerk>>
-----------------------------------------------------------------------------
(* Items and their stock.                                                  *)

\* A mutant: the item is read without FOR UPDATE.
ItemUnlocked_Ignored(i) == TRUE
ItemUnlocked(i) == \A q \in Clerks : clerk[q].op = "adjust" => clerk[q].item # i

\* The rate of an item, and its category if it has one, are active when it is
\* written; normalizeCatalogItemCommand keeps no stock of what is not tracked.
Listed(r, g) ==
    /\ taxRate[r].status = "ACTIVE"
    /\ g \in Groups => group[g] = "ACTIVE"
Counted(tracked, stock) == IF tracked THEN stock ELSE 0

Enter(i, by, from, to) == [kardex EXCEPT ![i] = Append(@, [by |-> by, from |-> from, to |-> to])]

CreateCatalogItem(i, tracked, stock) ==
    /\ item[i].status = "ABSENT"
    /\ item' = [item EXCEPT ![i] = [status |-> "ACTIVE", tracked |-> tracked,
                                    stock |-> Counted(tracked, stock)]]
    /\ kardex' = Enter(i, "EDIT", 0, Counted(tracked, stock))
    /\ UNCHANGED <<taxRate, group, clerk>>

UpdateCatalogItem(i, tracked, stock) ==
    /\ item[i].status # "ABSENT"
    /\ ItemUnlocked(i)
    /\ item' = [item EXCEPT ![i].tracked = tracked, ![i].stock = Counted(tracked, stock)]
    /\ kardex' = Enter(i, "EDIT", item[i].stock, Counted(tracked, stock))
    /\ UNCHANGED <<taxRate, group, clerk>>

UpdateCatalogItemStatus(i) ==
    /\ item[i].status # "ABSENT"
    /\ ItemUnlocked(i)
    /\ item' = [item EXCEPT ![i].status = Opposite(@)]
    /\ UNCHANGED <<taxRate, group, kardex, clerk>>

\* createCatalogStockAdjustment, and the movements of a purchase: the item is
\* locked and read ...
LockCatalogStockItem(q, i) ==
    /\ clerk[q] = Waiting
    /\ item[i].status # "ABSENT"
    /\ item[i].tracked
    /\ ItemUnlocked(i)
    /\ clerk' = [clerk EXCEPT ![q] = [op |-> "adjust", item |-> i, stock |-> item[i].stock]]
    /\ UNCHANGED <<taxRate, group, item, kardex>>

\* ... and the movement and the new stock are written.
MoveStock(q, quantity) ==
    /\ clerk[q].op = "adjust"
    /\ LET i == clerk[q].item
           new == clerk[q].stock + quantity
       IN  /\ item' = [item EXCEPT ![i].stock = new]
           /\ kardex' = Enter(i, "MOVEMENT", clerk[q].stock, new)
    /\ clerk' = [clerk EXCEPT ![q] = Waiting]
    /\ UNCHANGED <<taxRate, group>>
-----------------------------------------------------------------------------
CatalogNext ==
    \/ \E r \in Rates, default \in BOOLEAN : CreateCatalogTaxRate(r, default)
    \/ \E q \in Clerks, r \in Rates, op \in {"setDefault", "deactivate", "reactivate"} :
         ReadTaxRate(q, r, op)
    \/ \E q \in Clerks : WriteTaxRate(q)
    \/ \E g \in Groups : CreateCatalogCategory(g) \/ UpdateCatalogCategoryStatus(g)
    \/ \E i \in Items, r \in Rates, g \in Groups \cup {"NONE"}, tracked \in BOOLEAN,
          stock \in Counts :
         /\ Len(kardex[i]) < MaxChanges
         /\ Listed(r, g)
         /\ CreateCatalogItem(i, tracked, stock) \/ UpdateCatalogItem(i, tracked, stock)
    \/ \E i \in Items : UpdateCatalogItemStatus(i)
    \/ \E q \in Clerks, i \in Items :
         Len(kardex[i]) < MaxChanges /\ LockCatalogStockItem(q, i)
    \/ \E q \in Clerks, quantity \in Changes : MoveStock(q, quantity)

CatalogSpec == CatalogInit /\ [][CatalogNext]_catalogVars
-----------------------------------------------------------------------------
(* Properties.                                                             *)

OneDefault == \E r \in Rates : \A x \in Rates : taxRate[x].default <=> x = r

\* Every change of the stock begins where the one before it ended, and the item
\* has what the last one left.
StockFollows ==
    \A i \in Items :
        /\ \A n \in 2..Len(kardex[i]) : kardex[i][n].from = kardex[i][n - 1].to
        /\ kardex[i] # <<>> => item[i].stock = kardex[i][Len(kardex[i])].to

\* Whoever moves the stock, edits the item or picks the default tax rate at the
\* same time, no movement starts from a stock that is no longer true and one
\* rate is the default.
CatalogConsistent == OneDefault /\ StockFollows
=============================================================================
