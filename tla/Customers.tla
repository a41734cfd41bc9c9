------------------------------ MODULE Customers ------------------------------
(***************************************************************************)
(* Customers: their general contact, their stores with a contact each,     *)
(* their addresses, their bank account with its SEPA mandates, and the     *)
(* direct debits that treasury makes from account and mandate.             *)
(*                                                                         *)
(* The data of a contact are kept twice: in the contact and in columns of  *)
(* the customer or store.  Every operation that writes either locks the    *)
(* customer first, so each is one action.  The operations on addresses and *)
(* the changes of a status read without a lock; what they write after a    *)
(* concurrent edit they could also write before it, so they are one action *)
(* as well.                                                                *)
(*                                                                         *)
(* Of a contact there is how to reach it (phone and email) and whether it  *)
(* has anything else that identifies it (a name, a mobile or WhatsApp      *)
(* number).  A command with an old version of the contact is refused and   *)
(* left out.  The account of the customer in the books is opened with the  *)
(* customer, in the open year, and is left to FiscalCycle.                 *)
(***************************************************************************)
EXTENDS Naturals, FiniteSets

CONSTANTS Clients, Stores, Addresses,
          Reaches,     \* values of phone and email
          Ibans,       \* bank accounts
          References,  \* references of mandates, unique among all customers
          Debits,      \* lines of direct debit remittances
          Types,       \* of addresses
          Missing      \* null

ASSUME CustomerAssumption == /\ Clients \cap Stores = {}
                             /\ Missing \notin Clients \cup References

VARIABLES client,   \* customers: status, phone and email, bankIban
          contact,  \* the contact of each customer and of each store
          outlet,   \* stores: status, customer, isPrimary, columns of the contact
          address,  \* addresses: status, customer, type, isPrimary
          mandate,  \* SEPA mandates by reference
          debit     \* lines of remittances: mandate, and the account in the SEPA file

customerVars == <<client, contact, outlet, address, mandate, debit>>
-----------------------------------------------------------------------------
NoData == [named |-> FALSE, reach |-> Missing]
Data == [named : BOOLEAN, reach : Reaches \cup {Missing}]
\* customer_contacts_content_check: something identifies it.
Identity == Data \ {NoData}

NoContact == [status |-> "ABSENT", data |-> NoData]
ActiveContact(d) == [status |-> "ACTIVE", data |-> d]
NoMandate == [status |-> "ABSENT", of |-> Missing, iban |-> Missing]

CustomerInit ==
    /\ client = [c \in Clients |-> [status |-> "ABSENT", reach |-> Missing, iban |-> Missing]]
    /\ contact = [k \in Clients \cup Stores |-> NoContact]
    /\ outlet = [s \in Stores |-> [status |-> "ABSENT", of |-> Missing, primary |-> FALSE,
                                   data |-> NoData]]
    /\ address = [a \in Addresses |-> [status |-> "ABSENT", of |-> Missing, type |-> Missing,
                                       primary |-> FALSE]]
    /\ mandate = [r \in References |-> NoMandate]
    /\ debit = [l \in Debits |-> [status |-> "ABSENT", of |-> Missing, mandate |-> Missing,
                                  iban |-> Missing]]

Other(status) == IF status = "ACTIVE" THEN "INACTIVE" ELSE "ACTIVE"
-----------------------------------------------------------------------------
(* The two copies of a contact.                                            *)

\* syncGeneralContactFromCustomer
SyncGeneral(k, reach) ==
    CASE k.status = "ABSENT" ->
           IF reach = Missing THEN k ELSE ActiveContact([named |-> FALSE, reach |-> reach])
      [] k.status # "ABSENT" /\ reach = Missing /\ ~ k.data.named ->
           [k EXCEPT !.status = "INACTIVE"]
      [] OTHER ->
           [k EXCEPT !.data.reach = reach,
                     !.status = IF reach # Missing THEN "ACTIVE" ELSE @]

\* syncStoreContactFromStore
SyncStore(k, d) ==
    CASE d # NoData -> ActiveContact(d)
      [] d = NoData /\ k.status = "ACTIVE" -> [k EXCEPT !.status = "INACTIVE"]
      [] OTHER -> k

\* What the columns show of a contact.
Shown(k) == IF k.status = "ACTIVE" THEN k.data ELSE NoData

\* syncLegacyProjectionFromContact, with the contact itself.
WriteContact(slot, k) ==
    /\ contact' = [contact EXCEPT ![slot] = k]
    /\ outlet' = [s \in Stores |-> IF s = slot THEN [outlet[s] EXCEPT !.data = Shown(k)]
                                               ELSE outlet[s]]
    /\ client' = [c \in Clients |-> IF c = slot THEN [client[c] EXCEPT !.reach = Shown(k).reach]
                                                ELSE client[c]]
    /\ UNCHANGED <<address, mandate, debit>>

HasSlot(slot) == IF slot \in Stores THEN outlet[slot].status # "ABSENT"
                                   ELSE client[slot].status # "ABSENT"

CreateCustomerContact(slot, d) ==
    /\ HasSlot(slot)
    /\ contact[slot].status = "ABSENT"
    /\ WriteContact(slot, ActiveContact(d))

UpdateCustomerContact(slot, d) ==
    /\ contact[slot].status # "ABSENT"
    /\ WriteContact(slot, [contact[slot] EXCEPT !.data = d])

\* deactivate, reactivate
SwitchCustomerContact(slot) ==
    /\ contact[slot].status # "ABSENT"
    /\ WriteContact(slot, [contact[slot] EXCEPT !.status = Other(@)])
-----------------------------------------------------------------------------
(* Customers with their account and mandate.                               *)

ActiveMandates(c) == {r \in References : mandate[r].of = c /\ mandate[r].status = "ACTIVE"}

\* The account is what the customer has when the mandate is given.
NewMandate(c, iban) == [status |-> "ACTIVE", of |-> c, iban |-> iban]

CreateCustomer(c, reach, iban, r) ==
    /\ client[c].status = "ABSENT"
    /\ r # Missing => mandate[r].status = "ABSENT"
    /\ client' = [client EXCEPT ![c] = [status |-> "ACTIVE", reach |-> reach, iban |-> iban]]
    /\ contact' = [contact EXCEPT ![c] = SyncGeneral(@, reach)]
    /\ mandate' = [x \in References |-> IF x = r THEN NewMandate(c, iban) ELSE mandate[x]]
    /\ UNCHANGED <<outlet, address, debit>>

\* Another date under the same reference is refused: the reference is unique.
SepaMandateChanged(c, r) == ActiveMandates(c) # {r} \ {Missing}

\* A mutant: a new account leaves the mandate as it is.
ReplacesMandate_SameMandate(c, iban, r) == SepaMandateChanged(c, r)
ReplacesMandate(c, iban, r) == client[c].iban # iban \/ SepaMandateChanged(c, r)

\* The command repeats phone and email as they are, or it is refused.
UpdateCustomer(c, iban, r) ==
    /\ client[c].status # "ABSENT"
    /\ ReplacesMandate(c, iban, r) /\ r # Missing => mandate[r].status = "ABSENT"
    /\ client' = [client EXCEPT ![c].iban = iban]
    /\ contact' = [contact EXCEPT ![c] = SyncGeneral(@, client[c].reach)]
    /\ mandate' =
         IF ~ ReplacesMandate(c, iban, r) THEN mandate
         ELSE [x \in References |->
                 CASE x \in ActiveMandates(c) ->
                        [mandate[x] EXCEPT !.status = IF client[c].iban # iban
                                                      THEN "INVALIDATED" ELSE "REVOKED"]
                   [] x = r -> NewMandate(c, iban)
                   [] OTHER -> mandate[x]]
    /\ UNCHANGED <<outlet, address, debit>>

UpdateCustomerStatus(c) ==
    /\ client[c].status # "ABSENT"
    /\ client' = [client EXCEPT ![c].status = Other(@)]
    /\ UNCHANGED <<contact, outlet, address, mandate, debit>>
-----------------------------------------------------------------------------
(* Stores.                                                                 *)

\* Every store of the customer but s loses isPrimary if s gets it.
WriteStore(s, c, primary, status, d) ==
    /\ outlet' = [x \in Stores |->
                    CASE x = s -> [status |-> status, of |-> c, primary |-> primary, data |-> d]
                      [] x # s /\ outlet[x].of = c /\ primary ->
                           [outlet[x] EXCEPT !.primary = FALSE]
                      [] OTHER -> outlet[x]]
    /\ contact' = [contact EXCEPT ![s] = SyncStore(@, d)]
    /\ UNCHANGED <<client, address, mandate, debit>>

CreateCustomerStore(s, c, primary, d) ==
    /\ client[c].status # "ABSENT"
    /\ outlet[s].status = "ABSENT"
    /\ WriteStore(s, c, primary, "ACTIVE", d)

\* The command repeats the columns of the contact as they are.
UpdateCustomerStore(s, primary) ==
    /\ outlet[s].status # "ABSENT"
    /\ WriteStore(s, outlet[s].of, primary, outlet[s].status, outlet[s].data)

UpdateCustomerStoreStatus(s) ==
    /\ outlet[s].status # "ABSENT"
    /\ outlet' = [outlet EXCEPT ![s].status = Other(@)]
    /\ UNCHANGED <<client, contact, address, mandate, debit>>
-----------------------------------------------------------------------------
(* Addresses: one active primary address of each type.                     *)

\* clearPrimaryAddress, and the address itself.
WriteAddress(a, row, clears) ==
    /\ address' = [x \in Addresses |->
                     CASE x = a -> row
                       [] x # a /\ clears /\ address[x].of = row.of /\ address[x].type = row.type
                            /\ address[x].status = "ACTIVE" ->
                            [address[x] EXCEPT !.primary = FALSE]
                       [] OTHER -> address[x]]
    /\ UNCHANGED <<client, contact, outlet, mandate, debit>>

CreateCustomerAddress(a, c, type, primary) ==
    /\ client[c].status # "ABSENT"
    /\ address[a].status = "ABSENT"
    /\ WriteAddress(a, [status |-> "ACTIVE", of |-> c, type |-> type, primary |-> primary],
                    primary)

\* An inactive address that becomes primary clears the active one as well.
UpdateCustomerAddress(a, type, primary) ==
    /\ address[a].status # "ABSENT"
    /\ WriteAddress(a, [address[a] EXCEPT !.type = type, !.primary = primary], primary)

UpdateCustomerAddressStatus(a) ==
    /\ address[a].status # "ABSENT"
    /\ IF address[a].status = "ACTIVE"
       THEN WriteAddress(a, [address[a] EXCEPT !.status = "INACTIVE", !.primary = FALSE], FALSE)
       ELSE WriteAddress(a, [address[a] EXCEPT !.status = "ACTIVE"], address[a].primary)
-----------------------------------------------------------------------------
(* Direct debits.                                                          *)

WriteDebit(l, row) ==
    /\ debit' = [debit EXCEPT ![l] = row]
    /\ UNCHANGED <<client, contact, outlet, address, mandate>>

\* createCustomerRemittanceDraft: notEligible refuses the others.
DraftDebit(l, c) ==
    /\ debit[l].status = "ABSENT"
    /\ client[c].status = "ACTIVE"
    /\ client[c].iban # Missing
    /\ \E r \in ActiveMandates(c) :
         WriteDebit(l, [status |-> "DRAFT", of |-> c, mandate |-> r, iban |-> Missing])

\* generateCustomerRemittanceSepa: the mandate of the draft, the account of now.
GenerateDebit(l) ==
    /\ debit[l].status = "DRAFT"
    /\ client[debit[l].of].iban # Missing
    /\ WriteDebit(l, [debit[l] EXCEPT !.status = "GENERATED", !.iban = client[debit[l].of].iban])

CancelDebit(l) ==
    /\ debit[l].status = "DRAFT"
    /\ WriteDebit(l, [debit[l] EXCEPT !.status = "CANCELLED"])
-----------------------------------------------------------------------------
Nullable(S) == S \cup {Missing}

CustomerNext ==
    \/ \E c \in Clients, reach \in Nullable(Reaches), iban \in Nullable(Ibans),
          r \in Nullable(References) :
         CreateCustomer(c, reach, iban, r)
    \/ \E c \in Clients, iban \in Nullable(Ibans), r \in Nullable(References) :
         UpdateCustomer(c, iban, r)
    \/ \E c \in Clients : UpdateCustomerStatus(c)
    \/ \E k \in Clients \cup Stores, d \in Identity :
         CreateCustomerContact(k, d) \/ UpdateCustomerContact(k, d)
    \/ \E k \in Clients \cup Stores : SwitchCustomerContact(k)
    \/ \E s \in Stores, c \in Clients, primary \in BOOLEAN, d \in Data :
         CreateCustomerStore(s, c, primary, d)
    \/ \E s \in Stores, primary \in BOOLEAN : UpdateCustomerStore(s, primary)
    \/ \E s \in Stores : UpdateCustomerStoreStatus(s)
    \/ \E a \in Addresses, c \in Clients, type \in Types, primary \in BOOLEAN :
         CreateCustomerAddress(a, c, type, primary)
    \/ \E a \in Addresses, type \in Types, primary \in BOOLEAN :
         UpdateCustomerAddress(a, type, primary)
    \/ \E a \in Addresses : UpdateCustomerAddressStatus(a)
    \/ \E l \in Debits, c \in Clients : DraftDebit(l, c)
    \/ \E l \in Debits : GenerateDebit(l) \/ CancelDebit(l)

CustomerSpec == CustomerInit /\ [][CustomerNext]_customerVars
-----------------------------------------------------------------------------
(* Properties.                                                             *)

ContactsShown ==
    /\ \A c \in Clients : client[c].reach = Shown(contact[c]).reach
    /\ \A s \in Stores : outlet[s].data = Shown(contact[s])

AccountOfTheMandate ==
    \A c \in Clients :
        /\ Cardinality(ActiveMandates(c)) <= 1
        /\ \A r \in ActiveMandates(c) : mandate[r].iban = client[c].iban

OnePrimary ==
    \A c \in Clients :
        /\ Cardinality({s \in Stores : outlet[s].of = c /\ outlet[s].primary}) <= 1
        /\ \A type \in Types :
             Cardinality({a \in Addresses : /\ address[a].of = c
                                            /\ address[a].type = type
                                            /\ address[a].status = "ACTIVE"
                                            /\ address[a].primary}) <= 1

\* What is kept of a customer in two places agrees whatever is edited where:
\* the columns of customers and stores show what the active contact says and
\* nothing of an inactive one, the active mandate was given for the account the
\* customer has, and one active address of each type and one store are primary.
CustomersConsistent == ContactsShown /\ AccountOfTheMandate /\ OnePrimary

\* What the documentation says of direct debits and the code does not keep: a
\* new account invalidates the mandate, so a SEPA file debits an account only
\* under the mandate that was given for it.
MandateOfTheAccount ==
    \A l \in Debits :
        debit[l].status = "GENERATED" => mandate[debit[l].mandate].iban = debit[l].iban
=============================================================================
