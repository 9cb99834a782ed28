----------------------------- MODULE Customers ------------------------------
(***************************************************************************)
(* The customers of one merchant and their saved payment methods           *)
(* (apps/customer).  Deleting a customer sets a flag; the manager hides    *)
(* the flagged rows from every query, but not from the unique constraint   *)
(* on the merchant and the address.  No row is locked: a call is the       *)
(* sequence of its statements.                                             *)
(***************************************************************************)
EXTENDS Integers, Sequences, FiniteSets

CONSTANTS CustomerCalls,   \* the requests under way
          Mailboxes,       \* the addresses, case aside
          MaxCustomers, MaxMethods   \* rows that are made

ASSUME CustomersAssumption == MaxCustomers \in Nat /\ MaxMethods \in Nat

VARIABLES customer,   \* the CustomerProfile rows
          method,     \* the SavedPaymentMethod rows
          cust,       \* cust[c]: where call c is
          readdressed,  \* history: an update has set an address
          tangled     \* history: two calls have been under way at a time, or
                      \* one has died

customerVars == <<customer, method, cust, readdressed, tangled>>

\* An address is stored in lower case, or as an update has it.
Emails == [mailbox : Mailboxes, lower : BOOLEAN]
CustomerRow == [email : Emails, name : {"first", "changed"}, deleted : BOOLEAN]
PaymentMethodRow == [customer : 1 .. MaxCustomers, default : BOOLEAN]

NoCall == [step |-> "idle"]

CustomerInit ==
    /\ customer = <<>> /\ method = <<>>
    /\ cust = [c \in CustomerCalls |-> NoCall]
    /\ readdressed = FALSE /\ tangled = FALSE

-----------------------------------------------------------------------------
Starts(c, next) ==
    /\ cust[c] = NoCall
    /\ cust' = [cust EXCEPT ![c] = next]
    /\ tangled' = (tangled \/ \E d \in CustomerCalls : cust[d] # NoCall)

GoesOn(c, from, next) ==
    /\ cust[c].step = from
    /\ cust' = [cust EXCEPT ![c] = next]
    /\ UNCHANGED tangled

Visible == {i \in DOMAIN customer : ~customer[i].deleted}

\* get_by_email: one row is found, or none, or the query raises.
HasMailbox(i, mailbox) == customer[i].email.mailbox = mailbox

Known(mailbox) == {i \in Visible : HasMailbox(i, mailbox)}

\* Variant: the constraint passes over deleted rows.
UniqueAlive(email, i) == \A j \in Visible \ {i} : customer[j].email # email

\* The unique constraint: no other row has the address, deleted or not.
Unique(email, i) == \A j \in DOMAIN customer \ {i} : customer[j].email # email

-----------------------------------------------------------------------------
(* create_customer, update_customer and delete_customer.                    *)

\* CUSTOMER_EXISTS, unless nobody is known.
CreateCustomer(c, mailbox) ==
    /\ Starts(c, IF Known(mailbox) = {} THEN [step |-> "insert", mailbox |-> mailbox] ELSE NoCall)
    /\ UNCHANGED <<customer, method, readdressed>>

\* The constraint refuses the address of a customer who has been deleted, now
\* and for ever.
InsertCustomer(c) ==
    /\ GoesOn(c, "insert", NoCall)
    /\ LET email == [mailbox |-> cust[c].mailbox, lower |-> TRUE]
       IN customer' = IF Unique(email, 0) /\ Len(customer) < MaxCustomers
                      THEN Append(customer, [email |-> email, name |-> "first", deleted |-> FALSE])
                      ELSE customer
    /\ UNCHANGED <<method, readdressed>>

ReadCustomer(c, i) ==
    /\ i \in Visible
    /\ Starts(c, [step |-> "update", id |-> i, row |-> customer[i]])
    /\ UNCHANGED <<customer, method, readdressed>>

\* update_customer saves every column of the row that was read, the flag too.
UpdateName(c) ==
    /\ GoesOn(c, "update", NoCall)
    /\ customer' = [customer EXCEPT ![cust[c].id] = [cust[c].row EXCEPT !.name = "changed"]]
    /\ UNCHANGED <<method, readdressed>>

\* An address is taken as it comes.
UpdateEmail(c, email) ==
    /\ GoesOn(c, "update", NoCall)
    /\ IF Unique(email, cust[c].id)
       THEN /\ customer' = [customer EXCEPT ![cust[c].id] = [cust[c].row EXCEPT !.email = email]]
            /\ readdressed' = TRUE
       ELSE UNCHANGED <<customer, readdressed>>
    /\ UNCHANGED method

ReadToDelete(c, i) ==
    /\ i \in Visible
    /\ Starts(c, [step |-> "delete", id |-> i])
    /\ UNCHANGED <<customer, method, readdressed>>

\* save(update_fields=["is_deleted", "deleted_at"]).
DeleteCustomer(c) ==
    /\ GoesOn(c, "delete", NoCall)
    /\ customer' = [customer EXCEPT ![cust[c].id].deleted = TRUE]
    /\ UNCHANGED <<method, readdressed>>

-----------------------------------------------------------------------------
(* add_mock_payment_method.                                                 *)
AddMethod(c, i, default) ==
    /\ i \in Visible
    /\ Starts(c, [step |-> IF default THEN "clear" ELSE "add", id |-> i, default |-> default])
    /\ UNCHANGED <<customer, method, readdressed>>

\* Variant: the methods of the customer stay as they are.
ClearNoDefault(c) ==
    /\ GoesOn(c, "clear", [cust[c] EXCEPT !.step = "add"])
    /\ UNCHANGED <<customer, method, readdressed>>

\* One UPDATE of all the methods of the customer,
ClearDefault(c) ==
    /\ GoesOn(c, "clear", [cust[c] EXCEPT !.step = "add"])
    /\ method' = [m \in DOMAIN method |-> IF method[m].customer = cust[c].id
                                          THEN [method[m] EXCEPT !.default = FALSE] ELSE method[m]]
    /\ UNCHANGED <<customer, readdressed>>

\* and the INSERT.
InsertMethod(c) ==
    /\ Len(method) < MaxMethods
    /\ GoesOn(c, "add", NoCall)
    /\ method' = Append(method, [customer |-> cust[c].id, default |-> cust[c].default])
    /\ UNCHANGED <<customer, readdressed>>

\* The worker dies.
CallDies(c) ==
    /\ cust[c] # NoCall
    /\ cust' = [cust EXCEPT ![c] = NoCall]
    /\ tangled' = TRUE
    /\ UNCHANGED <<customer, method, readdressed>>

-----------------------------------------------------------------------------
CustomerNext ==
    \E c \in CustomerCalls :
       \/ \E mailbox \in Mailboxes : CreateCustomer(c, mailbox)
       \/ \E i \in DOMAIN customer :
             \/ ReadCustomer(c, i) \/ ReadToDelete(c, i)
             \/ \E default \in BOOLEAN : AddMethod(c, i, default)
       \/ \E email \in Emails : UpdateEmail(c, email)
       \/ InsertCustomer(c) \/ UpdateName(c) \/ DeleteCustomer(c)
       \/ ClearDefault(c) \/ InsertMethod(c) \/ CallDies(c)

CustomerSpec == CustomerInit /\ [][CustomerNext]_customerVars

-----------------------------------------------------------------------------
(* Properties.                                                              *)

\* Every variable has its type.
CustomerTypeOK ==
    /\ customer \in Seq(CustomerRow) /\ Len(customer) <= MaxCustomers
    /\ method \in Seq(PaymentMethodRow)
    /\ \A c \in CustomerCalls : cust[c].step \in {"idle", "insert", "update", "delete", "clear", "add"}
    /\ readdressed \in BOOLEAN /\ tangled \in BOOLEAN

Methods(i) == {m \in DOMAIN method : method[m].customer = i}
Defaults(i) == {m \in Methods(i) : method[m].default}

\* Until an update sets an address, no two customers have the same one, however
\* their creations overlap; and as long as calls neither overlap nor die, a
\* customer has at most one default method, which is the newest that was to be
\* one.
CustomersAreDistinct ==
    /\ ~readdressed => \A i, j \in DOMAIN customer :
                          customer[i].email.mailbox = customer[j].email.mailbox => i = j
    /\ ~tangled => \A i \in DOMAIN customer : Cardinality(Defaults(i)) <= 1

\* In every step: as long as calls neither overlap nor die, a deleted customer
\* stays deleted, a change of one stays, and who has a default method keeps
\* one, between calls.
CustomersAreKept ==
    ~tangled' =>
        \A i \in DOMAIN customer :
            /\ customer[i].deleted => customer'[i].deleted
            /\ customer[i].name = "changed" => customer'[i].name = "changed"
            /\ Defaults(i) # {} =>
                  \/ Defaults(i)' # {}
                  \/ \E c \in CustomerCalls : cust'[c].step = "add" /\ cust'[c].id = i
=============================================================================
