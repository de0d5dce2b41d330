---------------------------- MODULE Provisioning ----------------------------
(***************************************************************************)
(* How a deployment gets its operator, events and first API keys: runs of  *)
(* `stablerails init` (src/src/cli/commands/init.ts), which talk to the    *)
(* database directly, and the hosted signup of merchants                   *)
(* (src/src/server/routes/hostedSignup.ts), beside events that are created *)
(* through the API.  Each is a sequence of queries without a transaction:  *)
(* runs and requests interleave, queries fail and processes die between    *)
(* any two.                                                                *)
(*                                                                         *)
(* A key is named by who mints it and its scope; whoever sees the output   *)
(* or answer has it, the rows keep hashes only.                            *)
(***************************************************************************)
EXTENDS Integers, FiniteSets, FiniteSetsExt

CONSTANTS
    Inits,          \* runs of `stablerails init`
    Forms,          \* submissions of the store form
    Merchants,      \* Merchant rows
    None,           \* null: the operator's own events
    Unused,         \* no event has the account
    MaxAccount      \* the largest derivationAccount the column takes

ASSUME NamesAssumption ==
    /\ Inits \cap Forms = {}
    /\ {None, Unused} \cap Merchants = {} /\ None # Unused

ASSUME AccountAssumption == MaxAccount \in Nat

VARIABLES
    operators,  \* Operator rows: init's placeholder, and those of operator init
    seedReady,  \* encryptedSeedFromEnv finds a blob
    events,     \* Event rows: the owner of each derivation account
    keys,       \* ApiKey rows
    merchants,  \* Merchant rows that exist
    init,       \* where each run stands
    form,       \* where each submission stands
    \* history
    shown,      \* keys somebody has seen
    overlap,    \* runs that were at work while another was
    raced       \* forms during which some event was created

provisioningVars == <<operators, seedReady, events, keys, merchants,
                      init, form, shown, overlap, raced>>

Accounts == 0 .. MaxAccount

Key == [by : Inits, scope : {"admin", "readonly"}]
          \cup [by : Forms, scope : {"merchant", "readonly"}]

\* ready: its own view of seedReady, until it has looked for an event.
InitRun == [pc : {"idle", "create", "seed", "event", "derive", "keys",
                  "admin", "readonly", "link", "output", "done", "dead"},
            ready : BOOLEAN]

\* account: the one the form computed.  left: keys it has still to insert.
\* failed: an insert failed, though the other may go on.
\* session: the browser the form is in has a session of the merchant.
Form == [pc : {"idle", "session", "allocate", "create", "mint", "done", "refused", "dead"},
         merchant : Merchants, account : 0 .. MaxAccount + 1,
         left : SUBSET {"merchant", "readonly"}, failed : BOOLEAN]

TypeOK ==
    /\ operators \subseteq {"placeholder", "human"}
    /\ seedReady \in BOOLEAN
    /\ events \in [Accounts -> Merchants \cup {None, Unused}]
    /\ keys \subseteq Key /\ shown \subseteq Key
    /\ merchants \subseteq Merchants
    /\ init \in [Inits -> InitRun]
    /\ form \in [Forms -> Form]
    /\ overlap \subseteq Inits /\ raced \subseteq Forms

Init ==
    /\ operators = {} /\ seedReady = FALSE
    /\ events = [a \in Accounts |-> Unused]
    /\ keys = {} /\ merchants = {}
    /\ init = [i \in Inits |-> [pc |-> "idle", ready |-> FALSE]]
    /\ form \in [Forms -> {[pc |-> "idle", merchant |-> m, account |-> 0,
                            left |-> {}, failed |-> FALSE] : m \in Merchants}]
    /\ shown = {} /\ overlap = {} /\ raced = {}

AtWork(i) == init[i].pc \notin {"idle", "done", "dead"}

Goes(i, pc) == init' = [init EXCEPT ![i] = [init[i] EXCEPT !.pc = pc]]

\* A new row, unless its account is taken or too large: then the query throws.
Insertable(a) == a \in Accounts /\ events[a] = Unused

InsertEvent(a, owner) ==
    /\ events' = [events EXCEPT ![a] = owner]
    /\ raced' = raced \cup {f \in Forms : form[f].pc = "create"}

-----------------------------------------------------------------------------
(* stablerails init *)

\* The database answers the ping, and a first operator is looked for.
Start(i) ==
    /\ init[i].pc = "idle"
    /\ Goes(i, IF operators = {} THEN "create" ELSE "seed")
    /\ overlap' = IF \E j \in Inits : AtWork(j)
                    THEN overlap \cup {i} \cup {j \in Inits : AtWork(j)}
                    ELSE overlap
    /\ UNCHANGED <<operators, seedReady, events, keys, merchants, form,
                   shown, raced>>

\* The placeholder's email is unique: a second run that found none dies here.
CreateOperator(i) ==
    /\ init[i].pc = "create"
    /\ IF "placeholder" \in operators
         THEN Goes(i, "dead") /\ UNCHANGED operators
         ELSE Goes(i, "seed") /\ operators' = operators \cup {"placeholder"}
    /\ UNCHANGED <<seedReady, events, keys, merchants, form, shown,
                   overlap, raced>>

\* With a seed, the step is done.  At a terminal the seed is made now, and is
\* usable if the blob went to the configured file; otherwise a human is needed.
SeedStep(i) ==
    /\ init[i].pc = "seed"
    /\ \E written \in BOOLEAN :
          /\ written => ~seedReady
          /\ seedReady' = (seedReady \/ written)
          /\ init' = [init EXCEPT ![i] = [init[i] EXCEPT
                         !.pc = "event", !.ready = seedReady \/ written]]
    /\ UNCHANGED <<operators, events, keys, merchants, form, shown,
                   overlap, raced>>

\* findFirstEvent.  A new one needs the seed, and a terminal and a main wallet:
\* whether both are there is `asked`.
LookForEvent(i) ==
    /\ init[i].pc = "event"
    /\ \E asked \in BOOLEAN :
          init' = [init EXCEPT ![i] =
             [pc    |-> IF /\ \A a \in Accounts : events[a] = Unused
                           /\ init[i].ready /\ asked
                          THEN "derive" ELSE "keys",
              ready |-> FALSE]]
    /\ UNCHANGED <<operators, seedReady, events, keys, merchants, form,
                   shown, overlap, raced>>

\* The xpub is derived behind the passphrase, then the event inserted.
CreateDefaultEvent(i) ==
    /\ init[i].pc = "derive"
    /\ IF Insertable(0)
         THEN InsertEvent(0, None) /\ Goes(i, "keys")
         ELSE Goes(i, "dead") /\ UNCHANGED <<events, raced>>
    /\ UNCHANGED <<operators, seedReady, keys, merchants, form, shown,
                   overlap>>

\* Slip: keys of other minters do not count.
SlipCountKeys(i) ==
    /\ init[i].pc = "keys"
    /\ Goes(i, IF \A k \in keys : k.by # i THEN "admin" ELSE "link")
    /\ UNCHANGED <<operators, seedReady, events, keys, merchants, form,
                   shown, overlap, raced>>

\* countApiKeys: any key, of whatever scope, will do.
CountKeys(i) ==
    /\ init[i].pc = "keys"
    /\ Goes(i, IF keys = {} THEN "admin" ELSE "link")
    /\ UNCHANGED <<operators, seedReady, events, keys, merchants, form,
                   shown, overlap, raced>>

\* The two inserts, one after the other.
MintKey(i) ==
    /\ init[i].pc \in {"admin", "readonly"}
    /\ keys' = keys \cup {[by |-> i, scope |-> init[i].pc]}
    /\ Goes(i, IF init[i].pc = "admin" THEN "readonly" ELSE "link")
    /\ UNCHANGED <<operators, seedReady, events, merchants, form, shown,
                   overlap, raced>>

\* The row of a LoginToken: what becomes of it is told in Access.
MintLoginLink(i) ==
    /\ init[i].pc = "link"
    /\ Goes(i, "output")
    /\ UNCHANGED <<operators, seedReady, events, keys, merchants, form, shown,
                   overlap, raced>>

\* Only now are the raw keys printed.
Output(i) ==
    /\ init[i].pc = "output"
    /\ shown' = shown \cup {k \in keys : k.by = i}
    /\ Goes(i, "done")
    /\ UNCHANGED <<operators, seedReady, events, keys, merchants, form,
                   overlap, raced>>

\* A query throws, a prompt is refused, or the process is killed.
InitDies(i) ==
    /\ AtWork(i)
    /\ Goes(i, "dead")
    /\ UNCHANGED <<operators, seedReady, events, keys, merchants, form,
                   shown, overlap, raced>>

\* operator init: an operator of a human's choice.
OperatorInit ==
    /\ operators' = operators \cup {"human"}
    /\ UNCHANGED <<seedReady, events, keys, merchants, init, form, shown,
                   overlap, raced>>

-----------------------------------------------------------------------------
(* Hosted signup, and events made through the API *)

\* POST /signup: look, hash, insert.  A duplicate, found by either, gets the
\* same answer and leaves the row as it is.
SignUp(m) ==
    /\ merchants' = merchants \cup {m}
    /\ UNCHANGED <<operators, seedReady, events, keys, init, form, shown,
                   overlap, raced>>

Fills(f, row) == form' = [form EXCEPT ![f] = row]

\* POST /m/login, with the right password; whether the merchant is suspended is
\* not asked.
LogIn(f) ==
    /\ form[f].pc = "idle" /\ form[f].merchant \in merchants
    /\ Fills(f, [form[f] EXCEPT !.pc = "session"])
    /\ UNCHANGED <<operators, seedReady, events, keys, merchants, init,
                   shown, overlap, raced>>

\* InMemoryMerchantSessionStore.get deletes a session older than the TTL.
SessionExpires(f) ==
    /\ form[f].pc = "session"
    /\ Fills(f, [form[f] EXCEPT !.pc = "idle"])
    /\ UNCHANGED <<operators, seedReady, events, keys, merchants, init,
                   shown, overlap, raced>>

\* POST /signup/store from a merchant who is logged in, with an xpub and a
\* wallet address that pass.
Submit(f) ==
    /\ form[f].pc = "session"
    /\ Fills(f, [form[f] EXCEPT !.pc = "allocate"])
    /\ UNCHANGED <<operators, seedReady, events, keys, merchants, init,
                   shown, overlap, raced>>

Taken == {a \in Accounts : events[a] # Unused}

\* Slip: the number of events is taken for the next account.
SlipNextAccount == Cardinality(Taken)

\* getNextDerivationAccount: the largest of all events, and one.
NextAccount == IF Taken = {} THEN 0 ELSE Max(Taken) + 1

Allocate(f) ==
    /\ form[f].pc = "allocate"
    /\ Fills(f, [form[f] EXCEPT !.pc = "create", !.account = NextAccount])
    /\ raced' = raced \ {f}
    /\ UNCHANGED <<operators, seedReady, events, keys, merchants, init,
                   shown, overlap>>

\* createEvent: a taken account is P2002, one too large an error of the
\* column's, and both are answered 500.
CreateStore(f) ==
    /\ form[f].pc = "create"
    /\ IF Insertable(form[f].account)
         THEN /\ InsertEvent(form[f].account, form[f].merchant)
              /\ Fills(f, [form[f] EXCEPT !.pc = "mint",
                                          !.left = {"merchant", "readonly"}])
         ELSE /\ Fills(f, [form[f] EXCEPT !.pc = "refused"])
              /\ UNCHANGED <<events, raced>>
    /\ UNCHANGED <<operators, seedReady, keys, merchants, init, shown,
                   overlap>>

\* Promise.all of the two inserts: either order, and either may fail alone.
MintStoreKey(f, scope) ==
    /\ form[f].pc = "mint" /\ scope \in form[f].left
    /\ \E inserted \in BOOLEAN :
          /\ keys' = IF inserted THEN keys \cup {[by |-> f, scope |-> scope]}
                                 ELSE keys
          /\ Fills(f, [form[f] EXCEPT !.left = @ \ {scope},
                                      !.failed = @ \/ ~inserted])
    /\ UNCHANGED <<operators, seedReady, events, merchants, init, shown,
                   overlap, raced>>

\* Slip: the inserts are not awaited.
SlipStoreAnswered(f) ==
    /\ form[f].pc = "mint"
    /\ shown' = shown \cup {[by |-> f, scope |-> s] : s \in {"merchant", "readonly"}}
    /\ Fills(f, [form[f] EXCEPT !.pc = "done"])
    /\ UNCHANGED <<operators, seedReady, events, keys, merchants, init,
                   overlap, raced>>

\* Both keys are shown, or, when one insert failed, neither: a 500.
StoreAnswered(f) ==
    /\ form[f].pc = "mint" /\ form[f].left = {}
    /\ shown' = IF form[f].failed THEN shown
                ELSE shown \cup {k \in keys : k.by = f}
    /\ Fills(f, [form[f] EXCEPT !.pc = "done"])
    /\ UNCHANGED <<operators, seedReady, events, keys, merchants, init,
                   overlap, raced>>

\* A query throws.
FormDies(f) ==
    /\ form[f].pc \in {"allocate", "create", "mint"}
    /\ Fills(f, [form[f] EXCEPT !.pc = "dead"])
    /\ UNCHANGED <<operators, seedReady, events, keys, merchants, init,
                   shown, overlap, raced>>

\* The server restarts: every session and every request is gone.
ServerDies ==
    /\ form' = [f \in Forms |-> [form[f] EXCEPT
          !.pc = CASE @ = "session" -> "idle"
                   [] @ \in {"allocate", "create", "mint"} -> "dead"
                   [] OTHER -> @]]
    /\ UNCHANGED <<operators, seedReady, events, keys, merchants, init,
                   shown, overlap, raced>>

\* POST /v1/events: the caller names the account, an admin key the merchant.
PostEvent(a, owner) ==
    /\ Insertable(a)
    /\ InsertEvent(a, owner)
    /\ UNCHANGED <<operators, seedReady, keys, merchants, init, form,
                   shown, overlap>>

-----------------------------------------------------------------------------

RunInit(i) ==
    \/ Start(i) \/ CreateOperator(i) \/ SeedStep(i) \/ LookForEvent(i)
    \/ CreateDefaultEvent(i) \/ CountKeys(i) \/ MintKey(i) \/ MintLoginLink(i)
    \/ Output(i) \/ InitDies(i)

HandleForm(f) ==
    \/ LogIn(f) \/ SessionExpires(f)
    \/ Submit(f) \/ Allocate(f) \/ CreateStore(f) \/ StoreAnswered(f) \/ FormDies(f)
    \/ \E scope \in {"merchant", "readonly"} : MintStoreKey(f, scope)

Next ==
    \/ \E i \in Inits : RunInit(i)
    \/ OperatorInit
    \/ \E m \in Merchants : SignUp(m)
    \/ ServerDies
    \/ \E f \in Forms : HandleForm(f)
    \/ \E a \in Accounts, owner \in Merchants \cup {None} : PostEvent(a, owner)

Spec == Init /\ [][Next]_provisioningVars

-----------------------------------------------------------------------------
(* Properties *)

\* init is safe to run again: of runs that did not overlap, one mints keys.
InitMintsOnce ==
    \A k, j \in keys : /\ k.by \in Inits \ overlap /\ j.by \in Inits
                       => k.by = j.by

\* Whoever comes through shows all the keys it minted, and what is shown
\* works: a key nobody has seen is one of a run or a form that is at work,
\* died, or had an insert fail, and a key that was shown is there, a store's
\* for an event of the merchant who got it.
KeysReachTheirOwner ==
    /\ \A k \in keys \ shown :
          IF k.by \in Inits THEN AtWork(k.by) \/ init[k.by].pc = "dead"
          ELSE form[k.by].pc \in {"mint", "dead"} \/ form[k.by].failed
    /\ shown \subseteq keys
    /\ \A k \in shown : k.by \in Forms =>
          events[form[k.by].account] = form[k.by].merchant

\* A store form is refused only because another event was created since its
\* account was computed, or because the accounts have come to their end.
RefusedOnlyForARace ==
    \A f \in Forms : form[f].pc = "refused" =>
        f \in raced \/ form[f].account > MaxAccount
=============================================================================
