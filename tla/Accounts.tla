------------------------------ MODULE Accounts ------------------------------
(***************************************************************************)
(* The users table as AuthService.register and walletLogin fill it.        *)
(*                                                                         *)
(* Both look for an existing row, await, and insert; nothing but the       *)
(* UNIQUE constraints of the table stands between two of them.  The        *)
(* register route lowers the case of an email but not of a wallet address, *)
(* while every lookup by wallet lowers it, so a wallet is written either   *)
(* as <<w, "lower">> or as <<w, "mixed">>.                                 *)
(***************************************************************************)
EXTENDS Naturals, FiniteSets

CONSTANTS Emails,   \* addresses people register with (lowered by the route)
          Wallets,  \* wallets, whatever the case they are written in
          Calls     \* concurrent register and walletLogin calls

Lower(w) == <<w, "lower">>
Mixed(w) == <<w, "mixed">>
NoWallet == <<>>
\* walletLogin invents the address <wallet>@wallet.onekey.
TempEmail(w) == <<"wallet", w>>
Addresses == Emails \cup {TempEmail(w) : w \in Wallets}
Written == {NoWallet} \cup {Lower(w) : w \in Wallets} \cup {Mixed(w) : w \in Wallets}
Rows == [email : Addresses, wallet : Written]

VARIABLES
    users,    \* rows of the users table
    pc,       \* the next await of a call
    kind,     \* "register" or "wallet"
    form,     \* the row the call would insert
    account   \* the rows a finished call's tokens are for: one, or none yet

accountVars == <<users, pc, kind, form, account>>

AccountsInit ==
    /\ users = {}
    /\ pc = [c \in Calls |-> "idle"]
    /\ kind = [c \in Calls |-> "register"]
    /\ form \in [Calls -> {[email |-> TempEmail(w), wallet |-> NoWallet] : w \in Wallets}]
    /\ account = [c \in Calls |-> {}]

WithEmail(e) == {r \in users : r.email = e}
\* findUserByWalletAddress: WHERE wallet_address = the address in lower case.
WithWallet(w) == {r \in users : w # NoWallet /\ r.wallet = Lower(w[1])}

Goto(c, label) == pc' = [pc EXCEPT ![c] = label]
Fail(c) == Goto(c, "failed") /\ UNCHANGED <<users, kind, form, account>>
\* Tokens are generated for row r.
Finish(c, r) == Goto(c, "done") /\ account' = [account EXCEPT ![c] = {r}]

-----------------------------------------------------------------------------
(* register *)

Register(c, e, w) ==
    /\ pc[c] = "idle"
    /\ form' = [form EXCEPT ![c] = [email |-> e, wallet |-> w]]
    /\ kind' = [kind EXCEPT ![c] = "register"]
    /\ Goto(c, "email")
    /\ UNCHANGED <<users, account>>

\* findUserByEmail: a row refuses the call; no row, and a database error
\* which the lookup swallows, let it go on.
CheckEmail(c, error) ==
    /\ pc[c] = "email"
    /\ IF ~error /\ WithEmail(form[c].email) # {}
       THEN Fail(c)
       ELSE /\ Goto(c, IF form[c].wallet = NoWallet THEN "insert" ELSE "wallet")
            /\ UNCHANGED <<users, kind, form, account>>

\* The same for findUserByWalletAddress, when an address is given.
CheckWallet(c, error) ==
    /\ pc[c] = "wallet"
    /\ IF ~error /\ WithWallet(form[c].wallet) # {}
       THEN Fail(c)
       ELSE Goto(c, "insert") /\ UNCHANGED <<users, kind, form, account>>

Unique_EmailOnly(row) == \A r \in users : r.email # row.email
\* The UNIQUE constraints on email and on wallet_address.
Unique(row) ==
    \A r \in users : /\ r.email # row.email
                     /\ row.wallet = NoWallet \/ r.wallet # row.wallet

\* After bcrypt.hash: the row is inserted, and its tokens are generated once
\* the database has replied; a reply that is lost is REGISTRATION_FAILED for
\* an account that is there.
Insert(c, replied) ==
    /\ pc[c] = "insert"
    /\ Unique(form[c])
    /\ users' = users \cup {form[c]}
    /\ IF replied THEN Finish(c, form[c]) ELSE Goto(c, "failed") /\ UNCHANGED account
    /\ UNCHANGED <<kind, form>>

\* The hash fails, or the database refuses the row (REGISTRATION_FAILED).
InsertFails(c) == pc[c] = "insert" /\ Fail(c)

-----------------------------------------------------------------------------
(* walletLogin *)

WalletLogin(c, w) ==
    /\ pc[c] = "idle"
    /\ form' = [form EXCEPT ![c] = [email |-> TempEmail(w), wallet |-> Lower(w)]]
    /\ kind' = [kind EXCEPT ![c] = "wallet"]
    /\ Goto(c, "lookup")
    /\ UNCHANGED <<users, account>>

\* A row found is logged in to; otherwise, and after a swallowed database
\* error, the wallet is registered.
WalletLookup(c, error) ==
    /\ pc[c] = "lookup"
    /\ IF ~error /\ WithWallet(form[c].wallet) # {}
       THEN /\ \E r \in WithWallet(form[c].wallet) : Finish(c, r)
            /\ UNCHANGED <<users, kind, form>>
       ELSE Goto(c, "email") /\ UNCHANGED <<users, kind, form, account>>

AccountsNext ==
    \/ \E c \in Calls, e \in Emails, w \in Written : Register(c, e, w)
    \/ \E c \in Calls, w \in Wallets : WalletLogin(c, w)
    \/ \E c \in Calls, error \in BOOLEAN :
          CheckEmail(c, error) \/ CheckWallet(c, error) \/ WalletLookup(c, error)
    \/ \E c \in Calls, replied \in BOOLEAN : Insert(c, replied)
    \/ \E c \in Calls : InsertFails(c)

AccountsSpec == AccountsInit /\ [][AccountsNext]_accountVars

-----------------------------------------------------------------------------
(* Properties *)

AccountsTypeOK ==
    /\ users \subseteq Rows
    /\ pc \in [Calls -> {"idle", "email", "wallet", "insert", "lookup", "done", "failed"}]
    /\ kind \in [Calls -> {"register", "wallet"}]
    /\ form \in [Calls -> Rows]
    /\ account \in [Calls -> SUBSET Rows]

\* Wallet logins of one wallet, raced with each other and with registrations
\* that name the wallet, all end in the same account, also when a lookup was
\* answered `not found` by mistake or an insert that took place was not
\* answered at all.
WalletLoginStable ==
    \A c, d \in Calls :
        /\ pc[c] = "done" /\ kind[c] = "wallet"
        /\ pc[d] = "done" /\ kind[d] = "wallet"
        /\ form[c].wallet = form[d].wallet
        => account[c] = account[d]

\* src/src/services/auth/authService.ts:32 ("Check if wallet address is
\* already in use"): a wallet belongs to one account.
OneAccountPerWallet ==
    \A r, s \in users :
        r.wallet # NoWallet /\ s.wallet # NoWallet /\ r.wallet[1] = s.wallet[1] => r = s
=============================================================================
