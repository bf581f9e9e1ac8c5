------------------------------ MODULE Services ------------------------------
(***************************************************************************)
(* Services accounts: the store with its file, the certificates enrolled   *)
(* on an account, the ways a session logs in (NickServ, SASL PLAIN and     *)
(* EXTERNAL), writes that fail and a server that dies between them.        *)
(*                                                                         *)
(* A handler is one critical section, its write of the file included, so   *)
(* an action is a whole handler; saved says whether the write succeeds.    *)
(* The file is replaced by a rename, so it is always a whole one.  A       *)
(* password stands for its hash, a certificate for its fingerprint, and    *)
(* the nickname a session registers an account under is any that is free.  *)
(***************************************************************************)
EXTENDS Naturals, FiniteSets

CONSTANTS Sessions,    \* connections
          Accounts,    \* account names, folded
          Passwords,
          Certs,       \* fingerprints of client certificates
          MaxCerts,    \* MAX_CERTS_PER_ACCOUNT
          None         \* absent: no account, password, certificate, mechanism

Mechs == {"PLAIN", "EXTERNAL"}

ASSUME NoneAssumption == None \notin Accounts \cup Passwords \cup Certs \cup Mechs
ASSUME CertAssumption == IsFiniteSet(Certs) /\ MaxCerts \in Nat

VARIABLES
  pass,     \* AccountStore.map: the password of each account
  certs,    \* AccountStore.map: the certificates of each account
  by_cert,  \* AccountStore.by_cert
  file,     \* what is at IRC_ACCOUNTS_PATH
  cx        \* the connections

store == <<pass, certs, by_cert>>
vars  == <<store, file, cx>>

CxType ==
  [open : BOOLEAN, registered : BOOLEAN,
   negotiating : BOOLEAN,            \* cap_negotiating
   sasl : BOOLEAN,                   \* caps.sasl
   cert_fp : Certs \cup {None},      \* from the TLS handshake
   mech : Mechs \cup {None},         \* sasl_mech
   account : Accounts \cup {None}]

NoCx == [open |-> FALSE, registered |-> FALSE, negotiating |-> FALSE, sasl |-> FALSE,
         cert_fp |-> None, mech |-> None, account |-> None]

FileType == [pass : [Accounts -> Passwords \cup {None}], certs : [Accounts -> SUBSET Certs]]

TypeOK ==
  /\ pass \in [Accounts -> Passwords \cup {None}]
  /\ certs \in [Accounts -> SUBSET Certs]
  /\ by_cert \in [Certs -> Accounts \cup {None}]
  /\ file \in FileType
  /\ cx \in [Sessions -> CxType]
  /\ \A a \in Accounts : Cardinality(certs[a]) <= MaxCerts

Init ==
  /\ pass = [a \in Accounts |-> None]
  /\ certs = [a \in Accounts |-> {}]
  /\ by_cert = [c \in Certs |-> None]
  /\ file = [pass |-> pass, certs |-> certs]
  /\ cx = [s \in Sessions |-> NoCx]

-----------------------------------------------------------------------------
(* The store                                                               *)

exists(a)    == pass[a] # None
verify(a, p) == exists(a) /\ pass[a] = p

\* AccountStore::save, once the maps have their new values.
save(saved) == file' = IF saved THEN [pass |-> pass', certs |-> certs'] ELSE file

\* register and set_password keep what could not be saved.
sets_password(a, p, saved) ==
  /\ pass' = [pass EXCEPT ![a] = p]
  /\ UNCHANGED <<certs, by_cert>>
  /\ save(saved)

\* Mutant: the limit is off by one.
add_cert_past_limit(a, c, saved) ==
  /\ exists(a) /\ by_cert[c] = None
  /\ Cardinality(certs[a]) <= MaxCerts
  /\ certs' = IF saved THEN [certs EXCEPT ![a] = @ \cup {c}] ELSE certs
  /\ by_cert' = IF saved THEN [by_cert EXCEPT ![c] = a] ELSE by_cert
  /\ pass' = pass
  /\ save(saved)

\* Mutant: a certificate may be taken over from another account.
add_cert_rebinds(a, c, saved) ==
  /\ exists(a) /\ by_cert[c] # a
  /\ Cardinality(certs[a]) < MaxCerts
  /\ certs' = IF saved THEN [certs EXCEPT ![a] = @ \cup {c}] ELSE certs
  /\ by_cert' = IF saved THEN [by_cert EXCEPT ![c] = a] ELSE by_cert
  /\ pass' = pass
  /\ save(saved)

\* add_cert, of a certificate that is on no account; undone if not saved.
add_cert(a, c, saved) ==
  /\ exists(a) /\ by_cert[c] = None
  /\ Cardinality(certs[a]) < MaxCerts
  /\ certs' = IF saved THEN [certs EXCEPT ![a] = @ \cup {c}] ELSE certs
  /\ by_cert' = IF saved THEN [by_cert EXCEPT ![c] = a] ELSE by_cert
  /\ pass' = pass
  /\ save(saved)

\* Mutant: what could not be saved is not undone.
remove_cert_not_undone(a, c, saved) ==
  /\ exists(a) /\ c \in certs[a]
  /\ certs' = [certs EXCEPT ![a] = @ \ {c}]
  /\ by_cert' = [by_cert EXCEPT ![c] = None]
  /\ pass' = pass
  /\ save(saved)

\* remove_cert, undone if not saved.
remove_cert(a, c, saved) ==
  /\ exists(a) /\ c \in certs[a]
  /\ certs' = IF saved THEN [certs EXCEPT ![a] = @ \ {c}] ELSE certs
  /\ by_cert' = IF saved THEN [by_cert EXCEPT ![c] = None] ELSE by_cert
  /\ pass' = pass
  /\ save(saved)

\* AccountStore::load: of the lines that claim a certificate the first wins.
\* Lines are in no particular order.
load ==
  /\ pass' = file.pass
  /\ \E first \in [Certs -> Accounts \cup {None}] :
       /\ \A c \in Certs :
            LET claims == { a \in Accounts : c \in file.certs[a] }
            IN  IF claims = {} THEN first[c] = None ELSE first[c] \in claims
       /\ by_cert' = first
       /\ certs' = [a \in Accounts |-> { c \in file.certs[a] : first[c] = a }]

-----------------------------------------------------------------------------
(* Connections                                                             *)

Sets(s, r) == cx' = [cx EXCEPT ![s] = r]

\* A connection, with the certificate it presented.
Connect(s, c) ==
  /\ ~cx[s].open
  /\ Sets(s, [NoCx EXCEPT !.open = TRUE, !.cert_fp = c])
  /\ UNCHANGED <<store, file>>

\* It ends, by itself, by GHOST or by an operator.
Close(s) ==
  /\ cx[s].open
  /\ Sets(s, NoCx)
  /\ UNCHANGED <<store, file>>

\* NICK and USER have paired.
Pair(s) ==
  /\ cx[s].open /\ ~cx[s].registered
  /\ Sets(s, [cx[s] EXCEPT !.registered = TRUE])
  /\ UNCHANGED <<store, file>>

\* CAP LS and CAP REQ, before or after registration.
CapBegin(s, sasl) ==
  /\ cx[s].open
  /\ Sets(s, [cx[s] EXCEPT !.negotiating = TRUE, !.sasl = sasl])
  /\ UNCHANGED <<store, file>>

CapEnd(s) ==
  /\ cx[s].open
  /\ Sets(s, [cx[s] EXCEPT !.negotiating = FALSE])
  /\ UNCHANGED <<store, file>>

-----------------------------------------------------------------------------
(* AUTHENTICATE                                                            *)

\* Neither 907 nor 906.
Authenticates(s) ==
  /\ cx[s].open
  /\ cx[s].registered => cx[s].negotiating
  /\ cx[s].account = None
  /\ cx[s].sasl

\* sasl_mechanism_list: EXTERNAL is offered to whoever presented a certificate.
Offered(s) == IF cx[s].cert_fp = None THEN {"PLAIN"} ELSE Mechs

SaslChoose(s, m) ==
  /\ Authenticates(s) /\ cx[s].mech = None
  /\ m \in Offered(s)
  /\ Sets(s, [cx[s] EXCEPT !.mech = m])
  /\ UNCHANGED <<store, file>>

\* An abort, or a payload that does not do.
SaslFails(s) ==
  /\ Authenticates(s) /\ cx[s].mech # None
  /\ Sets(s, [cx[s] EXCEPT !.mech = None])
  /\ UNCHANGED <<store, file>>

finish_sasl_login(s, a) ==
  /\ Sets(s, [cx[s] EXCEPT !.account = a, !.mech = None])
  /\ UNCHANGED <<store, file>>

authenticate_plain(s, a, p) ==
  /\ Authenticates(s) /\ cx[s].mech = "PLAIN"
  /\ verify(a, p)
  /\ finish_sasl_login(s, a)

\* The account the certificate is bound to now; authzid is empty or that one.
authenticate_external(s, authzid) ==
  /\ Authenticates(s) /\ cx[s].mech = "EXTERNAL"
  /\ LET bound == by_cert[cx[s].cert_fp]
     IN  /\ bound # None
         /\ authzid \in {None, bound}
         /\ finish_sasl_login(s, bound)

-----------------------------------------------------------------------------
(* NickServ                                                                *)

Asks(s)    == cx[s].open /\ cx[s].registered
LogsIn(s, a) == Sets(s, [cx[s] EXCEPT !.account = a])

Register(s, a, p, saved) ==
  /\ Asks(s) /\ ~exists(a)
  /\ sets_password(a, p, saved)
  /\ LogsIn(s, a)

Identify(s, a, p) ==
  /\ Asks(s) /\ verify(a, p)
  /\ LogsIn(s, a)
  /\ UNCHANGED <<store, file>>

Logout(s) ==
  /\ Asks(s)
  /\ LogsIn(s, None)
  /\ UNCHANGED <<store, file>>

\* SET PASSWORD, with the current one.
SetPassword(s, current, p, saved) ==
  /\ Asks(s) /\ cx[s].account # None
  /\ verify(cx[s].account, current)
  /\ sets_password(cx[s].account, p, saved)
  /\ cx' = cx

\* CERT ADD takes the certificate of the connection, CERT DEL any by name.
CertAdd(s, saved) ==
  /\ Asks(s) /\ cx[s].account # None
  /\ cx[s].cert_fp # None
  /\ add_cert(cx[s].account, cx[s].cert_fp, saved)
  /\ cx' = cx

CertDel(s, c, saved) ==
  /\ Asks(s) /\ cx[s].account # None
  /\ remove_cert(cx[s].account, c, saved)
  /\ cx' = cx

-----------------------------------------------------------------------------

\* The process ends, between two commands, and is started again.
Restart ==
  /\ load
  /\ cx' = [s \in Sessions |-> NoCx]
  /\ file' = file

Connection(s) ==
  \/ \E c \in Certs \cup {None} : Connect(s, c)
  \/ Close(s) \/ Pair(s) \/ CapEnd(s)
  \/ \E sasl \in BOOLEAN : CapBegin(s, sasl)

handle_authenticate(s) ==
  \/ \E m \in Mechs : SaslChoose(s, m)
  \/ SaslFails(s)
  \/ \E a \in Accounts, p \in Passwords : authenticate_plain(s, a, p)
  \/ \E z \in Accounts \cup {None} : authenticate_external(s, z)

handle_nickserv(s) ==
  \/ \E a \in Accounts, p \in Passwords, saved \in BOOLEAN : Register(s, a, p, saved)
  \/ \E a \in Accounts, p \in Passwords : Identify(s, a, p)
  \/ Logout(s)
  \/ \E current, p \in Passwords, saved \in BOOLEAN : SetPassword(s, current, p, saved)
  \/ \E saved \in BOOLEAN : CertAdd(s, saved)
  \/ \E c \in Certs, saved \in BOOLEAN : CertDel(s, c, saved)

Next ==
  \/ \E s \in Sessions : Connection(s) \/ handle_authenticate(s) \/ handle_nickserv(s)
  \/ Restart

Spec == Init /\ [][Next]_vars

-----------------------------------------------------------------------------
(* Properties                                                              *)

\* A fingerprint maps to at most one account, and the index that EXTERNAL goes
\* by says exactly what the accounts say, through enrolments and removals that
\* are undone, and through a restart.
CertIndex ==
  \A a \in Accounts, c \in Certs : by_cert[c] = a <=> c \in certs[a]

\* What is enrolled is what is on disk, whichever writes failed: a crash
\* neither loses an enrolled certificate nor brings a removed one back.
CertsDurable == \A a \in Accounts : certs[a] = file.certs[a]

\* A certificate comes to stand for an account only by a session that is
\* logged in to it and presented that certificate: never by a restart, by a
\* failed write, or by what another session does.
BindingProven ==
  [][ \A c \in Certs :
        by_cert'[c] # by_cert[c] /\ by_cert'[c] # None
        => /\ by_cert[c] = None
           /\ \E s \in Sessions : /\ cx[s].open
                                  /\ cx[s].account = by_cert'[c]
                                  /\ cx[s].cert_fp = c ]_vars

=============================================================================
