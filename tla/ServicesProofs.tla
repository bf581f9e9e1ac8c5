--------------------------- MODULE ServicesProofs ---------------------------
(***************************************************************************)
(* What holds of Services for any sessions, accounts and certificates: the *)
(* certificate index, the accounts and the file agree, and a certificate   *)
(* comes to stand for an account only by a session that holds both.        *)
(***************************************************************************)
EXTENDS Services, FiniteSetTheorems, TLAPS

\* A connection that has chosen EXTERNAL presented a certificate.
Held == { r \in CxType : r.mech = "EXTERNAL" => r.cert_fp \in Certs }

\* The part of the type invariant that is about values.
Types ==
  /\ pass \in [Accounts -> Passwords \cup {None}]
  /\ certs \in [Accounts -> SUBSET Certs]
  /\ by_cert \in [Certs -> Accounts \cup {None}]
  /\ file \in FileType
  /\ cx \in [Sessions -> Held]

WithinLimit == \A a \in Accounts : Cardinality(certs[a]) <= MaxCerts

Inv == Types /\ WithinLimit /\ CertIndex /\ CertsDurable

\* What the store may do to the certificates: enrol one nobody has, remove
\* one, or nothing; the file follows in each case.
Enrols(a, c) ==
  /\ by_cert[c] = None
  /\ Cardinality(certs[a]) < MaxCerts
  /\ certs' = [certs EXCEPT ![a] = @ \cup {c}]
  /\ by_cert' = [by_cert EXCEPT ![c] = a]
  /\ file'.certs = certs'

Removes(a, c) ==
  /\ c \in certs[a]
  /\ certs' = [certs EXCEPT ![a] = @ \ {c}]
  /\ by_cert' = [by_cert EXCEPT ![c] = None]
  /\ file'.certs = certs'

Same == UNCHANGED <<certs, by_cert>> /\ file'.certs \in {certs, file.certs}

\* A set of certificates has a cardinality.
LEMMA CertsFinite ==
  ASSUME NEW C \in SUBSET Certs
  PROVE  IsFiniteSet(C) /\ Cardinality(C) \in Nat
BY CertAssumption, FS_Subset, FS_CardinalityType

\* Enrolling a certificate that nobody has keeps store, index and file equal.
LEMMA EnrolsKeeps ==
  ASSUME Inv, Types', NEW a \in Accounts, NEW c \in Certs, Enrols(a, c)
  PROVE  Inv'
<1>1. \A b \in Accounts : certs'[b] = IF b = a THEN certs[b] \cup {c} ELSE certs[b]
  BY DEF Enrols, Inv, Types
<1>2. \A d \in Certs : by_cert'[d] = IF d = c THEN a ELSE by_cert[d]
  BY DEF Enrols, Inv, Types
<1>3. CertIndex'
  BY <1>1, <1>2, NoneAssumption DEF Enrols, Inv, CertIndex
<1>4. CertsDurable'
  BY DEF Enrols, CertsDurable
<1>5. WithinLimit'
  <2>1. certs[a] \in SUBSET Certs
    BY DEF Inv, Types
  <2>2. Cardinality(certs[a] \cup {c}) \in {Cardinality(certs[a]), Cardinality(certs[a]) + 1}
    BY <2>1, CertsFinite, FS_AddElement
  <2>3. Cardinality(certs[a]) \in Nat /\ Cardinality(certs[a]) < MaxCerts
    BY <2>1, CertsFinite DEF Enrols
  <2>4. Cardinality(certs[a] \cup {c}) <= MaxCerts
    BY <2>2, <2>3, CertAssumption
  <2> QED BY <1>1, <2>4 DEF Inv, WithinLimit
<1> QED BY <1>3, <1>4, <1>5 DEF Inv

\* So does removing one.
LEMMA RemovesKeeps ==
  ASSUME Inv, Types', NEW a \in Accounts, NEW c \in Certs, Removes(a, c)
  PROVE  Inv'
<1>1. \A b \in Accounts : certs'[b] = IF b = a THEN certs[b] \ {c} ELSE certs[b]
  BY DEF Removes, Inv, Types
<1>2. \A d \in Certs : by_cert'[d] = IF d = c THEN None ELSE by_cert[d]
  BY DEF Removes, Inv, Types
<1>3. CertIndex'
  BY <1>1, <1>2, NoneAssumption DEF Removes, Inv, CertIndex
<1>4. CertsDurable'
  BY DEF Removes, CertsDurable
<1>5. WithinLimit'
  <2>1. certs[a] \in SUBSET Certs
    BY DEF Inv, Types
  <2>2. Cardinality(certs[a] \ {c}) <= Cardinality(certs[a])
    BY <2>1, CertsFinite, FS_Subset
  <2>3. Cardinality(certs[a]) <= MaxCerts
    BY DEF Inv, WithinLimit
  <2>4. certs[a] \ {c} \in SUBSET Certs
    BY <2>1
  <2>5. Cardinality(certs[a] \ {c}) \in Nat /\ Cardinality(certs[a]) \in Nat
    BY <2>1, <2>4, CertsFinite
  <2>6. Cardinality(certs[a] \ {c}) <= MaxCerts
    BY <2>2, <2>3, <2>5, CertAssumption
  <2> QED BY <1>1, <2>6 DEF Inv, WithinLimit
<1> QED BY <1>3, <1>4, <1>5 DEF Inv

\* And anything that leaves the certificates alone.
LEMMA SameKeeps == ASSUME Inv, Types', Same PROVE Inv'
<1>1. CertsDurable'
  BY DEF Inv, CertsDurable, Same
<1>2. WithinLimit' /\ CertIndex'
  BY DEF Inv, WithinLimit, CertIndex, Same
<1> QED BY <1>1, <1>2 DEF Inv

\* What load makes of a file whose certificates are those of the store.
LEMMA LoadSame == ASSUME Inv, load PROVE UNCHANGED <<certs, by_cert>>
<1>1. PICK first \in [Certs -> Accounts \cup {None}] :
        /\ \A c \in Certs :
             LET claims == { a \in Accounts : c \in file.certs[a] }
             IN  IF claims = {} THEN first[c] = None ELSE first[c] \in claims
        /\ by_cert' = first
        /\ certs' = [a \in Accounts |-> { c \in file.certs[a] : first[c] = a }]
  BY DEF load
<1>2. ASSUME NEW c \in Certs PROVE first[c] = by_cert[c]
  <2> DEFINE claims == { a \in Accounts : c \in file.certs[a] }
  <2>1. IF claims = {} THEN first[c] = None ELSE first[c] \in claims
    BY <1>1
  <2>2. claims = { a \in Accounts : by_cert[c] = a }
    BY DEF Inv, CertsDurable, CertIndex
  <2>3. by_cert[c] \in Accounts \cup {None}
    BY DEF Inv, Types
  <2> HIDE DEF claims
  <2>4. CASE by_cert[c] = None
    <3>1. claims = {}
      BY <2>2, <2>4, NoneAssumption
    <3> QED BY <2>1, <2>4, <3>1
  <2>5. CASE by_cert[c] \in Accounts
    <3>1. claims = {by_cert[c]}
      BY <2>2, <2>5
    <3> QED BY <2>1, <3>1
  <2> QED BY <2>3, <2>4, <2>5
<1>3. by_cert' = by_cert
  BY <1>1, <1>2 DEF Inv, Types
<1>4. ASSUME NEW a \in Accounts PROVE certs'[a] = certs[a]
  <2>1. certs'[a] = { c \in file.certs[a] : first[c] = a }
    BY <1>1
  <2>2. file.certs[a] = certs[a] /\ certs[a] \subseteq Certs
    BY DEF Inv, Types, CertsDurable
  <2>3. \A c \in certs[a] : by_cert[c] = a
    BY <2>2 DEF Inv, CertIndex
  <2> QED BY <1>2, <2>1, <2>2, <2>3
<1>5. certs' = certs
  BY <1>1, <1>4 DEF Inv, Types
<1> QED BY <1>3, <1>5

-----------------------------------------------------------------------------
(* Steps.  Whatever a step does, it enrols the certificate of a session on *)
(* its account, removes one, or leaves the certificates alone.             *)

Proven(a, c) == \E s \in Sessions : cx[s].open /\ cx[s].account = a /\ cx[s].cert_fp = c

Kinds ==
  \/ \E a \in Accounts, c \in Certs : Enrols(a, c) /\ Proven(a, c)
  \/ \E a \in Accounts, c \in Certs : Removes(a, c)
  \/ Same

\* A step that touches neither the store nor the file.
LEMMA ConnectionOnly ==
  ASSUME Inv, UNCHANGED <<store, file>>, cx' \in [Sessions -> Held]
  PROVE  Types' /\ Kinds
BY DEF Inv, Types, store, Kinds, Same

\* A record of a connection, with a field or two changed.
LEMMA RecordTypes ==
  ASSUME NEW r \in Held, NEW b \in BOOLEAN, NEW a \in Accounts \cup {None}
  PROVE  /\ [r EXCEPT !.registered = b] \in Held
         /\ [r EXCEPT !.negotiating = b] \in Held
         /\ [r EXCEPT !.negotiating = TRUE, !.sasl = b] \in Held
         /\ [r EXCEPT !.mech = None] \in Held
         /\ [r EXCEPT !.account = a] \in Held
         /\ [r EXCEPT !.account = a, !.mech = None] \in Held
<1>1. None # "EXTERNAL"
  BY NoneAssumption DEF Mechs
<1> QED BY <1>1 DEF Held, CxType

\* Setting the record of one connection.
LEMMA SetsType ==
  ASSUME Inv, NEW s \in Sessions, NEW r \in Held, Sets(s, r)
  PROVE  cx' \in [Sessions -> Held]
BY DEF Inv, Types, Sets

\* Connecting, closing, pairing and CAP.
LEMMA ConnectionStep ==
  ASSUME Inv, NEW s \in Sessions, Connection(s) PROVE Types' /\ Kinds
<1>0. cx[s] \in Held
  BY DEF Inv, Types
<1>1. ASSUME NEW c \in Certs \cup {None}, Connect(s, c) PROVE Types' /\ Kinds
  <2>1. [NoCx EXCEPT !.open = TRUE, !.cert_fp = c] \in Held
    BY NoneAssumption DEF NoCx, Held, CxType, Mechs
  <2> QED BY <1>1, <2>1, SetsType, ConnectionOnly DEF Connect
<1>2. CASE Close(s)
  <2>1. NoCx \in Held
    BY NoneAssumption DEF NoCx, Held, CxType, Mechs
  <2> QED BY <1>2, <2>1, SetsType, ConnectionOnly DEF Close
<1>3. CASE Pair(s)
  BY <1>0, <1>3, RecordTypes, SetsType, ConnectionOnly DEF Pair
<1>4. CASE CapEnd(s)
  BY <1>0, <1>4, RecordTypes, SetsType, ConnectionOnly DEF CapEnd
<1>5. ASSUME NEW sasl \in BOOLEAN, CapBegin(s, sasl) PROVE Types' /\ Kinds
  BY <1>0, <1>5, RecordTypes, SetsType, ConnectionOnly DEF CapBegin
<1> QED BY <1>1, <1>2, <1>3, <1>4, <1>5 DEF Connection

\* AUTHENTICATE.
LEMMA AuthenticateStep ==
  ASSUME Inv, NEW s \in Sessions, handle_authenticate(s) PROVE Types' /\ Kinds
<1>0. cx[s] \in Held
  BY DEF Inv, Types
<1>1. ASSUME NEW m \in Mechs, SaslChoose(s, m) PROVE Types' /\ Kinds
  <2>1. m = "EXTERNAL" => cx[s].cert_fp # None
    BY <1>1 DEF SaslChoose, Offered
  <2>2. cx[s].cert_fp \in Certs \cup {None}
    BY <1>0 DEF Held, CxType
  <2>3. [cx[s] EXCEPT !.mech = m] \in Held
    BY <1>0, <2>1, <2>2 DEF Held, CxType
  <2> QED BY <1>1, <2>3, SetsType, ConnectionOnly DEF SaslChoose
<1>2. CASE SaslFails(s)
  BY <1>0, <1>2, RecordTypes, SetsType, ConnectionOnly DEF SaslFails
<1>3. ASSUME NEW a \in Accounts, finish_sasl_login(s, a) PROVE Types' /\ Kinds
  BY <1>0, <1>3, RecordTypes, SetsType, ConnectionOnly DEF finish_sasl_login
<1>4. ASSUME NEW a \in Accounts, NEW p \in Passwords, authenticate_plain(s, a, p)
      PROVE  Types' /\ Kinds
  BY <1>3, <1>4 DEF authenticate_plain
<1>5. ASSUME NEW z \in Accounts \cup {None}, authenticate_external(s, z)
      PROVE  Types' /\ Kinds
  <2>1. cx[s].mech = "EXTERNAL" /\ by_cert[cx[s].cert_fp] # None
    BY <1>5 DEF authenticate_external
  <2>2. cx[s].cert_fp \in Certs
    BY <1>0, <2>1 DEF Held
  <2>3. by_cert[cx[s].cert_fp] \in Accounts
    BY <2>1, <2>2 DEF Inv, Types
  <2> QED BY <1>3, <1>5, <2>3 DEF authenticate_external
<1> QED BY <1>1, <1>2, <1>4, <1>5 DEF handle_authenticate

\* The store's steps.
LEMMA PasswordStep ==
  ASSUME Inv, NEW a \in Accounts, NEW p \in Passwords, NEW saved \in BOOLEAN,
         sets_password(a, p, saved), cx' \in [Sessions -> Held]
  PROVE  Types' /\ Kinds
<1>1. pass' \in [Accounts -> Passwords \cup {None}] /\ UNCHANGED <<certs, by_cert>>
  BY DEF sets_password, Inv, Types
<1>2. /\ file' \in FileType
      /\ file'.certs \in {certs, file.certs}
  BY <1>1 DEF sets_password, save, Inv, Types, FileType
<1> QED BY <1>1, <1>2 DEF Inv, Types, Kinds, Same

\* CERT ADD: saved, or undone.
LEMMA AddStep ==
  ASSUME Inv, NEW a \in Accounts, NEW c \in Certs, NEW saved \in BOOLEAN,
         add_cert(a, c, saved), Proven(a, c), cx' = cx
  PROVE  Types' /\ Kinds
<1>1. CASE saved
  <2>1. certs' \in [Accounts -> SUBSET Certs] /\ by_cert' \in [Certs -> Accounts \cup {None}]
    BY <1>1 DEF add_cert, Inv, Types
  <2>2. file' = [pass |-> pass', certs |-> certs'] /\ pass' = pass
    BY <1>1 DEF add_cert, save
  <2>3. file' \in FileType /\ file'.certs = certs'
    BY <2>1, <2>2 DEF Inv, Types, FileType
  <2>4. Enrols(a, c)
    BY <1>1, <2>3 DEF add_cert, Enrols
  <2> QED BY <2>1, <2>2, <2>3, <2>4 DEF Inv, Types, Kinds
<1>2. CASE ~saved
  BY <1>2 DEF add_cert, save, Inv, Types, Kinds, Same
<1> QED BY <1>1, <1>2

\* CERT DEL: saved, or undone.
LEMMA RemoveStep ==
  ASSUME Inv, NEW a \in Accounts, NEW c \in Certs, NEW saved \in BOOLEAN,
         remove_cert(a, c, saved), cx' = cx
  PROVE  Types' /\ Kinds
<1>1. CASE saved
  <2>1. certs' \in [Accounts -> SUBSET Certs] /\ by_cert' \in [Certs -> Accounts \cup {None}]
    BY <1>1 DEF remove_cert, Inv, Types
  <2>2. file' = [pass |-> pass', certs |-> certs'] /\ pass' = pass
    BY <1>1 DEF remove_cert, save
  <2>3. file' \in FileType /\ file'.certs = certs'
    BY <2>1, <2>2 DEF Inv, Types, FileType
  <2>4. Removes(a, c)
    BY <1>1, <2>3 DEF remove_cert, Removes
  <2> QED BY <2>1, <2>2, <2>3, <2>4 DEF Inv, Types, Kinds
<1>2. CASE ~saved
  BY <1>2 DEF remove_cert, save, Inv, Types, Kinds, Same
<1> QED BY <1>1, <1>2

\* NickServ.
LEMMA NickservStep ==
  ASSUME Inv, NEW s \in Sessions, handle_nickserv(s) PROVE Types' /\ Kinds
<1>0. /\ cx[s] \in Held /\ cx \in [Sessions -> Held]
      /\ cx[s].account \in Accounts \cup {None} /\ cx[s].cert_fp \in Certs \cup {None}
  BY DEF Inv, Types, Held, CxType
<1>1. ASSUME NEW a \in Accounts \cup {None}, LogsIn(s, a) PROVE cx' \in [Sessions -> Held]
  BY <1>0, <1>1, RecordTypes, SetsType DEF LogsIn
<1>2. ASSUME NEW a \in Accounts, NEW p \in Passwords, NEW saved \in BOOLEAN,
             Register(s, a, p, saved)
      PROVE  Types' /\ Kinds
  BY <1>1, <1>2, PasswordStep DEF Register
<1>3. ASSUME NEW a \in Accounts, NEW p \in Passwords, Identify(s, a, p) PROVE Types' /\ Kinds
  BY <1>1, <1>3, ConnectionOnly DEF Identify
<1>4. CASE Logout(s)
  BY <1>1, <1>4, ConnectionOnly DEF Logout
<1>5. ASSUME NEW current \in Passwords, NEW p \in Passwords, NEW saved \in BOOLEAN,
             SetPassword(s, current, p, saved)
      PROVE  Types' /\ Kinds
  BY <1>0, <1>5, PasswordStep DEF SetPassword
<1>6. ASSUME NEW saved \in BOOLEAN, CertAdd(s, saved) PROVE Types' /\ Kinds
  <2>1. /\ cx[s].account \in Accounts /\ cx[s].cert_fp \in Certs
        /\ Proven(cx[s].account, cx[s].cert_fp)
    BY <1>0, <1>6 DEF CertAdd, Proven, Asks
  <2> QED BY <1>6, <2>1, AddStep DEF CertAdd
<1>7. ASSUME NEW c \in Certs, NEW saved \in BOOLEAN, CertDel(s, c, saved)
      PROVE  Types' /\ Kinds
  BY <1>0, <1>7, RemoveStep DEF CertDel
<1> QED BY <1>2, <1>3, <1>4, <1>5, <1>6, <1>7 DEF handle_nickserv

\* Every step, a restart included.
LEMMA Step == ASSUME Inv, [Next]_vars PROVE Types' /\ Kinds
<1>1. CASE Restart
  <2>1. UNCHANGED <<certs, by_cert>> /\ pass' = file.pass /\ file' = file
    BY <1>1, LoadSame DEF Restart, load
  <2>2. NoCx \in Held
    BY NoneAssumption DEF NoCx, Held, CxType, Mechs
  <2>3. pass' \in [Accounts -> Passwords \cup {None}]
    BY <2>1 DEF Inv, Types, FileType
  <2> QED BY <1>1, <2>1, <2>2, <2>3 DEF Restart, Inv, Types, Kinds, Same
<1>2. CASE UNCHANGED vars
  BY <1>2, ConnectionOnly DEF vars, Inv, Types
<1> QED BY <1>1, <1>2, ConnectionStep, AuthenticateStep, NickservStep DEF Next

\* Every kind of step keeps the invariant.
LEMMA InvStep == ASSUME Inv, [Next]_vars PROVE Inv'
BY Step, EnrolsKeeps, RemovesKeeps, SameKeeps DEF Kinds

\* It holds at the start.
LEMMA InvInit == Init => Inv
<1> SUFFICES ASSUME Init PROVE Inv
  OBVIOUS
<1>1. Types
  BY NoneAssumption DEF Init, Types, FileType, NoCx, Held, CxType, Mechs
<1>2. WithinLimit
  BY CertAssumption, FS_EmptySet DEF Init, WithinLimit
<1>3. CertIndex /\ CertsDurable
  BY NoneAssumption DEF Init, CertIndex, CertsDurable
<1> QED BY <1>1, <1>2, <1>3 DEF Inv

\* So it always holds.
LEMMA InvAlways == Spec => []Inv
<1>1. Inv /\ [Next]_vars => Inv'
  BY InvStep
<1> QED BY <1>1, InvInit, PTL DEF Spec

\* Types are kept, and no account has more than MAX_CERTS_PER_ACCOUNT
\* certificates, through CERT ADD, CERT DEL, failed writes and restarts.
THEOREM AccountTypes == Spec => []TypeOK
<1>1. Inv => TypeOK
  BY DEF Inv, Types, WithinLimit, TypeOK, Held
<1> QED BY <1>1, InvAlways, PTL

\* The index SASL EXTERNAL goes by, AccountStore.by_cert, and the certificates
\* listed on the accounts always say the same.
THEOREM IndexAgrees == Spec => []CertIndex
<1>1. Inv => CertIndex
  BY DEF Inv
<1> QED BY <1>1, InvAlways, PTL

\* The certificates in memory are those on disk, whichever saves fail.
THEOREM CertsOnDisk == Spec => []CertsDurable
<1>1. Inv => CertsDurable
  BY DEF Inv
<1> QED BY <1>1, InvAlways, PTL

\* A certificate comes to stand for an account only through add_cert, for a
\* session that is logged in to the account and presented the certificate.
THEOREM BindingsProven == Spec => BindingProven
<1> DEFINE A == \A c \in Certs :
        by_cert'[c] # by_cert[c] /\ by_cert'[c] # None
        => /\ by_cert[c] = None
           /\ \E s \in Sessions : /\ cx[s].open
                                  /\ cx[s].account = by_cert'[c]
                                  /\ cx[s].cert_fp = c
<1>1. Inv /\ [Next]_vars => [A]_vars
  <2> SUFFICES ASSUME Inv, [Next]_vars PROVE A
    OBVIOUS
  <2>1. CASE \E a \in Accounts, c \in Certs : Enrols(a, c) /\ Proven(a, c)
    BY <2>1 DEF Enrols, Proven, Inv, Types
  <2>2. CASE \E a \in Accounts, c \in Certs : Removes(a, c)
    BY <2>2 DEF Removes, Inv, Types
  <2>3. CASE Same
    BY <2>3 DEF Same
  <2> QED BY <2>1, <2>2, <2>3, Step DEF Kinds
<1> QED BY <1>1, InvAlways, PTL DEF Spec, BindingProven

=============================================================================
