---------------------------- MODULE AuthService -----------------------------
(***************************************************************************)
(* auth-service: drivers log in with e-mail and password and get a token,  *)
(* and other services ask whose token it is.  Modules Reporting and        *)
(* Dashboard add what the BFF does with it.                                *)
(*                                                                         *)
(* Time runs in minutes: a token lives for 300 seconds.  Nothing changes   *)
(* the drivers.  A login whose answer is lost, or that the BFF gave up,    *)
(* yields a token that nobody has: it changes nothing here.                *)
(***************************************************************************)
EXTENDS Naturals

CONSTANTS
    Drivers,        \* the drivers of the repository
    Lifetime,       \* of a token
    MaxTime,        \* bound: time that passes in a behaviour
    None

ASSUME TimeAssumption == Lifetime \in Nat \ {0} /\ MaxTime \in Nat

VARIABLES
    now,
    tokens      \* the tokens that drivers have got

auth == <<now, tokens>>

Tokens == [driver : Drivers, expires : Lifetime .. Lifetime + MaxTime]

ASSUME NoneAssumption == None \notin Drivers \cup Tokens

\* The drivers differ in id, e-mail and password.
InitializeDrivers == {[id |-> d, email |-> d, password |-> d] : d \in Drivers}

AuthInit ==
    /\ now = 0
    /\ tokens = {}

FindByEmail(email) == {driver \in InitializeDrivers : driver.email = email}

FindById(id) == {driver \in InitializeDrivers : driver.id = id}

\* Whether there is a profile: what it says is left out.
HasDriverProfile(id) == FindById(id) # {}

\* Mutant: the lifetime that .env.example configures, one day.
GenerateTokenForADay(driver) == [driver |-> driver.id, expires |-> now + 288 * Lifetime]

GenerateToken(driver) == [driver |-> driver.id, expires |-> now + Lifetime]

\* Without a driver of that e-mail, or with another password, nothing changes.
Login(email, password) ==
    \E driver \in FindByEmail(email) :
        /\ password = driver.password
        /\ tokens' = tokens \cup {GenerateToken(driver)}
        /\ UNCHANGED now

\* The driver of a token, or None.  verify throws at the very second of expiry
\* already, and on what is not a token, here None: a header that is not there, or
\* that has the word Bearer in front of the token.
ValidateToken(token) ==
    IF token # None /\ now < token.expires /\ FindById(token.driver) # {}
    THEN token.driver ELSE None

TimePasses ==
    /\ now < MaxTime
    /\ now' = now + 1
    /\ UNCHANGED tokens

AuthNext ==
    \/ \E email, password \in Drivers : Login(email, password)
    \/ TimePasses

AuthTypeOK ==
    /\ now \in 0 .. MaxTime
    /\ tokens \in SUBSET Tokens
=============================================================================
