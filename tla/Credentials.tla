----------------------------- MODULE Credentials -----------------------------
(***************************************************************************)
(* The certificates the VERI*FACTU workers present to AEAT: versions of a  *)
(* credential, staged, tried against the test portal and put in force in   *)
(* the place of the version before.                                        *)
(*                                                                         *)
(* A trial is three transactions around a call to AEAT.  What the first    *)
(* reads (the version, the one in force, whether the request was answered  *)
(* before) is compared with the database again in the last, under the lock *)
(* of the credential; in between the process may stop, and any request     *)
(* declares unknown a trial that has been running for five minutes, though *)
(* its process may only be slow.                                           *)
(***************************************************************************)
EXTENDS Naturals, FiniteSets

CONSTANTS Certificates,   \* rows of verifactu_mtls_credentials
          CertVersions,   \* rows of verifactu_mtls_credential_versions
          Trials,         \* activation requests, by their Idempotency-Key
          Servers,        \* processes that serve them
          NoCertificate, NoVersion

VARIABLES certVersion,    \* status, credential, whether it allows PRODUCTION, and the
                          \* version it replaced
          trial,          \* outcome, version, whether five minutes went by, and the
                          \* version that was in force when it was asked for
          installed,      \* the credential of the SIF installation of each environment
          server          \* what each process is doing

credentialVars == <<certVersion, trial, installed, server>>
-----------------------------------------------------------------------------
Idle == [at |-> "IDLE"]
Environments == {"TEST", "PRODUCTION"}

CredentialInit ==
    /\ certVersion = [n \in CertVersions |-> [status |-> "ABSENT"]]
    /\ trial = [k \in Trials |-> [outcome |-> "ABSENT"]]
    /\ installed = [e \in Environments |-> NoCertificate]
    /\ server = [p \in Servers |-> Idle]

VersionsOf(c) ==
    {n \in CertVersions : certVersion[n].status # "ABSENT" /\ certVersion[n].credential = c}
InForce(c) == {n \in VersionsOf(c) : certVersion[n].status = "ACTIVE"}
InForceOrNone(c) == IF InForce(c) = {} THEN NoVersion ELSE CHOOSE n \in InForce(c) : TRUE
Running(n) == {k \in Trials : trial[k].outcome = "RUNNING" /\ trial[k].version = n}

\* A new version of the credential of the installation, or the first version of a
\* new credential, which the installation will have when a version is activated.
StageVersion(n, environment, production) ==
    /\ certVersion[n].status = "ABSENT"
    /\ \E c \in Certificates :
        /\ IF installed[environment] = NoCertificate THEN VersionsOf(c) = {}
           ELSE c = installed[environment]
        /\ certVersion' = [certVersion EXCEPT ![n] =
             [status |-> "STAGED", credential |-> c, production |-> production,
              over |-> NoVersion]]
    /\ UNCHANGED <<trial, installed, server>>

\* A request to try a version and put it in force at the TEST installation, and at
\* the PRODUCTION installation too if the version allows it.  A request with a key
\* that was answered is answered the same; so is one whose trial is running, unless
\* five minutes went by.
Ask(p, k, n, both) ==
    /\ server[p] = Idle
    /\ certVersion[n].status = "STAGED"
    /\ both => certVersion[n].production
    /\ \/ trial[k].outcome = "ABSENT"
       \/ trial[k].outcome = "RUNNING" /\ trial[k].version = n /\ trial[k].overdue
    /\ server' = [server EXCEPT ![p] =
         [at |-> "ASKED", key |-> k, version |-> n, both |-> both,
          over |-> InForceOrNone(certVersion[n].credential)]]
    /\ UNCHANGED <<certVersion, trial, installed>>

\* Mutant: without the trigger.
Settled_Anyhow(ks, outcome) ==
    [k \in Trials |-> IF k \in ks THEN [trial[k] EXCEPT !.outcome = outcome] ELSE trial[k]]
\* A trial that is no longer running keeps its outcome: a trigger refuses the update.
Settled(ks, outcome) ==
    [k \in Trials |-> IF k \in ks /\ trial[k].outcome = "RUNNING"
                      THEN [trial[k] EXCEPT !.outcome = outcome] ELSE trial[k]]
Overdue(n) == {k \in Running(n) : trial[k].overdue}

\* The trial of its own key, if it was overdue: the answer is that it is unknown.
GiveUpTrial(p) ==
    /\ server[p].at = "ASKED" /\ trial[server[p].key].outcome # "ABSENT"
    /\ trial' = Settled({server[p].key}, "UNKNOWN")
    /\ server' = [server EXCEPT ![p] = Idle]
    /\ UNCHANGED <<certVersion, installed>>

ExpireTrials(p) ==
    /\ server[p].at = "ASKED" /\ trial[server[p].key].outcome = "ABSENT"
    /\ trial' = Settled(Overdue(server[p].version), "UNKNOWN")
    /\ server' = [server EXCEPT ![p].at = "EXPIRED"]
    /\ UNCHANGED <<certVersion, installed>>

\* Unique indexes: one trial of a key, and one running trial of a version.
StartTrial(p) ==
    LET s == server[p] IN
    /\ s.at = "EXPIRED"
    /\ IF trial[s.key].outcome = "ABSENT" /\ Running(s.version) = {}
       THEN /\ trial' = [trial EXCEPT ![s.key] =
                 [outcome |-> "RUNNING", version |-> s.version, overdue |-> FALSE, over |-> s.over]]
            /\ server' = [server EXCEPT ![p].at = "STARTED"]
       ELSE /\ server' = [server EXCEPT ![p] = Idle]
            /\ UNCHANGED trial
    /\ UNCHANGED <<certVersion, installed>>

\* The material is read again; a version that is not staged any more fails.
Probe(p, outcome) ==
    /\ server[p].at = "STARTED"
    /\ certVersion[server[p].version].status # "STAGED" => outcome = "FAILED"
    /\ server' = [server EXCEPT ![p].at = outcome]
    /\ UNCHANGED <<certVersion, trial, installed>>

FailTrial(p) ==
    /\ server[p].at \in {"FAILED", "UNKNOWN"}
    /\ trial' = Settled({server[p].key}, server[p].at)
    /\ server' = [server EXCEPT ![p] = Idle]
    /\ UNCHANGED <<certVersion, installed>>

\* What the activation reads again under the lock of the credential.
Unmoved(p) ==
    /\ certVersion[server[p].version].status = "STAGED"
    /\ InForceOrNone(certVersion[server[p].version].credential) = server[p].over

\* One SERIALIZABLE transaction; the trigger refuses to pass a trial that is not running.
ActivateVersion(p) ==
    LET s == server[p]
        owner == certVersion[s.version].credential
        before == InForce(owner) IN
    /\ s.at = "PASSED" /\ Unmoved(p) /\ trial[s.key].outcome = "RUNNING"
    /\ trial' = [trial EXCEPT ![s.key].outcome = "PASSED"]
    /\ certVersion' = [n \in CertVersions |->
         IF n = s.version
         THEN [certVersion[n] EXCEPT !.status = "ACTIVE", !.over = InForceOrNone(owner)]
         ELSE IF n \in before THEN [certVersion[n] EXCEPT !.status = "RETIRED"]
         ELSE certVersion[n]]
    /\ installed' = [e \in Environments |->
         IF e = "TEST" \/ s.both THEN owner ELSE installed[e]]
    /\ server' = [server EXCEPT ![p] = Idle]

\* The comparison fails, or the transaction does, at any time.
ActivationFails(p) ==
    /\ server[p].at = "PASSED"
    /\ trial' = Settled({server[p].key}, "UNKNOWN")
    /\ server' = [server EXCEPT ![p] = Idle]
    /\ UNCHANGED <<certVersion, installed>>

ServerStops(p) ==
    /\ server[p] # Idle
    /\ server' = [server EXCEPT ![p] = Idle]
    /\ UNCHANGED <<certVersion, trial, installed>>

FiveMinutes(k) ==
    /\ trial[k].outcome = "RUNNING" /\ ~ trial[k].overdue
    /\ trial' = [trial EXCEPT ![k].overdue = TRUE]
    /\ UNCHANGED <<certVersion, installed, server>>

CredentialNext ==
    \/ \E n \in CertVersions, production \in BOOLEAN :
        \/ \E e \in Environments : StageVersion(n, e, production)
        \/ \E p \in Servers, k \in Trials : Ask(p, k, n, production)
    \/ \E p \in Servers :
        \/ GiveUpTrial(p) \/ ExpireTrials(p) \/ StartTrial(p) \/ FailTrial(p)
        \/ ActivateVersion(p) \/ ActivationFails(p) \/ ServerStops(p)
        \/ \E outcome \in {"PASSED", "FAILED", "UNKNOWN"} : Probe(p, outcome)
    \/ \E k \in Trials : FiveMinutes(k)

CredentialSpec == CredentialInit /\ [][CredentialNext]_credentialVars
-----------------------------------------------------------------------------
\* A version was put in force by one trial that passed, in the place of the version
\* that was in force when the trial was asked for, whatever was put in force or given
\* up as too slow meanwhile; and a trial that passed put its version in force.
ByItsTrial ==
    /\ \A n \in CertVersions : certVersion[n].status \in {"ACTIVE", "RETIRED"} =>
        Cardinality({k \in Trials : /\ trial[k].outcome = "PASSED"
                                    /\ trial[k].version = n
                                    /\ trial[k].over = certVersion[n].over}) = 1
    /\ \A k \in Trials : trial[k].outcome = "PASSED" =>
        certVersion[trial[k].version].status \in {"ACTIVE", "RETIRED"}

\* Once an installation has a credential it is never without a version in force.
AlwaysInForce == \A e \in Environments :
    installed[e] # NoCertificate => Cardinality(InForce(installed[e])) = 1

(***************************************************************************)
(* Rotating the certificates loses nothing: see the parts.                 *)
(***************************************************************************)
RotationIsSafe == ByItsTrial /\ AlwaysInForce
==============================================================================
