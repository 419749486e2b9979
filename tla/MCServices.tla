----------------------------- MODULE MCServices -----------------------------
(* Seven parts that share no state here: accounts and tokens, the guards of *)
(* a request, the circuit breaker, notifications, an application in the     *)
(* browser, signing in to a portal and the vault of cookies.  A behaviour   *)
(* is one of one part, chosen at the start.                                 *)
EXTENDS Sessions, HttpGuards, Breaker, Realtime, PortalApply, PortalLogin, CookieVault, TLC

CONSTANTS s1, s2, n1, n2

VARIABLE part

MCSymmetry == Permutations({s1, s2}) \union Permutations({n1, n2})

ServicesInit ==
    /\ part \in {"sessions", "guards", "breaker", "realtime", "apply", "login", "vault"}
    /\ part = "apply" \/ (part # "apply" /\ site = CHOOSE x \in Sites: TRUE)
    /\ part = "login" \/ (part # "login" /\ account = (CHOOSE x \in Accounts: TRUE) /\ jar = FALSE)
    /\ SessionInit /\ GuardInit /\ BreakerInit /\ RealInit
    /\ ApplyInit /\ LoginInit /\ VaultInit

ServicesNext ==
    \/ /\ part = "sessions" /\ SessionNext
       /\ UNCHANGED <<guardVars, breakerVars, realVars, applyVars, loginVars, vaultVars, part>>
    \/ /\ part = "guards" /\ GuardNext
       /\ UNCHANGED <<sessionVars, breakerVars, realVars, applyVars, loginVars, vaultVars, part>>
    \/ /\ part = "breaker" /\ BreakerNext
       /\ UNCHANGED <<sessionVars, guardVars, realVars, applyVars, loginVars, vaultVars, part>>
    \/ /\ part = "realtime" /\ RealNext
       /\ UNCHANGED <<sessionVars, guardVars, breakerVars, applyVars, loginVars, vaultVars, part>>
    \/ /\ part = "apply" /\ ApplyNext
       /\ UNCHANGED <<sessionVars, guardVars, breakerVars, realVars, loginVars, vaultVars, part>>
    \/ /\ part = "login" /\ LoginNext
       /\ UNCHANGED <<sessionVars, guardVars, breakerVars, realVars, applyVars, vaultVars, part>>
    \/ /\ part = "vault" /\ VaultNext
       /\ UNCHANGED <<sessionVars, guardVars, breakerVars, realVars, applyVars, loginVars, part>>

ServicesSpec ==
    ServicesInit /\ [][ServicesNext]_<<sessionVars, guardVars, breakerVars, realVars, applyVars,
                                       loginVars, vaultVars, part>>

(* Every variable of every part keeps its type, and what a request holds    *)
(* was issued, stored or registered before.                                 *)
ServiceTypes ==
    /\ SessionTypes /\ GuardTypes /\ BreakerTypes /\ RealTypes
    /\ ApplyTypes /\ LoginTypes /\ VaultTypes
=============================================================================
