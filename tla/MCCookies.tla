------------------------------ MODULE MCCookies ------------------------------
(***************************************************************************)
(* Small instances of CookieManager for TLC.                               *)
(***************************************************************************)
EXTENDS CookieManager

\* A host of a site and one that is a site itself set cookies.
Hosts == {<<"a", "b", "com">>, <<"b", "co">>}

\* Another host of the first site and one of another site are visited, too.
AllHosts == Hosts \cup {<<"b", "com">>, <<"d", "co">>}

\* What they name as a domain: the names of both, and all of "co"
NamedDomains == {<<"a", "b", "com">>, <<"b", "co">>, <<"co">>}

\* One directory: the cookies of a server differ in their domains.
Paths == {<< >>}

\* A torn line may leave the second site of the first one.
DomainCuts == {<<<<"b", "com">>, <<"b", "co">>>>}
=============================================================================
