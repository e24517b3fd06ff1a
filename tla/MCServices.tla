------------------------------ MODULE MCServices ------------------------------
(* The library's parts that share nothing with one another, checked in one    *)
(* run: `subject` says which of them a behaviour is about; the others stand.  *)
EXTENDS HttpRequest, JsonManager, Database, TLC

CONSTANTS c1, c2, k1, k2, w1, w2

VARIABLES subject, text

servicesVars == <<subject, text, exchangeVars, jsonVars, databaseVars>>

TextsUpTo(n) == UNION {[1..length -> Symbols] : length \in 0..n}

At(host, target) == <<"http", ":", "/", "/">> \o host \o target
Page == <<"/", "h">>
Get(url) == [method |-> "GET", url |-> url]
Post(url) == [method |-> "POST", url |-> url]

RequestsDef ==
    {(c1 :> Get(At(<<"h">>, Page))) @@ (c2 :> Post(At(<<"h", ":", "80">>, Page))),
     (c1 :> Get(At(<<"h">>, <<>>))) @@ (c2 :> Get(<<"https", ":", "/", "/", "h">> \o Page)),
     (c1 :> Get(At(<<"h">>, Page))) @@ (c2 :> Get(Page))}
KeysDef == {<<"GET", Page>>}
PortsDef == {<<"80">>, <<"443">>}
TextsDef == {(Root :> "object") @@ (<<k1>> :> "x") @@ (<<k2>> :> "array") @@ (<<k2, 0>> :> "x")}
ConditionsDef == {{}, {<<1, "x">>}}

Only(name, set) == IF subject = name THEN set ELSE {CHOOSE x \in set : TRUE}

ServicesInit ==
    /\ subject \in {"url", "http", "json", "database"}
    /\ text \in Only("url", TextsUpTo(5))
    /\ ExchangeInit /\ port_ \in Only("http", Ports) /\ request \in Only("http", Requests)
    /\ JsonInit /\ json_ \in Only("json", Texts)
    /\ DatabaseInit

HttpStep == subject = "http" /\ ExchangeNext
JsonStep == subject = "json" /\ JsonNext
DatabaseStep == subject = "database" /\ DatabaseNext

ServicesNext ==
    /\ UNCHANGED <<subject, text>>
    /\ \/ HttpStep /\ UNCHANGED <<jsonVars, databaseVars>>
       \/ JsonStep /\ UNCHANGED <<exchangeVars, databaseVars>>
       \/ DatabaseStep /\ UNCHANGED <<exchangeVars, jsonVars>>

ServicesSpec == ServicesInit /\ [][ServicesNext]_servicesVars /\ ExchangeFairness

\* The variables of the subject keep their types.
ServicesTypeOK == CASE subject = "http" -> ExchangeTypeOK
                    [] subject = "json" -> JsonTypeOK
                    [] subject = "database" -> DatabaseTypeOK
                    [] OTHER -> TRUE

\* Every text is split into parts that give it back, or refused (UrlParser.cpp).
UrlSplitsBack == subject = "url" => SplitsBack(text)
===============================================================================
