----------------------------- MODULE MCServices -----------------------------
(***************************************************************************)
(* The services of the main process and of its workers: triage, the client  *)
(* of the language models, the interceptor, the proxy process, the crawl    *)
(* engine, the intruder and the reports.  They share no state that is       *)
(* modelled: one of them at a time moves.                                  *)
(***************************************************************************)
EXTENDS Triage, LlmClient, Interceptor, ProxyProcess, CrawlEngine, Intruder,
        Reports

CONSTANT Parts
VARIABLE part

(* Three seeds, one of them given twice, the links of whose pages overlap; *)
(* y? is y with a query.                                                   *)
MCUrls == {"s1", "s2", "s3", "x", "y", "y?", "z", "out"}
MCPathOf == [u \in MCUrls |-> IF u = "y?" THEN "y" ELSE u]
MCLinks == [u \in MCUrls |->
  CASE u = "s1" -> <<"x", "out">>
    [] u = "s3" -> <<"y?", "y">>
    [] u = "x"  -> <<"y", "s2">>
    [] u = "y"  -> <<"z">>
    [] u = "y?" -> <<"z", "x">>
    [] OTHER    -> <<>>]
MCSeeds == <<"s1", "s2", "s3", "s1">>
MCInScope == MCUrls \ {"out"}
MCChain == <<"local", "cloud">>
MCBases == <<"x", "y">>
MCWords == <<"u", "v">>

Reported(spot, rank, confirmed, refs) ==
  [spot |-> spot, rank |-> rank, confirmed |-> confirmed, refs |-> refs]
MCFindings ==
  {Reported("p", 2, FALSE, {"cve10"}), Reported("p", UnknownRank, TRUE, {}),
   Reported("q", UnknownRank, FALSE, {}), Reported("q", 0, TRUE, {"cve1"})}
MCAskedFormats == {{}, {"md", "pdf"}}
(* CVE-2021-1234 is the beginning of CVE-2021-12340. *)
MCInside == [r \in {"cve1", "cve10"} |-> {"cve1", r}]

servicesVars ==
  <<part, triageVars, llmVars, interceptorVars, proxyVars, crawlVars, intruderVars,
    reportVars>>

(* What is chosen at first is fixed where the part does not move. *)
ServicesInit ==
  /\ part \in Parts
  /\ TriageInit /\ LlmInit /\ InterceptorInit /\ ProxyInit /\ CrawlInit
  /\ IntruderInit /\ ReportsInit
  /\ part # "crawl" => concurrency = 1 /\ allowed = InScope
  /\ part # "triage" => mode = "enrich"
  /\ part # "intruder" => \A a \in Attacks : attack[a].mode = "sniper" /\ attack[a].braces
  /\ part # "reports" => activeName = CHOOSE s \in ReportSessions : TRUE

ServicesNext ==
  \/ /\ part = "triage" /\ TriageNext
     /\ UNCHANGED <<part, llmVars, interceptorVars, proxyVars, crawlVars,
                    intruderVars, reportVars>>
  \/ /\ part = "llm" /\ LlmNext
     /\ UNCHANGED <<part, triageVars, interceptorVars, proxyVars, crawlVars,
                    intruderVars, reportVars>>
  \/ /\ part = "interceptor" /\ InterceptorNext
     /\ UNCHANGED <<part, triageVars, llmVars, proxyVars, crawlVars,
                    intruderVars, reportVars>>
  \/ /\ part = "proxy" /\ ProxyNext
     /\ UNCHANGED <<part, triageVars, llmVars, interceptorVars, crawlVars,
                    intruderVars, reportVars>>
  \/ /\ part = "crawl" /\ CrawlNext
     /\ UNCHANGED <<part, triageVars, llmVars, interceptorVars, proxyVars,
                    intruderVars, reportVars>>
  \/ /\ part = "intruder" /\ IntruderNext
     /\ UNCHANGED <<part, triageVars, llmVars, interceptorVars, proxyVars,
                    crawlVars, reportVars>>
  \/ /\ part = "reports" /\ ReportsNext
     /\ UNCHANGED <<part, triageVars, llmVars, interceptorVars, proxyVars,
                    crawlVars, intruderVars>>

ServicesSpec == ServicesInit /\ [][ServicesNext]_servicesVars

ServicesTypeOK ==
  /\ TriageTypeOK /\ LlmTypeOK
  /\ InterceptorTypeOK /\ ProxyTypeOK /\ CrawlTypeOK
  /\ IntruderTypeOK /\ ReportsTypeOK
=============================================================================
