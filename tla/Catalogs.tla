------------------------------ MODULE Catalogs ------------------------------
(***************************************************************************)
(* What the seven analyzers' investigation profiles say: which checks a    *)
(* symptom and a question call for, and which questions a reply suggests   *)
(* next (plugins/*/profile.go, plugins/k8s/symptoms.go and converse.go).   *)
(*                                                                         *)
(* When a symptom matches is left to the planner's instances; the causes   *)
(* that a symptom suggests, their weights and all wording are left out.    *)
(* Checks are listed by priority: level 1 first, and in the order of the   *)
(* source within a level.                                                  *)
(***************************************************************************)
EXTENDS Integers, Sequences, TLC

Ranked(checks) == [i \in DOMAIN checks |-> <<checks[i]>>]

\* Symptom.Key and Checks.  The last row of every catalog is its Fallback.
Row(key, checks) == [key |-> key, checks |-> checks]

\* A suggested question: the intents it is not suggested for, and the intents
\* that ClassifyIntent finds in its words.
Question(unless, classified) == [unless |-> unless, classified |-> classified]

\* A suggestion that is understood as what it stands for.
Plain(intent) == Question({intent}, <<intent>>)

\* Intents in the order of the patterns; "timeline" and "refresh" ask for no check.
CommonIntents == <<"previous-logs", "comparison", "rca", "history">>

General == <<"general">>

---------------------------------------------------------------------------
(* K8s                                                                     *)

K8sSymptoms == <<
    Row("oom-killed", <<<<"owner-chain">>, <<"metrics", "change-history">>,
      <<"node-detail">>, <<"scaling">>>>),
    Row("image-pull", Ranked(<<"secrets", "owner-chain", "change-history">>)),
    Row("crashloop", <<<<"previous-logs">>, <<"owner-chain", "change-history">>,
      <<"configmaps">>, <<"secrets">>>>),
    Row("probe-failure", Ranked(<<"owner-chain", "service-endpoints",
      "previous-logs">>)),
    Row("pending-unschedulable", Ranked(<<"node-detail", "namespace-detail",
      "storage-chain", "scaling">>)),
    Row("evicted", Ranked(<<"node-detail", "namespace-detail", "metrics">>)),
    Row("pvc-stuck", Ranked(<<"storage-chain", "namespace-detail">>)),
    Row("dns-failure", Ranked(<<"dns-heuristic", "netpol",
      "service-endpoints">>)),
    Row("http-5xx", <<<<"service-endpoints">>, <<"related-services",
      "change-history">>, <<"netpol">>>>),
    Row("db-error", <<<<"related-services">>, <<"netpol", "change-history">>,
      <<"secrets">>>>),
    Row("unknown-unhealthy", Ranked(<<"previous-logs", "owner-chain",
      "change-history">>))>>

K8sIntentChecks ==
       "previous-logs" :> Ranked(<<"previous-logs">>)
    @@ "deploy-correlation" :> Ranked(<<"change-history", "owner-chain">>)
    @@ "comparison" :> Ranked(<<"change-history", "history">>)
    @@ "db-connectivity" :> Ranked(<<"related-services", "netpol", "secrets">>)
    @@ "resource-usage" :> Ranked(<<"metrics", "owner-chain", "node-detail">>)
    @@ "node-pressure" :> Ranked(<<"node-detail">>)
    @@ "configmap" :> Ranked(<<"configmaps">>)
    @@ "secret" :> Ranked(<<"secrets">>)
    @@ "dns" :> Ranked(<<"dns-heuristic", "netpol">>)
    @@ "rca" :> Ranked(<<"previous-logs", "change-history", "owner-chain",
         "history">>)
    @@ "related-services" :> Ranked(<<"service-endpoints", "related-services">>)
    @@ "ingress" :> Ranked(<<"service-endpoints", "related-services">>)
    @@ "storage" :> Ranked(<<"storage-chain">>)
    @@ "rbac-question" :> Ranked(<<"rbac">>)
    @@ "quota" :> Ranked(<<"namespace-detail">>)
    @@ "scaling" :> Ranked(<<"scaling">>)
    @@ "history" :> Ranked(<<"history">>)
    @@ "vpa" :> Ranked(<<"vpa">>)

K8sIntents == CommonIntents \o <<"deploy-correlation", "db-connectivity",
    "resource-usage", "node-pressure", "configmap", "secret", "dns", "related-services",
    "ingress", "storage", "rbac-question", "quota", "scaling", "vpa">>

\* The first one only for a pod without limits.
suggestFollowUps == <<
    Plain("resource-usage"),
    Question({"deploy-correlation", "comparison"}, <<"deploy-correlation">>),
    Plain("previous-logs"), Plain("db-connectivity"), Plain("node-pressure"),
    Plain("rca")>>

---------------------------------------------------------------------------
(* Syslog                                                                  *)

SyslogSymptoms == <<
    Row("oom-kill", <<<<"corpus-oom">>, <<"corpus-window", "sys-memory">>,
      <<"journal-unit">>, <<"history">>>>),
    Row("disk-full", Ranked(<<"corpus-disk", "sys-disk", "corpus-window">>)),
    Row("service-failure", <<<<"svc-status">>, <<"journal-unit", "svc-failed">>,
      <<"corpus-window">>, <<"history">>>>),
    Row("auth-failure", Ranked(<<"corpus-auth", "corpus-frequency", "auth-log",
      "login-history">>)),
    Row("kernel-issue", Ranked(<<"corpus-kernel", "kernel-ring", "corpus-window",
      "sys-memory">>)),
    Row("unknown-degraded", Ranked(<<"corpus-frequency", "corpus-window",
      "svc-failed", "history">>))>>

SyslogIntentChecks ==
       "disk" :> Ranked(<<"sys-disk", "corpus-disk">>)
    @@ "auth" :> Ranked(<<"corpus-auth", "auth-log", "login-history">>)
    @@ "memory" :> Ranked(<<"sys-memory", "corpus-oom">>)
    @@ "services" :> Ranked(<<"svc-failed", "svc-status">>)
    @@ "kernel" :> Ranked(<<"kernel-ring", "corpus-kernel">>)
    @@ "dns" :> Ranked(<<"corpus-window">>)
    @@ "previous-logs" :> Ranked(<<"corpus-window">>)
    @@ "comparison" :> Ranked(<<"history", "corpus-frequency">>)
    @@ "history" :> Ranked(<<"history", "corpus-frequency">>)
    @@ "rca" :> Ranked(<<"history", "corpus-frequency">>)

SyslogIntents ==
    CommonIntents \o <<"disk", "auth", "memory", "services", "kernel", "dns">>

\* "Review authentication failures" has none of \bauth\b, login, password, brute.
suggestSyslogFollowUps == <<
    Plain("services"), Plain("memory"), Plain("disk"), Question({"auth"}, General),
    Plain("kernel"), Plain("rca")>>

---------------------------------------------------------------------------
(* Httplog                                                                 *)

HttplogSymptoms == <<
    Row("burst-5xx", <<<<"corpus-5xx">>, <<"http-error-log", "corpus-window">>,
      <<"stats-summary">>, <<"history">>>>),
    Row("latency-degradation", Ranked(<<"corpus-slow", "stats-summary",
      "sys-memory", "sys-disk">>)),
    Row("upstream-failure", Ranked(<<"corpus-upstream", "http-error-log",
      "corpus-frequency">>)),
    Row("tls-error", Ranked(<<"corpus-tls", "http-error-log", "cert-expiry">>)),
    Row("client-4xx-spike", Ranked(<<"corpus-frequency", "stats-summary">>)),
    Row("traffic-anomaly", Ranked(<<"stats-summary", "corpus-frequency",
      "history">>))>>

HttplogIntentChecks ==
       "latency" :> Ranked(<<"corpus-slow", "stats-summary">>)
    @@ "upstream" :> Ranked(<<"corpus-upstream", "http-error-log">>)
    @@ "tls" :> Ranked(<<"corpus-tls", "cert-expiry">>)
    @@ "clients" :> Ranked(<<"stats-summary">>)
    @@ "errors" :> Ranked(<<"corpus-5xx", "corpus-frequency">>)
    @@ "previous-logs" :> Ranked(<<"corpus-window">>)
    @@ "comparison" :> Ranked(<<"history">>)
    @@ "history" :> Ranked(<<"history">>)
    @@ "rca" :> Ranked(<<"history">>)

HttplogIntents == CommonIntents \o <<"latency", "upstream", "tls", "clients", "errors">>

\* "Show the 5xx errors", only if there are some, is not a \b5\d\d\b.
httplogSuggestFollowUps == <<
    Question({"errors"}, General), Plain("latency"), Plain("upstream"),
    Plain("clients"), Plain("rca")>>

---------------------------------------------------------------------------
(* Eventlog                                                                *)

EventlogSymptoms == <<
    Row("service-crash", <<<<"corpus-svc">>, <<"svc-status", "corpus-window">>,
      <<"svc-failed">>, <<"history">>>>),
    Row("auth-failure", Ranked(<<"corpus-auth", "corpus-frequency",
      "login-history">>)),
    Row("update-failure", Ranked(<<"corpus-update", "sys-disk",
      "corpus-window">>)),
    Row("unexpected-reboot", Ranked(<<"corpus-reboot", "sys-uptime",
      "corpus-window", "history">>)),
    Row("disk-error", Ranked(<<"sys-disk", "corpus-window">>)),
    Row("unknown-events", Ranked(<<"corpus-frequency", "corpus-window",
      "svc-failed", "history">>))>>

EventlogIntentChecks ==
       "services" :> Ranked(<<"corpus-svc", "svc-failed">>)
    @@ "auth" :> Ranked(<<"corpus-auth", "login-history">>)
    @@ "updates" :> Ranked(<<"corpus-update">>)
    @@ "reboot" :> Ranked(<<"corpus-reboot", "sys-uptime">>)
    @@ "disk" :> Ranked(<<"sys-disk">>)
    @@ "tasks" :> Ranked(<<"scheduled-tasks">>)
    @@ "firewall" :> Ranked(<<"firewall-state">>)
    @@ "previous-logs" :> Ranked(<<"corpus-window">>)
    @@ "comparison" :> Ranked(<<"history">>)
    @@ "history" :> Ranked(<<"history">>)
    @@ "rca" :> Ranked(<<"history">>)

EventlogIntents == CommonIntents \o
    <<"services", "auth", "updates", "reboot", "disk", "tasks", "firewall">>

eventlogFollowUps == <<
    Plain("services"), Plain("auth"), Plain("updates"), Plain("reboot"),
    Plain("disk"), Plain("rca")>>

---------------------------------------------------------------------------
(* Iis                                                                     *)

IisSymptoms == <<
    Row("pool-failure", <<<<"corpus-503">>, <<"iis-apppools">>, <<"sys-memory",
      "corpus-window">>, <<"history">>>>),
    Row("burst-5xx", <<<<"corpus-5xx">>, <<"stats-summary">>, <<"iis-apppools",
      "corpus-window">>>>),
    Row("slow-requests", Ranked(<<"corpus-slow", "stats-summary", "sys-disk",
      "sys-memory">>)),
    Row("auth-4xx", Ranked(<<"corpus-frequency", "stats-summary">>)),
    Row("site-anomaly", Ranked(<<"stats-summary", "corpus-frequency",
      "history">>))>>

IisIntentChecks ==
       "pools" :> Ranked(<<"iis-apppools", "corpus-503">>)
    @@ "errors" :> Ranked(<<"corpus-5xx", "corpus-frequency">>)
    @@ "latency" :> Ranked(<<"corpus-slow", "stats-summary">>)
    @@ "auth" :> Ranked(<<"corpus-frequency", "stats-summary">>)
    @@ "sites" :> Ranked(<<"stats-summary", "svc-status">>)
    @@ "previous-logs" :> Ranked(<<"corpus-window">>)
    @@ "comparison" :> Ranked(<<"history">>)
    @@ "history" :> Ranked(<<"history">>)
    @@ "rca" :> Ranked(<<"history">>)

IisIntents == CommonIntents \o <<"pools", "errors", "latency", "auth", "sites">>

iisSuggestFollowUps == <<
    Question({"errors"}, General), Plain("pools"), Plain("latency"),
    Question({"history", "comparison"}, <<"comparison", "history">>), Plain("rca")>>

---------------------------------------------------------------------------
(* Logs                                                                    *)

LogsSymptoms == <<
    Row("error-burst", Ranked(<<"corpus-errors", "corpus-frequency",
      "corpus-window", "history">>)),
    Row("exception-cluster", Ranked(<<"corpus-errors", "corpus-window">>)),
    Row("timeout-cluster", Ranked(<<"corpus-timeouts", "corpus-frequency">>)),
    Row("log-anomaly", Ranked(<<"stats-summary", "corpus-frequency">>))>>

LogsIntentChecks ==
       "errors" :> Ranked(<<"corpus-errors", "corpus-frequency">>)
    @@ "timeouts" :> Ranked(<<"corpus-timeouts", "corpus-frequency">>)
    @@ "previous-logs" :> Ranked(<<"corpus-window">>)
    @@ "comparison" :> Ranked(<<"history", "corpus-frequency">>)
    @@ "history" :> Ranked(<<"history", "corpus-frequency">>)
    @@ "rca" :> Ranked(<<"history", "corpus-frequency">>)

LogsIntents == CommonIntents \o <<"errors", "timeouts">>

\* "Show the lines before the worst error" asks for errors in its last word.
logsSuggestFollowUps == <<
    Plain("errors"), Plain("timeouts"), Question({"previous-logs"}, <<"errors">>),
    Question({"history", "comparison"}, <<"comparison", "history">>), Plain("rca")>>

---------------------------------------------------------------------------
(* Cloudtrail                                                              *)

CloudtrailSymptoms == <<
    Row("root-account-usage", Ranked(<<"corpus-root", "stats-summary",
      "history">>)),
    Row("access-denied-spike", Ranked(<<"corpus-denied", "corpus-window",
      "stats-summary", "history">>)),
    Row("console-login-failure", Ranked(<<"corpus-login-fail",
      "corpus-frequency", "history">>)),
    Row("resource-deletion", Ranked(<<"corpus-deletion", "corpus-window",
      "history">>)),
    Row("privilege-escalation", Ranked(<<"corpus-privesc", "stats-summary",
      "history">>)),
    Row("unknown-activity", Ranked(<<"stats-summary", "corpus-frequency",
      "history">>))>>

CloudtrailIntentChecks ==
       "access-denied" :> Ranked(<<"corpus-denied", "corpus-frequency">>)
    @@ "root-usage" :> Ranked(<<"corpus-root">>)
    @@ "deletion" :> Ranked(<<"corpus-deletion", "corpus-window">>)
    @@ "login" :> Ranked(<<"corpus-login-fail">>)
    @@ "privesc" :> Ranked(<<"corpus-privesc">>)
    @@ "previous-logs" :> Ranked(<<"corpus-window">>)
    @@ "comparison" :> Ranked(<<"history", "corpus-frequency">>)
    @@ "history" :> Ranked(<<"history", "corpus-frequency">>)
    @@ "rca" :> Ranked(<<"history", "corpus-frequency">>)

CloudtrailIntents == CommonIntents \o
    <<"access-denied", "root-usage", "deletion", "login", "privesc">>

\* "List every resource deletion" has none of delete, terminat, remov.
suggestCloudTrailFollowUps == <<
    Plain("access-denied"), Plain("root-usage"), Question({"deletion"}, General),
    Plain("privesc"), Plain("rca")>>

---------------------------------------------------------------------------

Profile(symptoms, intents, checks, questions) ==
    [symptoms |-> symptoms, intents |-> intents, checks |-> checks,
     questions |-> questions]

Profiles ==
       "k8s" :> Profile(K8sSymptoms, K8sIntents, K8sIntentChecks,
         suggestFollowUps)
    @@ "syslog" :> Profile(SyslogSymptoms, SyslogIntents, SyslogIntentChecks,
         suggestSyslogFollowUps)
    @@ "httplog" :> Profile(HttplogSymptoms, HttplogIntents, HttplogIntentChecks,
         httplogSuggestFollowUps)
    @@ "eventlog" :> Profile(EventlogSymptoms, EventlogIntents, EventlogIntentChecks,
         eventlogFollowUps)
    @@ "iis" :> Profile(IisSymptoms, IisIntents, IisIntentChecks,
         iisSuggestFollowUps)
    @@ "logs" :> Profile(LogsSymptoms, LogsIntents, LogsIntentChecks,
         logsSuggestFollowUps)
    @@ "cloudtrail" :> Profile(CloudtrailSymptoms, CloudtrailIntents, CloudtrailIntentChecks,
         suggestCloudTrailFollowUps)
=============================================================================
