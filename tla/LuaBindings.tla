----------------------------- MODULE LuaBindings -----------------------------
(***************************************************************************)
(* The Lua functions that wforce, trackalert and replfwd give to their     *)
(* configuration: wforce/wforce-lua.cc, wforce/wforce-common-lua.cc,       *)
(* common/common-lua.cc, trackalert/trackalert-lua.cc and                  *)
(* wforce/replfwd-lua.cc.                                                  *)
(*                                                                         *)
(* The same file is run in the global Lua state and in every context of    *)
(* the pool, so a function is bound differently in the two kinds of state. *)
(* Per function:                                                           *)
(*   where  "config"  real in the global state, empty in the contexts      *)
(*          "server"  as config, but empty in a client too                 *)
(*          "worker"  real in the contexts, empty in the global state      *)
(*          "both"    real everywhere                                      *)
(*          "shared"  as both, but empty in a client                       *)
(*          "global"  real in the global state, not defined elsewhere      *)
(*          "client"  empty in a client, not defined elsewhere             *)
(*   does   what it changes when it is real, for Setup                     *)
(*   bad    what an argument that cannot be parsed leads to: the function  *)
(*          returns without effect, or throws; "never" if nothing is parsed*)
(***************************************************************************)

Row(where, does, bad, names) ==
    [n \in names |-> [where |-> where, does |-> does, bad |-> bad]]

\* One table of several that have no name in common.
Table(parts) == [n \in UNION {DOMAIN t : t \in parts} |-> (CHOOSE t \in parts : n \in DOMAIN t)[n]]

-----------------------------------------------------------------------------
(***************************************************************************)
(* setupCommonLua: trackalert and wforce.                                  *)
(***************************************************************************)

serverFunctions == Table({
    Row("config", "addACL", "throws", {"addACL"}),
    Row("config", "setACL", "throws", {"setACL"}),
    Row("config", "states", "never", {"setNumLuaStates"}),
    Row("config", "setting", "never", {"setNumWorkerThreads", "setMaxWebserverConns", "setMetricsNoPassword"}),
    Row("config", "output", "never", {"showACL"}),
    Row("both", "log", "never", {"debugLog", "vinfoLog", "infoLog", "warnLog", "errorLog"})})

\* NetmaskGroup's size and clear go to g_lua whichever state is set up.
objectFunctions == Table({
    Row("both", "value", "never",
        {"t", "remote", "login", "pwhash", "success", "policy_reject", "attrs", "attrs_mv", "protocol", "tls",
         "device_id", "device_attrs", "session_id", "fail_type", "tostring", "isIPv6", "isIPv4", "isMappedIPv4",
         "newNetmaskFromCA", "toStringNetwork", "newNetmaskGroup", "match"}),
    Row("both", "value", "ignored", {"newCA", "newNetmask"}),
    Row("both", "value", "throws", {"addMask"}),
    Row("global", "value", "never", {"size", "clear"})})

statFunctions == Table({
    Row("config", "setting", "never", {"addCustomStat"}),
    Row("worker", "count", "never", {"incCustomStat"}),
    Row("config", "output", "never", {"showPerfStats", "showCommandStats", "showCustomStats"})})

hookFunctions == Table({
    Row("config", "setting", "never", {"setNumWebHookThreads", "setWebHookQueueSize", "setNumWebHookConnsPerThread",
                                       "setWebHookTimeoutSecs"}),
    Row("config", "output", "never", {"showCustomWebHooks", "makeKey"}),
    Row("worker", "post", "never", {"runCustomWebHook"}),
    Row("server", "hook", "ignored", {"addCustomWebHook"})})

\* An error while a database is opened is caught and only reported.
geoipFunctions == Table({
    Row("config", "geoip", "ignored", {"initGeoIPDB", "initGeoIPCityDB", "initGeoIPISPDB", "reloadGeoIPDBs", "newGeoIP2DB"}),
    Row("both", "value", "never",
        {"lookupCountry", "lookupCity", "lookupISP", "getGeoIP2DB", "lookupStringValue", "lookupUIntValue",
         "lookupBoolValue", "lookupDoubleValue", "country_code", "country_name", "region", "city", "postal_code",
         "continent_code", "latitude", "longitude"})})

CommonLua == Table({serverFunctions, objectFunctions, statFunctions, hookFunctions, geoipFunctions})

-----------------------------------------------------------------------------
(***************************************************************************)
(* setupWforceCommonLua: trackalert and wforce.                            *)
(***************************************************************************)

\* A control socket that cannot be bound ends the process.
listenFunctions == Table({
    Row("both", "shutdown", "never", {"shutdown"}),
    Row("config", "web", "ignored", {"addListener"}),
    Row("config", "control", "ignored", {"controlSocket"})})

curlFunctions ==
    Row("config", "setting", "never", {"disableCurlPeerVerification", "disableCurlHostVerification",
                                       "setCurlCABundleFile", "setCurlClientCertAndKey"})

WforceCommonLua == Table({listenFunctions, curlFunctions})

-----------------------------------------------------------------------------
(***************************************************************************)
(* setupLua of wforce.                                                     *)
(***************************************************************************)

\* setJA3AttrName has no empty counterpart.
ja3Functions == Row("global", "setting", "never", {"setJA3AttrName"})

reportSinkFunctions ==
    Row("server", "sibling", "ignored", {"addReportSink", "setReportSinks", "addNamedReportSink", "setNamedReportSinks"})

\* addSyncHost keeps the host even if the other addresses cannot be parsed.
syncFunctions == Table({
    Row("server", "setting", "half", {"addSyncHost"}),
    Row("config", "setting", "never", {"setMinSyncHostUptime", "setMaxSiblingQueueSize"})})

siblingFunctions == Table({
    Row("server", "sibling", "ignored", {"addSibling", "addSiblingWithKey", "setSiblings", "setSiblingsWithKey"}),
    Row("server", "setting", "ignored", {"removeSibling"}),
    Row("server", "setting", "never", {"setSiblingConnectTimeout"}),
    Row("server", "replication", "ignored", {"siblingListener"})})

webFunctions == Table({
    Row("config", "web", "ignored", {"webserver"}),
    Row("config", "setting", "never", {"setWebserverPassword", "setNumSiblingThreads"}),
    Row("config", "output", "never", {"stats", "siblings", "showReportSinks", "showNamedReportSinks"})})

\* A resolver is looked up and added to in every state.
dnsFunctions == Table({
    Row("config", "resolver", "never", {"newDNSResolver"}),
    Row("both", "resolver", "throws", {"addResolver"}),
    Row("both", "setting", "never", {"setRequestTimeout", "setNumContexts"}),
    Row("both", "value", "never", {"getDNSResolver", "lookupAddrByName", "lookupNameByAddr", "lookupRBL"}),
    Row("config", "output", "never", {"showAddrByName", "showNameByAddr", "showRBL"})})

statsDBFunctions == Table({
    Row("config", "db", "never", {"newStringStatsDB", "newShardedStringStatsDB"}),
    Row("both", "value", "never", {"getStringStatsDB", "twGet", "twGetCurrent", "twGetWindows", "twGetv4Prefix",
                                   "twGetv6Prefix", "twGetSize", "twGetName"}),
    Row("both", "entry", "never", {"twAdd", "twSub", "twReset", "twResetField"}),
    Row("both", "setting", "never", {"twSetv4Prefix", "twSetv6Prefix", "twSetMaxSize", "twEnableReplication",
                                     "twSetExpireSleep"}),
    Row("config", "output", "never", {"showStringStatsDB"})})

\* getIPLoginBlacklist is registered twice, the second time for the IP-JA3
\* entries; getIPJA3Blacklist exists only as the empty function of a client.
blacklistFunctions == Table({
    Row("config", "setting", "never", {"disableBuiltinBlacklists"}),
    Row("shared", "entry", "never",
        {"blacklistNetmask", "blacklistIP", "blacklistLogin", "blacklistIPLogin", "blacklistJA3", "blacklistIPJA3",
         "unblacklistNetmask", "unblacklistIP", "unblacklistLogin", "unblacklistIPLogin", "unblacklistJA3",
         "unblacklistIPJA3"}),
    Row("shared", "value", "never",
        {"checkBlacklistIP", "checkBlacklistLogin", "checkBlacklistIPLogin", "checkBlacklistJA3",
         "checkBlacklistIPJA3", "getIPBlacklist", "getLoginBlacklist", "getIPLoginBlacklist", "getJA3Blacklist",
         "getBlacklistIPRetMsg", "getBlacklistLoginRetMsg", "getBlacklistIPLoginRetMsg", "getBlacklistJA3RetMsg",
         "getBlacklistIPJA3RetMsg"}),
    Row("client", "value", "never", {"getIPJA3Blacklist"})})

blacklistPersistFunctions == Table({
    Row("config", "persist", "never", {"blacklistPersistDB"}),
    Row("config", "setting", "never",
        {"blacklistRedisUsername", "blacklistRedisPassword", "blacklistPersistReplicated",
         "blacklistPersistConnectTimeout", "blacklistPersistRWTimeout", "setBlacklistIPRetMsg",
         "setBlacklistLoginRetMsg", "setBlacklistIPLoginRetMsg", "setBlacklistJA3RetMsg", "setBlacklistIPJA3RetMsg"})})

whitelistFunctions == Table({
    Row("config", "setting", "never", {"disableBuiltinWhitelists"}),
    Row("shared", "entry", "never",
        {"whitelistNetmask", "whitelistIP", "whitelistLogin", "whitelistIPLogin", "whitelistJA3", "whitelistIPJA3",
         "unwhitelistNetmask", "unwhitelistIP", "unwhitelistLogin", "unwhitelistIPLogin", "unwhitelistJA3",
         "unwhitelistIPJA3"}),
    Row("shared", "value", "never",
        {"checkWhitelistIP", "checkWhitelistLogin", "checkWhitelistIPLogin", "checkWhitelistJA3",
         "checkWhitelistIPJA3", "getIPWhitelist", "getLoginWhitelist", "getIPLoginWhitelist", "getJA3Whitelist",
         "getIPJA3Whitelist"})})

whitelistPersistFunctions == Table({
    Row("config", "persist", "never", {"whitelistPersistDB"}),
    Row("config", "setting", "never",
        {"whitelistRedisUsername", "whitelistRedisPassword", "whitelistPersistReplicated",
         "whitelistPersistConnectTimeout", "whitelistPersistRWTimeout"})})

callbackFunctions == Table({
    Row("worker", "callback", "never", {"setAllow", "setReport", "setReset", "setCanonicalize"}),
    Row("config", "setting", "never", {"setVerboseAllowLog"})})

\* Every state keeps the function; the global one also registers the command.
endpointFunctions == Table({
    Row("both", "endpoint", "never", {"setCustomEndpoint", "setCustomGetEndpoint"}),
    Row("config", "output", "never", {"showCustomEndpoints"})})

webHookFunctions == Table({
    Row("config", "output", "never", {"showWebHooks", "showVersion"}),
    Row("server", "hook", "ignored", {"addWebHook"})})

keyFunctions == Table({
    Row("config", "setting", "ignored", {"setKey"}),
    Row("config", "output", "never", {"testCrypto"}),
    Row("config", "setting", "never", {"setHLLBits", "setCountMinBits"})})

WforceLua == Table({
    CommonLua, WforceCommonLua, ja3Functions, reportSinkFunctions, syncFunctions, siblingFunctions,
    webFunctions, dnsFunctions, statsDBFunctions, blacklistFunctions, blacklistPersistFunctions,
    whitelistFunctions, whitelistPersistFunctions, callbackFunctions, endpointFunctions, webHookFunctions,
    keyFunctions})

-----------------------------------------------------------------------------
(***************************************************************************)
(* setupLua of trackalert and of replfwd, which has no contexts.           *)
(***************************************************************************)

trackalertServerFunctions == Table({
    Row("config", "web", "ignored", {"webserver"}),
    Row("config", "setting", "never", {"setWebserverPassword"}),
    Row("config", "output", "never", {"stats", "setNumReportThreads"})})

\* A duration that cannot be parsed is thrown as an error, and so is a bad cron
\* line, by Bosma::Cron.
backgroundFunctions == Table({
    Row("worker", "callback", "never", {"setReport", "setBackground"}),
    Row("config", "setting", "never", {"setNumSchedulerThreads"}),
    Row("server", "task", "throws", {"cronScheduleBackgroundFunc", "intervalScheduleBackgroundFunc"}),
    Row("both", "value", "ignored", {"durationToSeconds"})})

trackalertEndpointFunctions == Table({
    Row("both", "endpoint", "never", {"setCustomEndpoint"}),
    Row("config", "output", "never", {"showCustomEndpoints", "showVersion", "testCrypto"}),
    Row("config", "setting", "ignored", {"setKey"})})

TrackalertLua == Table({
    CommonLua, WforceCommonLua, trackalertServerFunctions, backgroundFunctions, trackalertEndpointFunctions})

\* The sources of the forwarder are siblings that nothing is sent to.
replfwdSiblingFunctions == Table({
    Row("both", "addACL", "throws", {"addACL"}),
    Row("both", "setACL", "throws", {"setACL"}),
    Row("both", "setting", "ignored", {"setKey", "removeReplicationForwarderDest", "removeReplicationForwarderSrc",
                                       "setReplicationForwarderSrcs", "addReplicationForwarderSrc"}),
    Row("both", "sibling", "ignored", {"addReplicationForwarderDest", "addReplicationForwarderDestWithKey",
                                       "setReplicationForwarderDestsWithKey", "addSibling", "addSiblingWithKey",
                                       "setSiblings", "setSiblingsWithKey"}),
    Row("both", "setting", "never", {"setSiblingConnectTimeout", "setMaxSiblingQueueSize"})})

replfwdListenFunctions == Table({
    Row("both", "replication", "ignored", {"siblingListener"}),
    Row("both", "web", "ignored", {"webserver", "addListener"}),
    Row("both", "setting", "never", {"setMetricsNoPassword", "setWebserverPassword", "setNumSiblingThreads"})})

ReplfwdLua == Table({replfwdSiblingFunctions, replfwdListenFunctions})

-----------------------------------------------------------------------------
Daemons == {"wforce", "trackalert", "replfwd"}

LuaFunctions(daemon) ==
    CASE daemon = "wforce" -> WforceLua [] daemon = "trackalert" -> TrackalertLua [] daemon = "replfwd" -> ReplfwdLua

IsBound(daemon, f) == f \in DOMAIN LuaFunctions(daemon)

\* mutant: the functions of the configuration are real in the contexts as well
BindingIgnoringMulti(where, client, multi_lua) ==
    CASE where = "config" -> "real"
      [] where = "server" -> IF client THEN "empty" ELSE "real"
      [] where = "worker" -> IF multi_lua THEN "real" ELSE "empty"
      [] where = "both" -> "real"
      [] where = "shared" -> IF client THEN "empty" ELSE "real"
      [] where = "global" -> IF multi_lua THEN "undefined" ELSE "real"
      [] where = "client" -> IF client THEN "empty" ELSE "undefined"

\* What the name of a function stands for in one kind of Lua state.
Binding(where, client, multi_lua) ==
    CASE where = "config" -> IF multi_lua THEN "empty" ELSE "real"
      [] where = "server" -> IF multi_lua \/ client THEN "empty" ELSE "real"
      [] where = "worker" -> IF multi_lua THEN "real" ELSE "empty"
      [] where = "both" -> "real"
      [] where = "shared" -> IF client THEN "empty" ELSE "real"
      [] where = "global" -> IF multi_lua THEN "undefined" ELSE "real"
      [] where = "client" -> IF client THEN "empty" ELSE "undefined"
=============================================================================
