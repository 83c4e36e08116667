---------------------------- MODULE AppServices -----------------------------
(***************************************************************************)
(* The services of a web site: ServiceManager with the factory methods of  *)
(* App/ServiceManager.php and App/Web/ServiceManager.php.  A factory asks  *)
(* for what its body and the setServiceManager() of the object it makes    *)
(* take from the manager; what closures take later is not asked here.  The *)
(* services that ask for nothing and that nobody asks for are left out     *)
(* (appInitializer, request, session, messenger, routeMetaProvider).       *)
(***************************************************************************)
EXTENDS ServiceManager

\* Set by App::mkServiceManager() before anything is asked for.
SitePreset == {"app", "siteConf"}

\* Mutant: the iterator of the modules is given a logger.
IteratorLogs ==
  [backendModuleIterator |-> <<"siteConf", "errorLogger">>,
   backendModuleIndexer  |-> <<"backendModuleIterator", "siteConf">>,
   backendModuleIndex    |-> <<"backendModuleIndexer">>]

ModuleIndexing ==
  [backendModuleIterator |-> <<"siteConf">>,
   backendModuleIndexer  |-> <<"backendModuleIterator", "siteConf">>,
   backendModuleIndex    |-> <<"backendModuleIndexer">>]

Dispatching ==
  [dispatcher           |-> <<"backendModuleIndex", "resultRenderer", "dispatchErrorHandler">>,
   resultRenderer       |-> <<>>,
   dispatchErrorHandler |-> <<>>]

Routing ==
  [router      |-> <<"routerCache">>,
   routerCache |-> <<"siteConf">>]

Reporting ==
  [errorHandler |-> <<"errorLogger">>,
   errorLogger  |-> <<"backendModuleIndex", "siteConf">>,
   debugLogger  |-> <<"backendModuleIndex", "siteConf">>]

Rendering ==
  [templateEngine              |-> <<"templateEnginePluginFactory">>,
   templateEnginePluginFactory |-> <<>>]

Factories == {ModuleIndexing, Dispatching, Routing, Reporting, Rendering}

SiteDeps ==
  [id \in UNION {DOMAIN f : f \in Factories} |->
     (CHOOSE f \in Factories : id \in DOMAIN f)[id]]

SiteIds == DOMAIN SiteDeps \cup SitePreset

SiteInit ==
  /\ deps = SiteDeps
  /\ aliases = <<>>
  /\ services = SitePreset /\ loading = {}
  /\ stack = <<>> /\ want = None
  /\ outcome = "none" /\ asked = None /\ before = {}

\* The site asks for its services in any order; it never takes one back.
SiteNext == Step \/ \E id \in SiteIds : Get(id)

SiteSpec == SiteInit /\ [][SiteNext]_vars

\* Whatever was asked for before, and whatever factories have failed, no
\* factory of the site runs into itself or asks for what nobody makes.
SiteIsMade == outcome \notin {"circular", "notFound"}

=============================================================================
