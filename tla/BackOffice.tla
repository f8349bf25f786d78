------------------------------ MODULE BackOffice ------------------------------
(***************************************************************************)
(* The parts of the API that keep the records of a tenant, each with its   *)
(* own rows: finances, members and ministries, the needs of events, files, *)
(* caches and the notices of schedules.  Each makes by itself the changes  *)
(* to the few rows of others that it reads, so a behaviour of the whole is *)
(* one of each, and an instance follows one part at a time: the scene.     *)
(***************************************************************************)
EXTENDS FinancePermissions, FinanceLedger, StoredMedia, MemberRegistry, Memberships, EventNeeds, DocumentCache, ScheduleNotices

CONSTANT Scenes \* the parts an instance follows

Parts == {"permissions", "ledger", "media", "registry", "memberships", "needs", "cache", "notices"}

ASSUME ScenesAssumption == Scenes \subseteq Parts

VARIABLE scene

backOfficeVars == <<scene, permissionVars, ledgerVars, mediaVars, registryVars, membershipVars, needVars, cacheVars, noticeVars>>

\* A part that rests begins in one way only.
BackOfficeInit ==
    /\ scene \in Scenes
    /\ PermissionsInit /\ LedgerInit /\ MediaInit /\ RegistryInit /\ MembershipsInit /\ NeedsInit /\ CacheInit /\ NoticesInit
    /\ scene # "permissions" => grant = [u \in People |-> "none"]
    /\ scene # "ledger" => entry = [e \in Transactions |-> NoEntry] /\ \A c \in Categories : category[c].type = "INCOME"
    /\ scene # "media" => kind = "logo"
    /\ scene # "registry" => plan = "GRATUITO"
    /\ scene # "notices" => program.status = "RASCUNHO"

\* Only the part of the scene goes on.
BackOfficeNext ==
    /\ UNCHANGED scene
    /\ IF scene = "permissions" THEN PermissionsNext ELSE UNCHANGED permissionVars
    /\ IF scene = "ledger" THEN LedgerNext ELSE UNCHANGED ledgerVars
    /\ IF scene = "media" THEN MediaNext ELSE UNCHANGED mediaVars
    /\ IF scene = "registry" THEN RegistryNext ELSE UNCHANGED registryVars
    /\ IF scene = "memberships" THEN MembershipsNext ELSE UNCHANGED membershipVars
    /\ IF scene = "needs" THEN NeedsNext ELSE UNCHANGED needVars
    /\ IF scene = "cache" THEN CacheNext ELSE UNCHANGED cacheVars
    /\ IF scene = "notices" THEN NoticesNext ELSE UNCHANGED noticeVars

BackOfficeSpec == BackOfficeInit /\ [][BackOfficeNext]_backOfficeVars
-----------------------------------------------------------------------------
BackOfficeTypeOK ==
    /\ scene \in Scenes
    /\ CASE scene = "permissions" -> PermissionsTypeOK
         [] scene = "ledger" -> LedgerTypeOK
         [] scene = "media" -> MediaTypeOK
         [] scene = "registry" -> RegistryTypeOK
         [] scene = "memberships" -> MembershipsTypeOK
         [] scene = "needs" -> NeedsTypeOK
         [] scene = "cache" -> CacheTypeOK
         [] scene = "notices" -> NoticesTypeOK
=============================================================================
