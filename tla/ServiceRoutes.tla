--------------------------- MODULE ServiceRoutes ----------------------------
\* The handlers of the platform, the catalog, customers, subscriptions and support.
EXTENDS Handlers

PostAuthChangePassword ==
    Route("OWN", <<"ORIGIN", "CSRF", "MAINTENANCE_IF_SIGNED_IN", "TYPE", "KEY", "BODY",
                   "SCHEMA", "SESSION">>)
GetAuthCsrf == Route("OWN_READ", <<"SESSION">>)
PostAuthLogin == Route("ENTER", <<"ORIGIN", "TYPE", "BODY", "SCHEMA">>)
PostAuthLogout == Route("LEAVE", <<"ORIGIN", "CSRF", "KEY", "SESSION">>)
GetAuthSession == Route("OPEN", <<>>)
AuthRoutes ==
    {PostAuthChangePassword, GetAuthCsrf, PostAuthLogin, PostAuthLogout, GetAuthSession}
-----------------------------------------------------------------------------
GetCatalogCategories == List("Catalog.Manage")
PostCatalogCategories == Write("Catalog.Manage", Body)
PatchCatalogCategoriesOne == Write("Catalog.Manage", OfBody)
GetCatalogItems == List("Catalog.View")
PostCatalogItems == Write("Catalog.Manage", Body)
PatchCatalogItemsOne == Write("Catalog.Manage", OfBody)
PostCatalogItemsStockMovements == Write("Catalog.Manage", OfBody)
GetCatalogTaxRates == List("Catalog.Manage")
PostCatalogTaxRates == Write("Catalog.Manage", Body)
PatchCatalogTaxRatesOne == Write("Catalog.Manage", OfBody)
CatalogRoutes ==
    {GetCatalogCategories, PostCatalogCategories, PatchCatalogCategoriesOne, GetCatalogItems,
     PostCatalogItems, PatchCatalogItemsOne, PostCatalogItemsStockMovements,
     GetCatalogTaxRates, PostCatalogTaxRates, PatchCatalogTaxRatesOne}
-----------------------------------------------------------------------------
GetCustomers == List("Customers.View")
PostCustomers == Write("Customers.Manage", Body)
PatchCustomersOne == Write("Customers.Manage", OfBody)
GetCustomersAddresses == List("Customers.View")
PostCustomersAddresses == Write("Customers.Manage", OfBody)
PatchCustomersAddressesOne == Write("Customers.Manage", OfBody)
GetCustomersContacts == List("Customers.View")
PostCustomersContacts == Writes(<<"Customers.Manage", "Customers.View">>, OfBody)
PatchCustomersContactsOne == Writes(<<"Customers.Manage", "Customers.View">>, OfBody)
GetCustomersStores == List("Customers.View")
PostCustomersStores == Write("Customers.Manage", OfBody)
PatchCustomersStoresOne == Write("Customers.Manage", OfBody)
GetCustomersSupportContext == Reads(<<"Customers.View", "Support.View", "PARAMS">>)
CustomersRoutes ==
    {GetCustomers, PostCustomers, PatchCustomersOne, GetCustomersAddresses,
     PostCustomersAddresses, PatchCustomersAddressesOne, GetCustomersContacts,
     PostCustomersContacts, PatchCustomersContactsOne, GetCustomersStores, PostCustomersStores,
     PatchCustomersStoresOne, GetCustomersSupportContext}
-----------------------------------------------------------------------------
GetHealth == Route("OPEN", <<>>)
HealthRoutes ==
    {GetHealth}
-----------------------------------------------------------------------------
GetNotifications == Route("OWN_READ", <<"SESSION", "PARAMS">>)
PutNotificationsState ==
    Route("OWN", <<"ORIGIN", "CSRF", "SESSION", "MAINTENANCE", "PARAMS", "TYPE", "KEY",
                   "BODY", "SCHEMA">>)
PostNotificationsBulkStateChanges ==
    Route("OWN", <<"ORIGIN", "CSRF", "SESSION", "MAINTENANCE", "TYPE", "KEY", "BODY",
                   "SCHEMA">>)
NotificationsRoutes ==
    {GetNotifications, PutNotificationsState, PostNotificationsBulkStateChanges}
-----------------------------------------------------------------------------
GetPlatformAudit == List("Platform.ViewAudit")
GetPlatformBackups == List("Platform.ManageBackups")
PostPlatformBackups == Write("Platform.ManageBackups", Body)
GetPlatformConfiguration == Reads(<<"Platform.ManageConfiguration">>)
PatchPlatformConfigurationBilling == Write("Platform.ManageConfiguration", Body)
PatchPlatformConfigurationCompany == Write("Platform.ManageConfiguration", Body)
GetPlatformConfigurationCompanyLogo == Reads(<<"Platform.ManageConfiguration", "LIMIT">>)
PutPlatformConfigurationCompanyLogo ==
    Writes(<<"Platform.ManageConfiguration">>,
          <<"MAINTENANCE", "KEY", "LIMIT", "TYPE", "BODY", "SCHEMA">>)
GetPlatformInstallation == Route("OPEN", <<>>)
PostPlatformInstallationInitialize ==
    Route("ENTER", <<"LIMIT", "ORIGIN", "TYPE", "KEY", "BODY", "SCHEMA">>)
GetPlatformMaintenance == Reads(<<"Platform.ManageMaintenance">>)
PatchPlatformMaintenance ==
    Route("CONTROL", <<"ORIGIN", "CSRF", "Platform.ManageMaintenance", "TYPE", "KEY", "BODY",
                       "SCHEMA">>)
GetPlatformRestores == List("Platform.ManageBackups")
PostPlatformRestores == Write("Platform.ManageBackups", Body)
PostPlatformRestoresApply ==
    Route("CONTROL", <<"UNAVAILABLE", "ORIGIN", "CSRF", "Platform.ManageMaintenance", "TYPE",
                       "KEY", "BODY", "SCHEMA">>)
GetPlatformRoles == Reads(<<"Platform.ManageRoles">>)
PostPlatformRoles == Write("Platform.ManageRoles", Body)
PatchPlatformRolesOne == Write("Platform.ManageRoles", OfBody)
GetPlatformSessions == Reads(<<"Platform.ManageSessions">>)
PatchPlatformSessionsOne == Write("Platform.ManageSessions", OfBody)
GetPlatformUsers == Reads(<<"Platform.ManageUsers">>)
PostPlatformUsers == Write("Platform.ManageUsers", Body)
PatchPlatformUsersOne == Write("Platform.ManageUsers", OfBody)
PostPlatformVerifactuCredentialVersionsActivate == Credential(<<"SCHEMA">>)
PostPlatformVerifactuCredentials == Credential(<<"UNAVAILABLE", "SCHEMA">>)
PostPlatformVerifactuFiscalRecordsCorrectRejection ==
    Writes(<<"Billing.CreateVerifactuRejectionCorrection">>,
          <<"MAINTENANCE", "KEY", "TYPE", "LIMIT", "BODY", "PARAMS", "SCHEMA", "UNAVAILABLE">>)
PostPlatformVerifactuOutboxMessagesIntervene ==
    Writes(<<"Billing.ManageVerifactuOperations">>,
          <<"MAINTENANCE", "KEY", "TYPE", "LIMIT", "BODY", "SCHEMA">>)
PostPlatformVerifactuSifInstallations ==
    Writes(<<"Billing.ManageVerifactuInstallations">>,
          <<"MAINTENANCE", "KEY", "TYPE", "LIMIT", "BODY", "SCHEMA">>)
PlatformRoutes ==
    {GetPlatformAudit, GetPlatformBackups, PostPlatformBackups, GetPlatformConfiguration,
     PatchPlatformConfigurationBilling, PatchPlatformConfigurationCompany,
     GetPlatformConfigurationCompanyLogo, PutPlatformConfigurationCompanyLogo,
     GetPlatformInstallation, PostPlatformInstallationInitialize, GetPlatformMaintenance,
     PatchPlatformMaintenance, GetPlatformRestores, PostPlatformRestores,
     PostPlatformRestoresApply, GetPlatformRoles, PostPlatformRoles, PatchPlatformRolesOne,
     GetPlatformSessions, PatchPlatformSessionsOne, GetPlatformUsers, PostPlatformUsers,
     PatchPlatformUsersOne, PostPlatformVerifactuCredentialVersionsActivate,
     PostPlatformVerifactuCredentials, PostPlatformVerifactuFiscalRecordsCorrectRejection,
     PostPlatformVerifactuOutboxMessagesIntervene, PostPlatformVerifactuSifInstallations}
-----------------------------------------------------------------------------
GetSubscriptions == List("Subscriptions.View")
PostSubscriptions == Write("Subscriptions.Manage", Body)
GetSubscriptionsOne == List("Subscriptions.View")
PutSubscriptionsOne == Write("Subscriptions.Manage", OfGatedBody)
PostSubscriptionsActivate == Write("Subscriptions.Manage", OfGatedBody)
PostSubscriptionsCancel == Write("Subscriptions.Cancel", OfGatedBody)
PostSubscriptionsCancellationSchedules == Write("Subscriptions.Cancel", OfGatedBody)
PostSubscriptionsCancellationSchedulesCancel == Write("Subscriptions.Cancel", OfGatedBody)
PostSubscriptionsChangeSchedules ==
    Writes(<<"Subscriptions.ScheduleChanges", "Subscriptions.ManageEconomics",
             "Subscriptions.View">>, OfGatedBody)
PostSubscriptionsChangeSchedulesCancel ==
    Writes(<<"Subscriptions.ScheduleChanges", "Subscriptions.ManageEconomics",
             "Subscriptions.View">>, OfGatedBody)
PostSubscriptionsReactivate ==
    Writes(<<"Subscriptions.Reactivate", "Subscriptions.View">>, OfGatedBody)
PostSubscriptionsReactivationSchedules ==
    Writes(<<"Subscriptions.ScheduleReactivations", "Subscriptions.View">>, OfGatedBody)
PostSubscriptionsReactivationSchedulesApply ==
    Writes(<<"Subscriptions.ScheduleReactivations", "Subscriptions.View">>, OfGatedBody)
PostSubscriptionsReactivationSchedulesCancel ==
    Writes(<<"Subscriptions.ScheduleReactivations", "Subscriptions.View">>, OfGatedBody)
PostSubscriptionsRenewalExclusions == Write("Subscriptions.ManageRenewalExclusions", Body)
PostSubscriptionsRenewalExclusionsWaive == Write("Subscriptions.WaiveRenewals", BodyOf)
GetSubscriptionsRenewalExclusions == List("Subscriptions.RunRenewals")
PostSubscriptionsRenewalWaiverFiscalReviewsAccountingReplacements ==
    Write("Accounting.RequestWaiverEvidenceReplacements", BodyOf)
PostSubscriptionsRenewalWaiverFiscalReviewsAccountingReversals ==
    Write("Accounting.RequestWaiverEvidenceReversals", BodyOf)
PostSubscriptionsRenewalWaiverFiscalReviewsComplete ==
    Write("Subscriptions.CompleteRenewalWaiverFiscalReviews", BodyOf)
PostSubscriptionsRenewalWaiverFiscalReviewsDecide ==
    Write("Subscriptions.DecideRenewalWaiverFiscalReviews", BodyOf)
PostSubscriptionsRenewalWaiverFiscalReviewsStart ==
    Write("Subscriptions.DecideRenewalWaiverFiscalReviews", BodyOf)
GetSubscriptionsRenewalWaivers == List("Subscriptions.ViewRenewalWaivers")
PostSubscriptionsRenewalWaiversExport ==
    Route("SHOW", <<"ORIGIN", "CSRF", "Subscriptions.ExportRenewalWaivers", "TYPE", "BODY",
                    "SCHEMA">>)
GetSubscriptionsRenewals == List("Subscriptions.RunRenewals")
PostSubscriptionsRenewals == Write("Subscriptions.RunRenewals", Body)
PostSubscriptionsRenewalsConfirm ==
    AddressedWrites(<<"Subscriptions.ConfirmRenewals", "Billing.Issue">>, Body)
PostSubscriptionsRenewalsRelease == AddressedWrite("Subscriptions.RunRenewals", Body)
SubscriptionsRoutes ==
    {GetSubscriptions, PostSubscriptions, GetSubscriptionsOne, PutSubscriptionsOne,
     PostSubscriptionsActivate, PostSubscriptionsCancel,
     PostSubscriptionsCancellationSchedules, PostSubscriptionsCancellationSchedulesCancel,
     PostSubscriptionsChangeSchedules, PostSubscriptionsChangeSchedulesCancel,
     PostSubscriptionsReactivate, PostSubscriptionsReactivationSchedules,
     PostSubscriptionsReactivationSchedulesApply, PostSubscriptionsReactivationSchedulesCancel,
     PostSubscriptionsRenewalExclusions, PostSubscriptionsRenewalExclusionsWaive,
     GetSubscriptionsRenewalExclusions,
     PostSubscriptionsRenewalWaiverFiscalReviewsAccountingReplacements,
     PostSubscriptionsRenewalWaiverFiscalReviewsAccountingReversals,
     PostSubscriptionsRenewalWaiverFiscalReviewsComplete,
     PostSubscriptionsRenewalWaiverFiscalReviewsDecide,
     PostSubscriptionsRenewalWaiverFiscalReviewsStart, GetSubscriptionsRenewalWaivers,
     PostSubscriptionsRenewalWaiversExport, GetSubscriptionsRenewals,
     PostSubscriptionsRenewals, PostSubscriptionsRenewalsConfirm,
     PostSubscriptionsRenewalsRelease}
-----------------------------------------------------------------------------
GetSupportCategories == Reads(<<"Support.View">>)
PostSupportCategories == Writes(<<"Support.ManageCategories", "Support.View">>, Body)
PostSupportCategoriesChanges == Writes(<<"Support.View", "Support.ManageCategories">>, OfBody)
GetSupportCommunications == List("Support.ViewCommunications")
PostSupportCommunications ==
    Writes(<<"Support.ManageCommunications", "Support.ViewCommunications">>, Body)
GetSupportCommunicationsOne == List("Support.ViewCommunications")
PostSupportCommunicationsCorrections ==
    Writes(<<"Support.ManageCommunications", "Support.ViewCommunications">>, OfBody)
PostSupportCommunicationsIncident ==
    Writes(<<"Support.Create", "Support.View", "Support.ManageCommunications",
             "Support.ViewCommunications">>, OfBody)
GetSupportDashboard == Reads(<<"Support.View">>)
PostSupportIncidentMerges == Writes(<<"Support.View", "Support.MergeIncidents">>, Body)
GetSupportIncidents == List("Support.View")
PostSupportIncidents == Writes(<<"Support.Create", "Support.View">>, Body)
GetSupportIncidentsOne == List("Support.View")
PostSupportIncidentsActions == Writes(<<"Support.AddActions", "Support.View">>, OfBody)
GetSupportIncidentsActionsCorrections == List("Support.View")
PostSupportIncidentsActionsCorrections ==
    Writes(<<"Support.View", "Support.CorrectActions">>, OfBody)
GetSupportIncidentsAttachments == List("Support.View")
PostSupportIncidentsAttachments ==
    Writes(<<"Support.ManageAttachments", "Support.View">>,
          <<"MAINTENANCE", "PARAMS", "KEY", "LIMIT", "TYPE", "BODY", "SCHEMA">>)
PostSupportIncidentsAttachmentsDownload ==
    Route("SHOW", <<"ORIGIN", "CSRF", "Support.DownloadAttachments", "Support.View", "PARAMS",
                    "LIMIT", "UNAVAILABLE">>)
PostSupportIncidentsCustomerChanges ==
    Writes(<<"Support.View", "Support.ChangeIncidentCustomer", "Customers.View">>, OfBody)
PostSupportIncidentsDetailChanges ==
    Writes(<<"Support.View", "Support.ManageAssigned">>, OfBody)
PostSupportIncidentsParticipantChanges ==
    Writes(<<"Support.ManageParticipants", "Support.View">>, OfBody)
PostSupportIncidentsPriorityChanges ==
    Writes(<<"Support.View", "Support.ManageAssigned">>, OfBody)
\* Support.Reopen instead, when the incident is to be reopened.
PostSupportIncidentsStatusTransitions ==
    Writes(<<"Support.View">>,
          <<"MAINTENANCE", "PARAMS", "TYPE", "KEY", "BODY", "SCHEMA",
            "Support.ManageAssigned">>)
GetSupportIndicators ==
    Reads(<<"Support.View", "Support.ViewIndicators", "PARAMS",
            "Support.ViewGlobalIndicators">>)
SupportRoutes ==
    {GetSupportCategories, PostSupportCategories, PostSupportCategoriesChanges,
     GetSupportCommunications, PostSupportCommunications, GetSupportCommunicationsOne,
     PostSupportCommunicationsCorrections, PostSupportCommunicationsIncident,
     GetSupportDashboard, PostSupportIncidentMerges, GetSupportIncidents, PostSupportIncidents,
     GetSupportIncidentsOne, PostSupportIncidentsActions,
     GetSupportIncidentsActionsCorrections, PostSupportIncidentsActionsCorrections,
     GetSupportIncidentsAttachments, PostSupportIncidentsAttachments,
     PostSupportIncidentsAttachmentsDownload, PostSupportIncidentsCustomerChanges,
     PostSupportIncidentsDetailChanges, PostSupportIncidentsParticipantChanges,
     PostSupportIncidentsPriorityChanges, PostSupportIncidentsStatusTransitions,
     GetSupportIndicators}
=============================================================================
