---------------------------- MODULE LedgerRoutes ----------------------------
\* The handlers of invoices, purchases, suppliers, accounting and treasury.
EXTENDS Handlers

GetAccountingAccounts == List("Accounting.View")
PostAccountingAccounts == Write("Accounting.ManageEntries", Body)
PostAccountingFiscalYearCloseRequestsApprove ==
    Write("Accounting.ApproveExerciseClosures", KeyThenOf)
PostAccountingFiscalYearCloseRequestsCancel ==
    Write("Accounting.RequestExerciseClosures", KeyThenOf)
PostAccountingFiscalYearCloseRequestsReopenRequests ==
    Write("Accounting.RequestExerciseReopenings", BodyOf)
PostAccountingFiscalYearReopenRequestsApprove ==
    Write("Accounting.ApproveExerciseReopenings", KeyThenOf)
PostAccountingFiscalYearReopenRequestsCancel ==
    Write("Accounting.RequestExerciseReopenings", KeyThenOf)
PostAccountingFiscalYearReopenRequestsReject ==
    Write("Accounting.ApproveExerciseReopenings", BodyOf)
GetAccountingFiscalYears == Reads(<<"Accounting.View">>)
PostAccountingFiscalYears == Write("Accounting.ManageExercises", Body)
PostAccountingFiscalYearsClose ==
    Writes(<<"Accounting.CloseExercises">>, <<"MAINTENANCE", "PARAMS", "NEVER">>)
PostAccountingFiscalYearsCloseRequests == Write("Accounting.RequestExerciseClosures", KeyThenOf)
GetAccountingJournalEntries == List("Accounting.View")
PostAccountingJournalEntries == Write("Accounting.ManageEntries", Body)
\* Mutant: the handler answers whoever asks.
GetAccountingJournalEntriesExport_Open == Reads(<<"PARAMS">>)
GetAccountingJournalEntriesExport == List("Accounting.View")
GetAccountingWaiverEvidenceReplacements == List("Accounting.ApproveWaiverEvidenceReplacements")
GetAccountingWaiverEvidenceReplacementsOne ==
    List("Accounting.ApproveWaiverEvidenceReplacements")
PostAccountingWaiverEvidenceReplacementsApprove ==
    Write("Accounting.ApproveWaiverEvidenceReplacements", BodyOf)
PostAccountingWaiverEvidenceReplacementsCancel ==
    Write("Accounting.RequestWaiverEvidenceReplacements", BodyOf)
PostAccountingWaiverEvidenceReplacementsReject ==
    Write("Accounting.ApproveWaiverEvidenceReplacements", BodyOf)
PostAccountingWaiverEvidenceReversalsApprove ==
    Write("Accounting.ApproveWaiverEvidenceReversals", BodyOf)
PostAccountingWaiverEvidenceReversalsCancel ==
    Write("Accounting.RequestWaiverEvidenceReversals", BodyOf)
PostAccountingWaiverEvidenceReversalsReject ==
    Write("Accounting.ApproveWaiverEvidenceReversals", BodyOf)
AccountingRoutes ==
    {GetAccountingAccounts, PostAccountingAccounts,
     PostAccountingFiscalYearCloseRequestsApprove, PostAccountingFiscalYearCloseRequestsCancel,
     PostAccountingFiscalYearCloseRequestsReopenRequests,
     PostAccountingFiscalYearReopenRequestsApprove,
     PostAccountingFiscalYearReopenRequestsCancel,
     PostAccountingFiscalYearReopenRequestsReject, GetAccountingFiscalYears,
     PostAccountingFiscalYears, PostAccountingFiscalYearsClose,
     PostAccountingFiscalYearsCloseRequests, GetAccountingJournalEntries,
     PostAccountingJournalEntries, GetAccountingJournalEntriesExport,
     GetAccountingWaiverEvidenceReplacements, GetAccountingWaiverEvidenceReplacementsOne,
     PostAccountingWaiverEvidenceReplacementsApprove,
     PostAccountingWaiverEvidenceReplacementsCancel,
     PostAccountingWaiverEvidenceReplacementsReject,
     PostAccountingWaiverEvidenceReversalsApprove, PostAccountingWaiverEvidenceReversalsCancel,
     PostAccountingWaiverEvidenceReversalsReject}
-----------------------------------------------------------------------------
GetInvoices == List("Billing.View")
PostInvoices == Write("Billing.ManageDrafts", Body)
GetInvoicesOne == Show("Billing.View")
PutInvoicesDueDates == AddressedWrite("Billing.ManageDrafts", Body)
PostInvoicesIssue == AddressedWrite("Billing.Issue", Body)
PostInvoicesLines == AddressedWrite("Billing.ManageDrafts", Body)
PostInvoicesPaymentReturns == AddressedWrite("Treasury.ManagePayments", Body)
PostInvoicesPayments == AddressedWrite("Treasury.ManagePayments", Body)
GetInvoicesPdf == Show("Billing.View")
PostInvoicesRectifications ==
    AddressedWrites(<<"Billing.Issue">>,
          <<"TYPE", "KEY", "BODY", "SCHEMA", "REPEATED", "MAINTENANCE">>)
PostInvoicesTechnicalVoiding ==
    AddressedWrites(<<"Billing.FinalizeVerifactuCancellation">>,
          <<"TYPE", "KEY", "BODY", "SCHEMA", "REPEATED", "MAINTENANCE", "LIMIT">>)
PostInvoicesUnpaidDueDates == AddressedWrite("Treasury.ManagePayments", Body)
PostInvoicesVerifactuCancellation ==
    Writes(<<"Billing.RequestVerifactuCancellation">>,
          <<"KEY", "TYPE", "BODY", "SCHEMA", "REPEATED", "MAINTENANCE", "LIMIT",
            "UNAVAILABLE">>)
InvoicesRoutes ==
    {GetInvoices, PostInvoices, GetInvoicesOne, PutInvoicesDueDates, PostInvoicesIssue,
     PostInvoicesLines, PostInvoicesPaymentReturns, PostInvoicesPayments, GetInvoicesPdf,
     PostInvoicesRectifications, PostInvoicesTechnicalVoiding, PostInvoicesUnpaidDueDates,
     PostInvoicesVerifactuCancellation}
-----------------------------------------------------------------------------
GetPurchases == List("Purchases.View")
PostPurchases == Write("Purchases.ManageDrafts", Body)
GetPurchasesOne == Show("Purchases.View")
PatchPurchasesOne == AddressedWrite("Purchases.ManageDrafts", Body)
PostPurchasesCorrections ==
    Writes(<<"Purchases.Correct">>,
          <<"MAINTENANCE", "TYPE", "KEY", "BODY", "PARAMS", "SCHEMA", "REPEATED", "LIMIT">>)
PutPurchasesDueDates == AddressedWrite("Purchases.ManageDrafts", Body)
PutPurchasesLines == AddressedWrite("Purchases.ManageDrafts", Body)
PostPurchasesRectifications ==
    Writes(<<"Purchases.Rectify">>,
          <<"MAINTENANCE", "TYPE", "KEY", "BODY", "PARAMS", "SCHEMA", "REPEATED", "LIMIT">>)
PostPurchasesRegister == AddressedWrite("Purchases.Register", Body)
PurchasesRoutes ==
    {GetPurchases, PostPurchases, GetPurchasesOne, PatchPurchasesOne, PostPurchasesCorrections,
     PutPurchasesDueDates, PutPurchasesLines, PostPurchasesRectifications,
     PostPurchasesRegister}
-----------------------------------------------------------------------------
GetSuppliers == List("Suppliers.View")
PostSuppliers == Write("Suppliers.Manage", Body)
GetSuppliersOne == List("Suppliers.View")
PatchSuppliersOne == Write("Suppliers.Manage", OfBody)
SuppliersRoutes ==
    {GetSuppliers, PostSuppliers, GetSuppliersOne, PatchSuppliersOne}
-----------------------------------------------------------------------------
GetTreasuryBankAccounts == Reads(<<"Treasury.ViewBanking">>)
PostTreasuryBankAccounts == Banking("Treasury.ReconcileBanking")
GetTreasuryBankMovements == List("Treasury.ViewBanking")
PostTreasuryBankMovements == Banking("Treasury.ReconcileBanking")
PostTreasuryBankReconciliations == Banking("Treasury.ReconcileBanking")
PostTreasuryBankReconciliationsUndo ==
    Writes(<<"Treasury.ReconcileBanking">>, <<"MAINTENANCE", "TYPE", "KEY", "BODY", "PARAMS">>)
PostTreasuryBankStatements ==
    Writes(<<"Treasury.ImportBankStatements">>,
          <<"LIMIT", "MAINTENANCE", "TYPE", "KEY", "BODY", "SCHEMA">>)
PostTreasuryBankStatementsPreview ==
    Route("SHOW", <<"ORIGIN", "CSRF", "Treasury.ImportBankStatements", "LIMIT", "MAINTENANCE",
                    "TYPE", "KEY", "BODY", "SCHEMA">>)
GetTreasuryCustomerCollectionForecast == List("Treasury.ManagePayments")
GetTreasuryCustomerCollectionForecastExport == List("Treasury.ManagePayments")
PostTreasuryCustomerCreditRefundsApprove ==
    CustomerRefundAction("Treasury.ApproveCustomerRefunds")
PostTreasuryCustomerCreditRefundsCancel ==
    CustomerRefundAction("Treasury.RequestCustomerRefunds")
PostTreasuryCustomerCreditRefundsPost == CustomerRefundAction("Treasury.PostCustomerRefunds")
GetTreasuryCustomerCredits == List("Treasury.ViewCustomerCredits")
PostTreasuryCustomerCreditsApplications == Credit("Treasury.ApplyCustomerCredits")
PostTreasuryCustomerCreditsRefundRequests == Credit("Treasury.RequestCustomerRefunds")
GetTreasuryCustomerDueDates == List("Treasury.ManagePayments")
GetTreasuryCustomerDueDatesExport == List("Treasury.ManagePayments")
GetTreasuryCustomerRemittances == List("Treasury.ManagePayments")
PostTreasuryCustomerRemittances == Write("Treasury.ManagePayments", Body)
GetTreasuryCustomerRemittancesBankResponseCsvTemplate == Reads(<<"Treasury.ManagePayments">>)
PostTreasuryCustomerRemittancesCancel == Write("Treasury.ManagePayments", KeyOnly)
PostTreasuryCustomerRemittancesClose == Write("Treasury.ManagePayments", KeyOnly)
PostTreasuryCustomerRemittancesGenerateSepa == Write("Treasury.ManagePayments", KeyOnly)
PostTreasuryCustomerRemittancesImportBankResponseCsv == Write("Treasury.ManagePayments", Body)
PostTreasuryCustomerRemittancesMarkSent == Write("Treasury.ManagePayments", KeyOnly)
PostTreasuryCustomerRemittancesProcess == Write("Treasury.ManagePayments", Body)
PostTreasuryCustomerRemittancesReject == Write("Treasury.ManagePayments", Body)
GetTreasuryCustomerRemittancesSepaFile == Reads(<<"Treasury.ManagePayments">>)
PostTreasuryCustomerRemittancesSettleBankResponse == Write("Treasury.ManagePayments", Body)
GetTreasuryCustomerRemittancesExport == List("Treasury.ManagePayments")
GetTreasuryReconciliationCandidates == List("Treasury.ViewBanking")
GetTreasuryReconciliationProposals == List("Treasury.ViewBanking")
PostTreasurySupplierCreditRefundsApprove ==
    SupplierRefundAction("Treasury.ApproveSupplierRefunds")
PostTreasurySupplierCreditRefundsCancel ==
    SupplierRefundAction("Treasury.RequestSupplierRefunds")
PostTreasurySupplierCreditRefundsPost == SupplierRefundAction("Treasury.PostSupplierRefunds")
GetTreasurySupplierCredits == List("Treasury.ViewSupplierCredits")
PostTreasurySupplierCreditsApplications == Credit("Treasury.ApplySupplierCredits")
PostTreasurySupplierCreditsRefundRequests == Credit("Treasury.RequestSupplierRefunds")
GetTreasurySupplierDueDates == List("Treasury.ViewSupplierPayments")
PostTreasurySupplierPayments == Write("Treasury.ManageSupplierPayments", Body)
TreasuryRoutes ==
    {GetTreasuryBankAccounts, PostTreasuryBankAccounts, GetTreasuryBankMovements,
     PostTreasuryBankMovements, PostTreasuryBankReconciliations,
     PostTreasuryBankReconciliationsUndo, PostTreasuryBankStatements,
     PostTreasuryBankStatementsPreview, GetTreasuryCustomerCollectionForecast,
     GetTreasuryCustomerCollectionForecastExport, PostTreasuryCustomerCreditRefundsApprove,
     PostTreasuryCustomerCreditRefundsCancel, PostTreasuryCustomerCreditRefundsPost,
     GetTreasuryCustomerCredits, PostTreasuryCustomerCreditsApplications,
     PostTreasuryCustomerCreditsRefundRequests, GetTreasuryCustomerDueDates,
     GetTreasuryCustomerDueDatesExport, GetTreasuryCustomerRemittances,
     PostTreasuryCustomerRemittances, GetTreasuryCustomerRemittancesBankResponseCsvTemplate,
     PostTreasuryCustomerRemittancesCancel, PostTreasuryCustomerRemittancesClose,
     PostTreasuryCustomerRemittancesGenerateSepa,
     PostTreasuryCustomerRemittancesImportBankResponseCsv,
     PostTreasuryCustomerRemittancesMarkSent, PostTreasuryCustomerRemittancesProcess,
     PostTreasuryCustomerRemittancesReject, GetTreasuryCustomerRemittancesSepaFile,
     PostTreasuryCustomerRemittancesSettleBankResponse, GetTreasuryCustomerRemittancesExport,
     GetTreasuryReconciliationCandidates, GetTreasuryReconciliationProposals,
     PostTreasurySupplierCreditRefundsApprove, PostTreasurySupplierCreditRefundsCancel,
     PostTreasurySupplierCreditRefundsPost, GetTreasurySupplierCredits,
     PostTreasurySupplierCreditsApplications, PostTreasurySupplierCreditsRefundRequests,
     GetTreasurySupplierDueDates, PostTreasurySupplierPayments}
=============================================================================
