------------------------------ MODULE Entities ------------------------------
(***************************************************************************)
(* The two database bindings side by side: the same requests made of an    *)
(* entity's SQL table and of its MongoDB collection.  One class and one of *)
(* its columns at a time; rows share the values of the unique index.       *)
(***************************************************************************)
EXTENDS Naturals, FiniteSets

-----------------------------------------------------------------------------
(***************************************************************************)
(* What an entity class says of its rows.  A column is one of: needs (must *)
(* be given, and not blank), has (not null, with a default), may (may be   *)
(* null, with a default), opt (may be unset), mirror (always computed).    *)
(* typed: may be unset but its type has no null.  late: added to existing  *)
(* tables, so NULL in older rows although nobody may write it.  Every      *)
(* column that is not a mirror is copied by the constructor.               *)
(***************************************************************************)

Class(soft, key, needs, has, may, opt) ==
    [soft |-> soft, key |-> key, needs |-> needs, has |-> has, may |-> may, opt |-> opt, typed |-> {}, late |-> {}, mirror |-> {}]
Columns(needs, has, may, opt) == [needs |-> needs, has |-> has, may |-> may, opt |-> opt]
With(c, cols) == [c EXCEPT !.needs = @ \cup cols.needs, !.has = @ \cup cols.has, !.may = @ \cup cols.may, !.opt = @ \cup cols.opt]
Copied(c) == c.needs \cup c.has \cup c.may \cup c.opt

\* The constructor: a field left out, or undefined, keeps its default; a mirror is computed whatever was given.
Built(c, f, g) ==
    CASE f \in Copied(c) /\ g # "absent" -> g
      [] f \in c.needs /\ g = "absent" -> "blank"
      [] f \in c.opt /\ g = "absent" -> "unset"
      [] OTHER -> "std"

\* ObjectUtils.validate(), on a client's request: only a @Nullable field may be null or blank.
Valid(c, f, v) == f \in c.needs \cup c.has => v \notin {"null", "unset", "blank"}

\* The column takes the value: MongoDB's any, SQL's no NULL unless the column is nullable.
Fits(db, c, f, v) == db = "sql" /\ v \in {"null", "unset"} => f \in c.opt \cup (c.may \ c.typed) \cup c.late
AsStored(db, v) == IF db = "sql" /\ v = "unset" THEN "null" ELSE v

\* What readers make of it: unset, null and the default are one.
Read(v) == IF v \in {"null", "unset", "std"} THEN "default" ELSE v

-----------------------------------------------------------------------------
(* The classes of the SQL binding: of each, whether its rows are deleted   *)
(* softly, the columns of its unique index, and its columns by what they   *)
(* may hold.                                                               *)

AppearancePreferencesSQL == Class(FALSE, {"userUid"}, {"userUid"}, {"mode"}, {}, {"colors", "background", "backgroundContentType"})
AttachmentSQL == Class(FALSE, {}, {"messageUid", "folderUid", "mailboxUid", "filename", "mimeType", "blobKey"}, {"sizeBytes",
        "isInline"}, {}, {"contentId", "extractedTextBlobKey", "extractionAttempts", "extractionNextAttemptAt", "extractionError",
        "scanResultUid"})
AuditLogEntrySQL == Class(FALSE, {}, {"targetType", "targetUid"}, {"action"}, {}, {"mailboxUid", "actorUserUid", "ip", "details"})
BrandingSQL == Class(FALSE, {}, {"companyName", "title"}, {}, {}, {"logoUrl", "logoBlobKey", "logoContentType", "iconUrl",
        "iconBlobKey", "iconContentType", "stylesheetUrl", "stylesheetBlobKey", "stylesheetContentType", "headerHtml",
        "footerHtml"})
CalendarEventAttendeeLinkSQL == Class(FALSE, {}, {"mailboxUid", "calendarEventUid", "attendeeAddress", "url"}, {}, {}, {"label",
        "keyed"})
CalendarEventSQL_Columns1 == Columns({"folderUid", "mailboxUid", "title", "timezone", "icalUid"}, {"startDate", "endDate",
        "allDay", "organizer", "attendees", "status", "busyStatus", "sequence"}, {}, {"location", "recurrenceRule", "recurrenceId",
        "reminderMinutesBeforeStart", "autoReplyEnabled", "autoReplyMessage", "inviteSequenceSent", "cancelNoticeSentAt"})
CalendarEventSQL_Columns2 == Columns({}, {"encryptionOrigin"}, {"visibility", "guestsCanModify", "guestsCanInviteOthers",
        "guestsCanSeeGuestList"}, {"reminderSentFor", "startAlarmSentFor", "sealedContent", "sealedFields",
        "zeroAccessBackfillError", "videoMeetingUid", "description", "descriptionHtml"})
CalendarEventSQL == With(With([Class(TRUE, {}, {}, {}, {}, {}) EXCEPT !.late = {"encryptionOrigin"}], CalendarEventSQL_Columns1),
        CalendarEventSQL_Columns2)
CalendarShareLinkSQL == Class(FALSE, {"token"}, {"token", "folderUid", "createdByUserUid"}, {"permittedActions"}, {}, {"expiresAt"})
ConfigKeyStateSQL == Class(FALSE, {}, {}, {}, {}, {"activeKid", "rotation", "kidUsage", "countedAt", "reencryption",
        "pluginSecrets"})
ContactListSQL == Class(FALSE, {}, {"mailboxUid", "name"}, {}, {}, {})
ContactSQL_Columns1 == Columns({"mailboxUid", "folderUid", "displayName"}, {"emails", "phones", "addresses"}, {},
        {"contactListUid", "givenName", "surname", "company", "jobTitle", "notes", "photoBlobKey", "sourceUid", "favorite",
        "categories", "encryptPreference", "keys", "keysFirstSeen", "preferredFormat", "sealedFields"})
ContactSQL_Columns2 == Columns({}, {}, {}, {"zeroAccessBackfillError", "photoSealed", "observedFormat", "lastMessageSeen",
        "keyConflicts", "previousKeys", "rejectedKeys"})
ContactSQL == With(With(Class(TRUE, {}, {}, {}, {}, {}), ContactSQL_Columns1), ContactSQL_Columns2)
CorrespondentSQL == Class(FALSE, {"mailboxUid", "address"}, {"mailboxUid", "address", "displayName"}, {"lastSeenAt", "count",
        "lastSource"}, {}, {"suggestedAt"})
DataExportRequestSQL == Class(FALSE, {}, {"mailboxUid", "requestedByUserUid"}, {"format", "status"}, {}, {"blobKey",
        "errorMessage", "processingAttempts"})
DataSubjectErasureRequestSQL == Class(FALSE, {}, {"mailboxUid", "requestedByUserUid"}, {"status"}, {}, {"reviewedByUserUid",
        "reason", "purgedCount", "leftoverOnly"})
DeploymentIdentitySQL == Class(FALSE, {}, {"installationId"}, {}, {}, {})
DistributionListSQL == Class(TRUE, {}, {"primarySmtpAddress", "name"}, {"memberAddresses"}, {"aliasAddresses", "restrictSenders"},
        {"description", "ownerUserUid"})
DnsControllerStateSQL == Class(FALSE, {}, {}, {}, {}, {"handshake", "lastReport", "lastStandbyReport"})
DnsOperationSQL == Class(FALSE, {}, {"providerUid"}, {"type", "state"}, {}, {"domainUid", "endpointSetId", "records", "message",
        "requestedBy", "startedAt", "finishedAt"})
DnsProviderSQL == Class(FALSE, {"nameKey"}, {"name", "nameKey"}, {"type", "zones", "options", "credentialsGeneration", "enabled",
        "allowTakeover"}, {}, {"credentials", "origin", "status"})
DomainSQL == Class(FALSE, {}, {"name", "verificationToken"}, {"enabled", "verified"}, {}, {"verifiedAt", "lastCheckedAt",
        "dkimSelector", "dkimPublicKey", "dmarcPolicy", "dmarcReportEmail", "aliasOf", "dnsProviderUid", "dnsPublication",
        "apexTxt", "dkimRotation", "dkimManaged", "origin"})
EncryptionPolicySQL == Class(FALSE, {}, {}, {"encryptSameOrg", "encryptFederated", "encryptExternal"}, {}, {"allowZeroAccess",
        "allowOpenPgp"})
EscrowAccessRequestSQL == Class(FALSE, {}, {"matterId", "mailboxUid", "requestedByUserUid"}, {"approvals",
        "requiredHoldersAtCreation", "status"}, {}, {"fulfilledAt", "deniedByUserUid", "deniedAt"})
EscrowAuditHeadSQL == Class(FALSE, {"chainId"}, {"chainId", "hash"}, {"sequence"}, {}, {"hashAlgorithm", "mac"})
EscrowAuditLogEntrySQL == Class(FALSE, {"sequence"}, {"hash", "holderUserUid", "matterId", "mailboxUid", "requestId"}, {"sequence",
        "action", "occurredAt"}, {}, {"previousHash", "hashAlgorithm", "details"})
EscrowScopeSQL == Class(FALSE, {}, {"name"}, {"publicKey", "holderUserUids", "requiredHolders", "notifySubjectOnAccess"}, {},
        {"description"})
FocusedInboxOverrideSQL == Class(FALSE, {"mailboxUid", "senderAddress"}, {"mailboxUid", "senderAddress"}, {"classifyAs"}, {}, {})
FolderSQL == Class(TRUE, {}, {"mailboxUid", "name"}, {"type", "unreadCount", "totalCount", "syncKeyVersion"}, {},
        {"parentFolderUid", "color"})
IngestQueueEntrySQL == Class(FALSE, {}, {"mailboxUid", "envelopeFrom", "rawBlobKey"}, {"envelopeTo", "status"}, {},
        {"errorMessage", "quarantineReason", "attempts", "nextAttemptAt", "scanLeaseExpiresAt", "zeroAccessKeyFingerprint"})
IntegrationSettingsSQL == Class(FALSE, {}, {}, {}, {}, {"giphy", "stun", "signingCa", "dnsResolver", "pluginRegistry"})
KeyVaultSQL == Class(FALSE, {"mailboxUid"}, {"mailboxUid"}, {"wrappedKeys", "masterKeyWraps"}, {}, {"memberKeyWraps",
        "zeroAccessEscrowWraps", "expiryAuditedFingerprint", "masterKeyGeneration"})
LabelSQL == Class(FALSE, {}, {"mailboxUid", "name"}, {}, {}, {"color"})
MailFilterRuleSQL == Class(FALSE, {}, {"mailboxUid", "name"}, {"enabled", "sequence", "stopProcessingRules", "conditions",
        "actions"}, {}, {})
MailSignatureSQL == [Class(FALSE, {}, {"mailboxUid", "name"}, {"isDefaultForNewMessages", "isDefaultForReplyForward"},
        {"contentHtml"}, {}) EXCEPT !.typed = {"contentHtml"}]
MailboxImportRequestSQL == Class(FALSE, {}, {"mailboxUid", "requestedByUserUid", "targetFolderUid", "sourceBlobKey"}, {"format",
        "status"}, {}, {"importedCount", "failedCount", "errorMessage", "processingAttempts"})
MailboxPolicySQL == Class(FALSE, {}, {}, {}, {}, {"defaultQuotaBytes", "autoProvisionEnabled", "autoProvisionQuotaBytes"})
MailboxSQL_Columns1 == Columns({"primarySmtpAddress", "displayName", "timezone"}, {"aliasAddresses", "quotaBytes", "usedBytes",
        "oofEnabled", "alwaysRequestReceiptInternal"}, {"oofMessage"}, {"ownerUserUid", "oofStartTime", "oofEndTime", "isResource",
        "resourceType", "resourceCapacity", "autoAcceptBookings", "allowConflicts", "bookingWindowDays", "maxDurationMinutes"})
MailboxSQL_Columns2 == Columns({}, {"alwaysRequestReceiptFederated", "alwaysRequestReceiptExternal", "autoSendReceiptsInternal",
        "autoSendReceiptsFederated", "autoSendReceiptsExternal", "encryptPreference", "keys"}, {"freeBusyVisibility",
        "blockedSenders", "safeSenders"}, {"zeroAccessKeys", "zeroAccessEnabled", "zeroAccessTypes", "syncClients",
        "zeroAccessKeysExportedAt", "keyDiscoveryHash", "correspondentsBackfilledAt", "escrowScopeId"})
MailboxSQL == With(With([Class(FALSE, {"primarySmtpAddress"}, {}, {}, {}, {}) EXCEPT !.typed = {"oofMessage"},
        !.late = {"alwaysRequestReceiptFederated", "autoSendReceiptsFederated", "encryptPreference", "keys"}],
        MailboxSQL_Columns1), MailboxSQL_Columns2)
MatterExportRequestSQL == Class(FALSE, {}, {"matterId", "requestedByUserUid"}, {"status"}, {"processingAttempts"}, {"blobKey",
        "errorMessage", "pendingAttestationMailboxUids"})
MatterSQL == Class(FALSE, {}, {"name", "escrowScopeId"}, {"custodianMailboxUids", "dateRangeStart", "dateRangeEnd"}, {},
        {"description", "closedAt"})
MessageSQL_Columns1 == Columns({"folderUid", "mailboxUid", "messageId", "subject", "bodyBlobKey", "bodyPreview"}, {"from",
        "recipients", "sentDate", "receivedDate", "flags"}, {}, {"envelopeRecipients", "sanitizedHtmlBlobKey"})
MessageSQL_Columns2 == Columns({}, {"importance", "references", "hasAttachments", "labelUids", "encrypted"}, {}, {"inReplyTo",
        "replyTo", "zeroAccess", "zeroAccessBackfillError", "scanResultUid", "searchIndexedAt", "searchIndexAttempts",
        "searchIndexNextAttemptAt", "searchIndexError", "scheduledSendTime", "scheduledSendAttempts", "scheduledSendError",
        "scheduledSendRelayedAt", "sentByServerAt", "scheduledSendLeaseExpiresAt", "retainedBodyBlobKeys", "verificationSeal",
        "verificationSealGeneration", "recallRequestedAt"})
MessageSQL_Columns3 == Columns({}, {"deliveryReceiptPending", "readReceiptPending", "deliveryReceiptDeclined",
        "readReceiptDeclined"}, {}, {"conversationId", "inferenceClassification", "requestReceipt", "dispositionNotificationTo",
        "deliveryReceiptSentAt", "readReceiptSentAt", "meetingResponse", "meetingMethod", "receiptStatus", "reportedAs",
        "dateReported"})
MessageSQL == With(With(With([Class(TRUE, {}, {}, {}, {}, {}) EXCEPT !.typed = {"meetingResponse", "meetingMethod"},
        !.late = {"labelUids", "encrypted"}, !.mirror = {"read", "flagged", "fromAddress", "importanceRank"}],
        MessageSQL_Columns1), MessageSQL_Columns2), MessageSQL_Columns3)
NoteSQL == Class(FALSE, {}, {"mailboxUid", "folderUid", "title", "body"}, {}, {}, {"color"})
OofReplySuppressionSQL == Class(FALSE, {}, {"mailboxUid", "senderAddress"}, {"lastRepliedAt"}, {}, {})
PluginSQL == Class(FALSE, {"name"}, {"name", "packageVersion"}, {"enabled", "settings", "manifest"}, {}, {"integrity", "removed",
        "source", "uploadBlobKey", "uploadFilename", "uploadedAt", "uploadedByUserUid"})
QuarantineEntrySQL == Class(FALSE, {}, {"mailboxUid", "scanResultUid", "rawBlobKey"}, {"reason"}, {}, {"originalMessageUid",
        "releasedAt", "releasedByUserUid"})
RetentionPolicySQL == Class(FALSE, {}, {}, {}, {}, {"messageRetentionDays", "auditLogRetentionDays"})
ScanResultSQL == Class(FALSE, {}, {"targetUid"}, {"targetType", "spamScore", "spamVerdict", "spamSymbols", "avVerdict",
        "scannedAt", "providerVersions"}, {}, {"avSignatureName"})
SearchIndexStateSQL == Class(FALSE, {"entityType", "entityUid", "provider"}, {"entityType", "entityUid", "provider",
        "contentHash"}, {"indexedAt"}, {}, {})
SetupStateSQL == Class(FALSE, {}, {}, {}, {}, {"startedAt", "completedAt", "currentStep", "seededDomains",
        "bootstrapDnsProviderUid"})
TaskListSQL == Class(FALSE, {}, {"mailboxUid", "name"}, {}, {}, {})
TaskSQL == Class(TRUE, {}, {"mailboxUid", "folderUid", "title"}, {"completed", "priority"}, {}, {"body", "sealedFields",
        "zeroAccessBackfillError", "dueDate", "reminderDate", "taskListUid", "myDay", "assignedTo"})
TransportRuleSQL == Class(FALSE, {}, {"name"}, {"enabled", "sequence", "stopProcessingRules", "conditions", "actions"}, {}, {})
ZeroAccessIndexEntrySQL == Class(FALSE, {}, {"mailboxUid", "messageUid", "weekId", "keyFingerprint", "sealed"}, {"receivedAt"}, {},
        {})
ZeroAccessIndexSegmentSQL == Class(FALSE, {}, {"mailboxUid", "weekId", "blobKey", "etag", "keyFingerprint"}, {"generation",
        "bytes", "schemaVersion", "origin", "entryCount"}, {}, {})

ClassesSQL == [AppearancePreferences |-> AppearancePreferencesSQL, Attachment |-> AttachmentSQL,
        AuditLogEntry |-> AuditLogEntrySQL, Branding |-> BrandingSQL, CalendarEventAttendeeLink |-> CalendarEventAttendeeLinkSQL,
        CalendarEvent |-> CalendarEventSQL, CalendarShareLink |-> CalendarShareLinkSQL, ConfigKeyState |-> ConfigKeyStateSQL,
        ContactList |-> ContactListSQL, Contact |-> ContactSQL, Correspondent |-> CorrespondentSQL,
        DataExportRequest |-> DataExportRequestSQL, DataSubjectErasureRequest |-> DataSubjectErasureRequestSQL,
        DeploymentIdentity |-> DeploymentIdentitySQL, DistributionList |-> DistributionListSQL,
        DnsControllerState |-> DnsControllerStateSQL, DnsOperation |-> DnsOperationSQL, DnsProvider |-> DnsProviderSQL,
        Domain |-> DomainSQL, EncryptionPolicy |-> EncryptionPolicySQL, EscrowAccessRequest |-> EscrowAccessRequestSQL,
        EscrowAuditHead |-> EscrowAuditHeadSQL, EscrowAuditLogEntry |-> EscrowAuditLogEntrySQL, EscrowScope |-> EscrowScopeSQL,
        FocusedInboxOverride |-> FocusedInboxOverrideSQL, Folder |-> FolderSQL, IngestQueueEntry |-> IngestQueueEntrySQL,
        IntegrationSettings |-> IntegrationSettingsSQL, KeyVault |-> KeyVaultSQL, Label |-> LabelSQL,
        MailFilterRule |-> MailFilterRuleSQL, MailSignature |-> MailSignatureSQL, MailboxImportRequest |-> MailboxImportRequestSQL,
        MailboxPolicy |-> MailboxPolicySQL, Mailbox |-> MailboxSQL, MatterExportRequest |-> MatterExportRequestSQL,
        Matter |-> MatterSQL, Message |-> MessageSQL, Note |-> NoteSQL, OofReplySuppression |-> OofReplySuppressionSQL,
        Plugin |-> PluginSQL, QuarantineEntry |-> QuarantineEntrySQL, RetentionPolicy |-> RetentionPolicySQL,
        ScanResult |-> ScanResultSQL, SearchIndexState |-> SearchIndexStateSQL, SetupState |-> SetupStateSQL,
        TaskList |-> TaskListSQL, Task |-> TaskSQL, TransportRule |-> TransportRuleSQL,
        ZeroAccessIndexEntry |-> ZeroAccessIndexEntrySQL, ZeroAccessIndexSegment |-> ZeroAccessIndexSegmentSQL]

-----------------------------------------------------------------------------
(* The same of the MongoDB binding.                                        *)

AppearancePreferencesMongo == Class(FALSE, {"userUid"}, {"userUid"}, {"mode"}, {}, {"colors", "background",
        "backgroundContentType"})
AttachmentMongo == Class(FALSE, {}, {"messageUid", "folderUid", "mailboxUid", "filename", "mimeType", "blobKey"}, {"sizeBytes",
        "isInline"}, {}, {"contentId", "extractedTextBlobKey", "extractionAttempts", "extractionNextAttemptAt", "extractionError",
        "scanResultUid"})
AuditLogEntryMongo == Class(FALSE, {}, {"targetType", "targetUid"}, {"action"}, {}, {"mailboxUid", "actorUserUid", "ip", "details"})
BrandingMongo == Class(FALSE, {}, {"companyName", "title"}, {}, {}, {"logoUrl", "logoBlobKey", "logoContentType", "iconUrl",
        "iconBlobKey", "iconContentType", "stylesheetUrl", "stylesheetBlobKey", "stylesheetContentType", "headerHtml",
        "footerHtml"})
CalendarEventAttendeeLinkMongo == Class(FALSE, {}, {"mailboxUid", "calendarEventUid", "attendeeAddress", "url"}, {}, {}, {"label",
        "keyed"})
CalendarEventMongo_Columns1 == Columns({"folderUid", "mailboxUid", "title", "timezone", "icalUid"}, {"startDate", "endDate",
        "allDay", "organizer", "attendees", "status", "busyStatus", "sequence"}, {}, {"location", "recurrenceRule", "recurrenceId",
        "reminderMinutesBeforeStart", "autoReplyEnabled", "autoReplyMessage", "inviteSequenceSent", "cancelNoticeSentAt",
        "reminderSentFor", "startAlarmSentFor"})
CalendarEventMongo_Columns2 == Columns({}, {"encryptionOrigin"}, {"visibility", "guestsCanModify", "guestsCanInviteOthers",
        "guestsCanSeeGuestList"}, {"sealedContent", "sealedFields", "zeroAccessBackfillError", "videoMeetingUid", "description",
        "descriptionHtml"})
CalendarEventMongo == With(With(Class(TRUE, {}, {}, {}, {}, {}), CalendarEventMongo_Columns1), CalendarEventMongo_Columns2)
CalendarShareLinkMongo == Class(FALSE, {"token"}, {"token", "folderUid", "createdByUserUid"}, {"permittedActions"}, {},
        {"expiresAt"})
ConfigKeyStateMongo == Class(FALSE, {}, {}, {}, {}, {"activeKid", "rotation", "kidUsage", "countedAt", "reencryption",
        "pluginSecrets"})
ContactListMongo == Class(FALSE, {}, {"mailboxUid", "name"}, {}, {}, {})
ContactMongo_Columns1 == Columns({"mailboxUid", "folderUid", "displayName"}, {"emails", "phones", "addresses"}, {},
        {"contactListUid", "givenName", "surname", "company", "jobTitle", "notes", "photoBlobKey", "sourceUid", "favorite",
        "categories", "encryptPreference", "keys", "keysFirstSeen", "preferredFormat", "sealedFields", "zeroAccessBackfillError",
        "photoSealed"})
ContactMongo_Columns2 == Columns({}, {}, {}, {"observedFormat", "lastMessageSeen", "keyConflicts", "previousKeys", "rejectedKeys"})
ContactMongo == With(With(Class(TRUE, {}, {}, {}, {}, {}), ContactMongo_Columns1), ContactMongo_Columns2)
CorrespondentMongo == Class(FALSE, {"mailboxUid", "address"}, {"mailboxUid", "address", "displayName"}, {"lastSeenAt", "count",
        "lastSource"}, {}, {"suggestedAt"})
DataExportRequestMongo == Class(FALSE, {}, {"mailboxUid", "requestedByUserUid"}, {"format", "status"}, {}, {"blobKey",
        "errorMessage", "processingAttempts"})
DataSubjectErasureRequestMongo == Class(FALSE, {}, {"mailboxUid", "requestedByUserUid"}, {"status"}, {}, {"reviewedByUserUid",
        "reason", "purgedCount", "leftoverOnly"})
DeploymentIdentityMongo == Class(FALSE, {}, {"installationId"}, {}, {}, {})
DistributionListMongo == Class(TRUE, {}, {"primarySmtpAddress", "name"}, {"memberAddresses"}, {"aliasAddresses",
        "restrictSenders"}, {"description", "ownerUserUid"})
DnsControllerStateMongo == Class(FALSE, {}, {}, {}, {}, {"handshake", "lastReport", "lastStandbyReport"})
DnsOperationMongo == Class(FALSE, {}, {"providerUid"}, {"type", "state"}, {}, {"domainUid", "endpointSetId", "records", "message",
        "requestedBy", "startedAt", "finishedAt"})
DnsProviderMongo == Class(FALSE, {"nameKey"}, {"name", "nameKey"}, {"type", "zones", "options", "credentialsGeneration", "enabled",
        "allowTakeover"}, {}, {"credentials", "origin", "status"})
DomainMongo == Class(FALSE, {}, {"name", "verificationToken"}, {"enabled", "verified"}, {}, {"verifiedAt", "lastCheckedAt",
        "dkimSelector", "dkimPublicKey", "dmarcPolicy", "dmarcReportEmail", "aliasOf", "dnsProviderUid", "dnsPublication",
        "apexTxt", "dkimRotation", "dkimManaged", "origin"})
EncryptionPolicyMongo == Class(FALSE, {}, {}, {"encryptSameOrg", "encryptFederated", "encryptExternal"}, {}, {"allowZeroAccess",
        "allowOpenPgp"})
EscrowAccessRequestMongo == Class(FALSE, {}, {"matterId", "mailboxUid", "requestedByUserUid"}, {"approvals",
        "requiredHoldersAtCreation", "status"}, {}, {"fulfilledAt", "deniedByUserUid", "deniedAt"})
EscrowAuditHeadMongo == Class(FALSE, {"chainId"}, {"chainId", "hash"}, {"sequence"}, {}, {"hashAlgorithm", "mac"})
EscrowAuditLogEntryMongo == Class(FALSE, {"sequence"}, {"hash", "holderUserUid", "matterId", "mailboxUid", "requestId"},
        {"sequence", "action", "occurredAt"}, {}, {"previousHash", "hashAlgorithm", "details"})
EscrowScopeMongo == Class(FALSE, {}, {"name"}, {"publicKey", "holderUserUids", "requiredHolders", "notifySubjectOnAccess"}, {},
        {"description"})
FocusedInboxOverrideMongo == Class(FALSE, {"mailboxUid", "senderAddress"}, {"mailboxUid", "senderAddress"}, {"classifyAs"}, {}, {})
FolderMongo == Class(TRUE, {}, {"mailboxUid", "name"}, {"type", "unreadCount", "totalCount", "syncKeyVersion"}, {},
        {"parentFolderUid", "color"})
IngestQueueEntryMongo == Class(FALSE, {}, {"mailboxUid", "envelopeFrom", "rawBlobKey"}, {"envelopeTo", "status"}, {},
        {"errorMessage", "quarantineReason", "attempts", "nextAttemptAt", "scanLeaseExpiresAt", "zeroAccessKeyFingerprint"})
IntegrationSettingsMongo == Class(FALSE, {}, {}, {}, {}, {"giphy", "stun", "signingCa", "dnsResolver", "pluginRegistry"})

\* A mutant: the unique index left out.
KeyVaultMongo_NotUnique == Class(FALSE, {}, {"mailboxUid"}, {"wrappedKeys", "masterKeyWraps"}, {}, {"memberKeyWraps", "zeroAccessEscrowWraps",
        "expiryAuditedFingerprint", "masterKeyGeneration"})
KeyVaultMongo == Class(FALSE, {"mailboxUid"}, {"mailboxUid"}, {"wrappedKeys", "masterKeyWraps"}, {}, {"memberKeyWraps",
        "zeroAccessEscrowWraps", "expiryAuditedFingerprint", "masterKeyGeneration"})

LabelMongo == Class(FALSE, {}, {"mailboxUid", "name"}, {}, {}, {"color"})
MailFilterRuleMongo == Class(FALSE, {}, {"mailboxUid", "name"}, {"enabled", "sequence", "stopProcessingRules", "conditions",
        "actions"}, {}, {})
MailSignatureMongo == [Class(FALSE, {}, {"mailboxUid", "name"}, {"isDefaultForNewMessages", "isDefaultForReplyForward"},
        {"contentHtml"}, {}) EXCEPT !.typed = {"contentHtml"}]
MailboxImportRequestMongo == Class(FALSE, {}, {"mailboxUid", "requestedByUserUid", "targetFolderUid", "sourceBlobKey"}, {"format",
        "status"}, {}, {"importedCount", "failedCount", "errorMessage", "processingAttempts"})
MailboxMongo_Columns1 == Columns({"primarySmtpAddress", "displayName", "timezone"}, {"aliasAddresses", "quotaBytes", "usedBytes",
        "oofEnabled", "alwaysRequestReceiptInternal", "alwaysRequestReceiptFederated", "alwaysRequestReceiptExternal"},
        {"oofMessage"}, {"ownerUserUid", "oofStartTime", "oofEndTime", "isResource", "resourceType", "resourceCapacity",
        "autoAcceptBookings", "allowConflicts", "bookingWindowDays", "maxDurationMinutes"})
MailboxMongo_Columns2 == Columns({}, {"autoSendReceiptsInternal", "autoSendReceiptsFederated", "autoSendReceiptsExternal",
        "encryptPreference", "keys"}, {"freeBusyVisibility", "blockedSenders", "safeSenders"}, {"zeroAccessKeys",
        "zeroAccessEnabled", "zeroAccessTypes", "syncClients", "zeroAccessKeysExportedAt", "keyDiscoveryHash",
        "correspondentsBackfilledAt", "escrowScopeId"})
MailboxMongo == With(With([Class(FALSE, {"primarySmtpAddress"}, {}, {}, {}, {}) EXCEPT !.typed = {"oofMessage"}],
        MailboxMongo_Columns1), MailboxMongo_Columns2)
MailboxPolicyMongo == Class(FALSE, {}, {}, {}, {}, {"defaultQuotaBytes", "autoProvisionEnabled", "autoProvisionQuotaBytes"})
MatterExportRequestMongo == Class(FALSE, {}, {"matterId", "requestedByUserUid"}, {"status"}, {"processingAttempts"}, {"blobKey",
        "errorMessage", "pendingAttestationMailboxUids"})
MatterMongo == Class(FALSE, {}, {"name", "escrowScopeId"}, {"custodianMailboxUids", "dateRangeStart", "dateRangeEnd"}, {},
        {"description", "closedAt"})
MessageMongo_Columns1 == Columns({"folderUid", "mailboxUid", "messageId", "subject", "bodyBlobKey", "bodyPreview"}, {"from",
        "recipients", "sentDate", "receivedDate", "flags", "importance"}, {}, {"envelopeRecipients", "sanitizedHtmlBlobKey"})
MessageMongo_Columns2 == Columns({}, {"references", "hasAttachments", "labelUids", "encrypted"}, {}, {"inReplyTo", "replyTo",
        "zeroAccess", "zeroAccessBackfillError", "scanResultUid", "searchIndexedAt", "searchIndexAttempts",
        "searchIndexNextAttemptAt", "searchIndexError", "scheduledSendTime", "scheduledSendAttempts", "scheduledSendError",
        "scheduledSendRelayedAt", "sentByServerAt", "scheduledSendLeaseExpiresAt", "retainedBodyBlobKeys", "verificationSeal",
        "verificationSealGeneration", "recallRequestedAt", "conversationId", "inferenceClassification"})
MessageMongo_Columns3 == Columns({}, {"deliveryReceiptPending", "readReceiptPending", "deliveryReceiptDeclined",
        "readReceiptDeclined"}, {}, {"requestReceipt", "dispositionNotificationTo", "deliveryReceiptSentAt", "readReceiptSentAt",
        "meetingResponse", "meetingMethod", "receiptStatus", "reportedAs", "dateReported"})

\* A mutant: a constructor that does not copy the columns added last.
MessageMongo == With(With(With([Class(TRUE, {}, {}, {}, {}, {}) EXCEPT !.typed = {"meetingResponse", "meetingMethod"},
        !.mirror = {"read", "flagged", "fromAddress", "importanceRank"}], MessageMongo_Columns1), MessageMongo_Columns2),
        MessageMongo_Columns3)

NoteMongo == Class(FALSE, {}, {"mailboxUid", "folderUid", "title", "body"}, {}, {}, {"color"})
OofReplySuppressionMongo == Class(FALSE, {}, {"mailboxUid", "senderAddress"}, {"lastRepliedAt"}, {}, {})
PluginMongo == Class(FALSE, {"name"}, {"name", "packageVersion"}, {"enabled", "settings", "manifest"}, {}, {"integrity", "removed",
        "source", "uploadBlobKey", "uploadFilename", "uploadedAt", "uploadedByUserUid"})
QuarantineEntryMongo == Class(FALSE, {}, {"mailboxUid", "scanResultUid", "rawBlobKey"}, {"reason"}, {}, {"originalMessageUid",
        "releasedAt", "releasedByUserUid"})
RetentionPolicyMongo == Class(FALSE, {}, {}, {}, {}, {"messageRetentionDays", "auditLogRetentionDays"})
ScanResultMongo == Class(FALSE, {}, {"targetUid"}, {"targetType", "spamScore", "spamVerdict", "spamSymbols", "avVerdict",
        "scannedAt", "providerVersions"}, {}, {"avSignatureName"})
SearchIndexStateMongo == Class(FALSE, {"entityType", "entityUid", "provider"}, {"entityType", "entityUid", "provider",
        "contentHash"}, {"indexedAt"}, {}, {})
SetupStateMongo == Class(FALSE, {}, {}, {}, {}, {"startedAt", "completedAt", "currentStep", "seededDomains",
        "bootstrapDnsProviderUid"})
TaskListMongo == Class(FALSE, {}, {"mailboxUid", "name"}, {}, {}, {})
TaskMongo == Class(TRUE, {}, {"mailboxUid", "folderUid", "title"}, {"completed", "priority"}, {}, {"body", "sealedFields",
        "zeroAccessBackfillError", "dueDate", "reminderDate", "taskListUid", "myDay", "assignedTo"})
TransportRuleMongo == Class(FALSE, {}, {"name"}, {"enabled", "sequence", "stopProcessingRules", "conditions", "actions"}, {}, {})
ZeroAccessIndexEntryMongo == Class(FALSE, {}, {"mailboxUid", "messageUid", "weekId", "keyFingerprint", "sealed"}, {"receivedAt"},
        {}, {})
ZeroAccessIndexSegmentMongo == Class(FALSE, {}, {"mailboxUid", "weekId", "blobKey", "etag", "keyFingerprint"}, {"generation",
        "bytes", "schemaVersion", "origin", "entryCount"}, {}, {})

ClassesMongo == [AppearancePreferences |-> AppearancePreferencesMongo, Attachment |-> AttachmentMongo,
        AuditLogEntry |-> AuditLogEntryMongo, Branding |-> BrandingMongo,
        CalendarEventAttendeeLink |-> CalendarEventAttendeeLinkMongo, CalendarEvent |-> CalendarEventMongo,
        CalendarShareLink |-> CalendarShareLinkMongo, ConfigKeyState |-> ConfigKeyStateMongo, ContactList |-> ContactListMongo,
        Contact |-> ContactMongo, Correspondent |-> CorrespondentMongo, DataExportRequest |-> DataExportRequestMongo,
        DataSubjectErasureRequest |-> DataSubjectErasureRequestMongo, DeploymentIdentity |-> DeploymentIdentityMongo,
        DistributionList |-> DistributionListMongo, DnsControllerState |-> DnsControllerStateMongo,
        DnsOperation |-> DnsOperationMongo, DnsProvider |-> DnsProviderMongo, Domain |-> DomainMongo,
        EncryptionPolicy |-> EncryptionPolicyMongo, EscrowAccessRequest |-> EscrowAccessRequestMongo,
        EscrowAuditHead |-> EscrowAuditHeadMongo, EscrowAuditLogEntry |-> EscrowAuditLogEntryMongo,
        EscrowScope |-> EscrowScopeMongo, FocusedInboxOverride |-> FocusedInboxOverrideMongo, Folder |-> FolderMongo,
        IngestQueueEntry |-> IngestQueueEntryMongo, IntegrationSettings |-> IntegrationSettingsMongo, KeyVault |-> KeyVaultMongo,
        Label |-> LabelMongo, MailFilterRule |-> MailFilterRuleMongo, MailSignature |-> MailSignatureMongo,
        MailboxImportRequest |-> MailboxImportRequestMongo, Mailbox |-> MailboxMongo, MailboxPolicy |-> MailboxPolicyMongo,
        MatterExportRequest |-> MatterExportRequestMongo, Matter |-> MatterMongo, Message |-> MessageMongo, Note |-> NoteMongo,
        OofReplySuppression |-> OofReplySuppressionMongo, Plugin |-> PluginMongo, QuarantineEntry |-> QuarantineEntryMongo,
        RetentionPolicy |-> RetentionPolicyMongo, ScanResult |-> ScanResultMongo, SearchIndexState |-> SearchIndexStateMongo,
        SetupState |-> SetupStateMongo, TaskList |-> TaskListMongo, Task |-> TaskMongo, TransportRule |-> TransportRuleMongo,
        ZeroAccessIndexEntry |-> ZeroAccessIndexEntryMongo, ZeroAccessIndexSegment |-> ZeroAccessIndexSegmentMongo]

-----------------------------------------------------------------------------
(* Requests.                                                               *)

CONSTANT RowIds

VARIABLES ent, fld,    \* the class and the column looked at
          table,       \* [database -> [row -> [at, val]]]
          said,        \* the databases' last answers
          given        \* ghost: what was last given for the column, as a reader sees it

envars == <<ent, fld, table, said, given>>

Databases == {"sql", "mongo"}
ClassOf(db) == IF db = "sql" THEN ClassesSQL[ent] ELSE ClassesMongo[ent]
Unwritten == [at |-> "none", val |-> "unset"]

\* A request on row r: each database answers for itself.
DbAnswers(ok(_), r, new(_)) ==
    /\ said' = [db \in Databases |-> IF ok(db) THEN "ok" ELSE "refused"]
    /\ table' = [db \in Databases |-> IF ok(db) THEN [table[db] EXCEPT ![r] = new(db)] ELSE table[db]]
    /\ UNCHANGED <<ent, fld>>
Notes(r, g) == given' = IF \A db \in Databases : said'[db] = "ok" THEN [given EXCEPT ![r] = g] ELSE given
ReadBack(db, v) == IF fld \in ClassOf(db).mirror THEN "default" ELSE Read(v)

\* What may be given: a client's JSON, or a value of the field's type written by the server.
Gives(client) == {"absent", "v", "blank"} \cup (IF fld \in ClassOf("sql").typed \cup ClassOf("mongo").typed THEN {}
                                                ELSE IF client \/ fld \in ClassOf("sql").opt \cup ClassOf("sql").may THEN {"null"} ELSE {})

\* repo.create(): the constructor, the client's validation, the unique index (rows in the trash count), the columns.
NoTwin(db, r) == ClassOf(db).key = {} \/ \A o \in RowIds \ {r} : table[db][o].at = "none"
CreateRow(r) == \E client \in BOOLEAN : \E g \in Gives(client) :
    LET val(db) == Built(ClassOf(db), fld, g)
        ok(db) == /\ table[db][r].at = "none" /\ NoTwin(db, r) /\ Fits(db, ClassOf(db), fld, val(db))
                  /\ client => Valid(ClassOf(db), fld, val(db))
        new(db) == [at |-> "live", val |-> AsStored(db, val(db))]
    IN  DbAnswers(ok, r, new) /\ Notes(r, IF g = "absent" THEN Read(val("sql")) ELSE ReadBack("sql", g))
\* repo.update(): only what the patch names.
ChangeRow(r) == \E client \in BOOLEAN : \E g \in Gives(client) \ {"absent"} :
    LET val(db) == IF fld \in ClassOf(db).mirror THEN "std" ELSE g
        ok(db) == /\ table[db][r].at = "live" /\ Fits(db, ClassOf(db), fld, val(db))
                  /\ client => Valid(ClassOf(db), fld, val(db))
        new(db) == [table[db][r] EXCEPT !.val = IF fld \in Copied(ClassOf(db)) \cup ClassOf(db).mirror THEN val(db) ELSE @]
    IN  DbAnswers(ok, r, new) /\ Notes(r, ReadBack("sql", g))
\* repo.delete(): softly where the class is recoverable; a purge removes the row.
DeleteRow(r) ==
    LET ok(db) == table[db][r].at = "live"
        new(db) == IF ClassOf(db).soft THEN [table[db][r] EXCEPT !.at = "trash"] ELSE Unwritten
    IN  DbAnswers(ok, r, new) /\ UNCHANGED given
RestoreRow(r) == LET ok(db) == table[db][r].at = "trash"
                     new(db) == [table[db][r] EXCEPT !.at = "live"]
                 IN  DbAnswers(ok, r, new) /\ UNCHANGED given
PurgeRow(r) == LET ok(db) == table[db][r].at # "none"
                   new(db) == Unwritten
               IN  DbAnswers(ok, r, new) /\ UNCHANGED given

\* A row older than the column holds nothing there.
OlderRow(db) == [at |-> "live", val |-> AsStored(db, "unset")]
EnInit ==
    /\ ent \in DOMAIN ClassesSQL
    /\ fld \in Copied(ClassesSQL[ent]) \cup ClassesSQL[ent].mirror \cup Copied(ClassesMongo[ent]) \cup ClassesMongo[ent].mirror
    /\ \/ table = [db \in Databases |-> [r \in RowIds |-> Unwritten]]
       \/ /\ fld \in ClassesSQL[ent].opt \cup (ClassesSQL[ent].may \ ClassesSQL[ent].typed) \cup ClassesSQL[ent].late
          /\ \E r \in RowIds : table = [db \in Databases |-> [o \in RowIds |-> IF o = r THEN OlderRow(db) ELSE Unwritten]]
    /\ said = [db \in Databases |-> "ok"] /\ given = [r \in RowIds |-> "default"]
EnNext == \E r \in RowIds : CreateRow(r) \/ ChangeRow(r) \/ DeleteRow(r) \/ RestoreRow(r) \/ PurgeRow(r)

-----------------------------------------------------------------------------
\* A column holds what was last accepted for it: no constructor forgets one, and a row restored from the trash is the row it was.
GivenIsKept == \A db \in Databases, r \in RowIds : table[db][r].at # "none" => Read(table[db][r].val) = given[r]

(* The two bindings cannot be told apart: whatever is asked of a class's   *)
(* rows, SQL and MongoDB accept or refuse it alike, and then hold rows a   *)
(* reader takes for the same, and for what was given - for rows older than *)
(* the column, too.                                                        *)
BindingsAgree ==
    /\ said["sql"] = said["mongo"]
    /\ \A r \in RowIds : /\ table["sql"][r].at = table["mongo"][r].at
                         /\ Read(table["sql"][r].val) = Read(table["mongo"][r].val)
    /\ GivenIsKept
=============================================================================
