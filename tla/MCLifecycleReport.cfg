SPECIFICATION Spec
CONSTANTS
    CvThread <- MCCvThread
    MsgThread <- MCMsgThread
    Order <- MCOrder
    Period <- MCPeriod
    InternalOwner <- MCInternalOwner
    ReportReads <- MCReportReads
    MaxInbox = 1
INVARIANTS
    ReportReadsLiveObject
