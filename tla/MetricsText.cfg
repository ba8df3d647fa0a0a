SPECIFICATION Spec
CONSTANTS
    Sanitized <- MCSanitized
    DigitFirst <- MCDigitFirst
    NumberOf <- MCNumberOf
    Suffix <- MCSuffix
    CommonFields <- MCCommonFields
    AttributeFields <- MCAttributeFields
    NvmeFields <- MCNvmeFields
    SensorInputs <- MCSensorInputs
    ReportInputs <- MCReportInputs
    NoInfo = NoInfo
INVARIANTS TypeOK HeadersOnce SensorsStayVisible NumbersSeparate SmartSeriesUnique
CHECK_DEADLOCK FALSE
