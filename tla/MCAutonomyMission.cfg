SPECIFICATION Spec
CONSTANTS
  known = known
  lacking = lacking
  crm = crm
  research = research
  Missions = {known, lacking}
  Capabilities = {crm, research}
  Required <- MCRequired
  Supported = {research}
  MaxObjectives = 2
  MaxEvidence = 1
  MaxEvaluations = 1
  MaxCapabilities = 1
  MaxAttempts = 2
  MaxRestarts = 1
  None = None
CHECK_DEADLOCK FALSE
INVARIANTS EscalatedMissionWaits AnnouncedIsDurable
