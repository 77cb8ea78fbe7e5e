SPECIFICATION Spec
CONSTANTS
  phone = phone
  tablet = tablet
  browser = browser
  MaxRetries = 2
  Backoff = 2
  MinConfidence = 60
  Statuses <- MCStatuses
  Confidences <- MCConfidences
  Dates <- MCDates
  Fleets <- MCFleets
  Providers <- MCProviders
  Channels <- MCChannels
INVARIANT
  RetiredOnlyIfDead
CHECK_DEADLOCK FALSE
