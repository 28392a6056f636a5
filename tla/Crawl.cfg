\* Every web of MCWebs with every limit of MCLimits: each limit is met by some
\* webs and not by others.  Three redirects at most for a chain of three urls.
SPECIFICATION Spec
CONSTANTS
  AllowHttp = TRUE
  MaxRedirects = 2
  Webs <- MCWebs
  Limits <- MCLimits
INVARIANTS OnlyThroughTheGuard  CleanMeansCovered
PROPERTY CrawlEnds
CHECK_DEADLOCK FALSE
