SPECIFICATION Spec
CONSTANTS
  j1 = j1
  j2 = j2
  j3 = j3
  u1 = u1
  u2 = u2
  utc = utc
  oslo = oslo
  NoJob = NoJob
  JobIds <- ThreeIds
  Users <- TwoUsers
  Timezones <- TwoTimezones
  Crons <- AllCrons
  UTC <- utc
  MaxJobs = 2
  MaxPerUser = 1
  MaxExits = 1
  MaxOverlap = 1
INVARIANT StoredJobsRegistrable
