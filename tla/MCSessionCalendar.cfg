SPECIFICATION Spec
CONSTANTS
  Class = {judo}
  MaxDay = 4
  Week = 2
  HolidayName = {half_term}
  HolidayDates <- MCHolidayDates
  MaxHolidays = 1
  MaxEdits = 1
  MaxPlans = 1
  Terms <- MCTerms
  Lookback = 1
INVARIANTS  OneEmail PagesAgree
 
